-------------------------- MODULE SupervisorProofs --------------------------
(***************************************************************************)
(* Theorems about the supervisor's tool calls.  The inductive invariant    *)
(* relates the event queue, the prompts of the frontends, pending_approvals *)
(* and the history of a call to the phase of its handling: a ToolCall is   *)
(* queued once, only judged calls are prompted for or answered, and each   *)
(* phase fixes what the call was decided on and what happened to it.  With *)
(* it, every step of the supervisor is a step of the gate or none of its.  *)
(* The second half is about the life of an agent, with an invariant of its  *)
(* own over the same state.                                                *)
(***************************************************************************)
EXTENDS Supervisor, FiniteSetTheorems, TLAPS

USE DEF procVars, connVars, agentMaps, policyVars, sandboxVars, callVars, frontendVars

-----------------------------------------------------------------------------
(* The inductive invariant *)

\* The call has not reached the handler yet.
Unjudged(c) == phase[c] \in {"new", "sent"}

\* A queued ToolCall is the only one of its call, and nobody answers a call that
\* the handler has yet to see.
QueueInv ==
  \A i \in DOMAIN events, c \in Call :
     /\ events[i] = <<"call", c>> =>
          /\ phase[c] = "sent"
          /\ \A j \in DOMAIN events : events[j] = <<"call", c>> => i = j
     /\ \A d \in Decision : events[i] = <<d, c>> => ~Unjudged(c)

PromptInv == \A f \in Frontend : \A c \in prompts[f] : ~Unjudged(c)

\* What each phase of a call says of what it was decided on.
BasisInv ==
  \A c \in Call :
     /\ Unjudged(c) => basis[c] = "none"
     /\ phase[c] = "asked" => basis[c] = "user"
     /\ phase[c] \in {"granted", "running"} => basis[c] \in {"policy", "user"}
     /\ phase[c] \in {"settled", "replied"} => basis[c] \in {"policy", "user", "refusal"}
     /\ phase[c] = "done" => basis[c] # "none"
     /\ basis[c] = "user" => ToolOf[c] # Health

\* pending_approvals and the first answer.
ApprovalInv ==
  \A c \in Call :
     /\ c \in pending <=> phase[c] = "asked"
     /\ Unjudged(c) \/ c \in pending => answer[c] = "none"
     /\ basis[c] = "user" /\ c \notin pending => answer[c] \in Approval

\* A call takes effect when it is executed and at no other time.
EffectInv ==
  \A c \in Call :
     /\ phase[c] \notin {"settled", "replied", "done"} => effects[c] = 0
     /\ basis[c] \notin {"policy", "user"} => effects[c] = 0
     /\ effects[c] <= 1

\* The agent is answered, then the call journalled, once.
ReplyInv ==
  \A c \in Call :
     /\ phase[c] \notin {"replied", "done"} => replies[c] = <<>>
     /\ replies[c] \in {<<>>, <<"result">>, <<"denied">>}
     /\ basis[c] \in {"invalid", "denied", "refusal"} => replies[c] # <<"result">>

JournalOf(b) ==
  CASE b = "policy" -> <<"allow">>
    [] b = "user"   -> <<"ask">>
    [] b = "health" -> <<>>
    [] OTHER        -> <<"deny">>

AuditInv ==
  \A c \in Call :
     /\ phase[c] # "done" => audits[c] = <<>>
     /\ phase[c] = "done" => audits[c] = JournalOf(basis[c])

CallInv ==
  /\ QueueInv
  /\ PromptInv
  /\ BasisInv
  /\ ApprovalInv
  /\ EffectInv
  /\ ReplyInv
  /\ AuditInv
  /\ OverlayJustified

-----------------------------------------------------------------------------
(* Type correctness *)

\* Appending an event leaves a queue of events.
LEMMA PostType ==
  ASSUME TypeOK, NEW e \in Event, Post(e)
  PROVE  events' \in Seq(Event)
BY DEF TypeOK, Post

\* Taking the first event leaves a queue of events; what is taken is an event.
LEMMA TakeType ==
  ASSUME TypeOK, NEW kind, NEW x, Take(kind, x)
  PROVE  events' \in Seq(Event) /\ <<kind, x>> \in Event /\ loop = Idle
<1>1. events \in Seq(Event)
  BY DEF TypeOK
<1>2. Head(events) \in Event /\ Tail(events) \in Seq(Event)
  BY <1>1 DEF Take
<1>. QED
  BY <1>2 DEF Take

\* Settling a job removes it from headless_agents and extends its outcomes.
LEMMA SettlesType ==
  ASSUME TypeOK, NEW a \in Agent, NEW how \in {"died", "completed", "error"},
         Settles(a, how)
  PROVE  /\ headless' \in SUBSET Agent
         /\ outcome' \in [Agent -> Seq({"died", "completed", "error"})]
BY DEF Settles, TypeOK

\* A message changes at most the record of the first message an agent heard.
LEMMA ReceivesType ==
  ASSUME TypeOK, NEW a \in Agent, NEW message \in {"init", "other"}, Receives(a, message)
  PROVE  first' \in [Agent -> {"none", "init", "other"}]
<1>1. [first EXCEPT ![a] = message] \in [Agent -> {"none", "init", "other"}]
  BY DEF TypeOK
<1>. QED
  BY <1>1 DEF Receives, TypeOK

\* Every step keeps the type of the state; one step of the proof per action.
LEMMA TypeStep ==
  ASSUME TypeOK, CallInv, Next
  PROVE  TypeOK'
<1>1. ASSUME NEW f \in Frontend, FrontendConnects(f) PROVE TypeOK'
  <2>1. events' \in Seq(Event)
    BY <1>1, PostType DEF FrontendConnects, Event, AgentEvent, CallEvent, Decision
  <2>. QED
    BY <1>1, <2>1 DEF FrontendConnects, TypeOK
<1>2. ASSUME NEW f \in Frontend, FrontendDisconnects(f) PROVE TypeOK'
  <2>1. events' \in Seq(Event)
    BY <1>2, PostType DEF FrontendDisconnects, Event, AgentEvent, CallEvent, Decision
  <2>. QED
    BY <1>2, <2>1 DEF FrontendDisconnects, TypeOK
<1>3. ASSUME NEW f \in Frontend, NEW c \in Call, NEW d \in Decision, UserAnswers(f, c, d) PROVE TypeOK'
  <2>1. events' \in Seq(Event)
    BY <1>3, PostType DEF UserAnswers, Event, AgentEvent, CallEvent, Decision
  <2>. QED
    BY <1>3, <2>1 DEF UserAnswers, TypeOK
<1>4. ASSUME NEW f \in Frontend, NEW a \in Agent, UserSpawns(f, a) PROVE TypeOK'
  <2>1. events' \in Seq(Event)
    BY <1>4, PostType DEF UserSpawns, Event, AgentEvent, CallEvent, Decision
  <2>. QED
    BY <1>4, <2>1 DEF UserSpawns, TypeOK
<1>5. ASSUME NEW f \in Frontend, UserSends(f) PROVE TypeOK'
  <2>1. events' \in Seq(Event)
    BY <1>5, PostType DEF UserSends, UserCommands, Event, AgentEvent, CallEvent, Decision
  <2>. QED
    BY <1>5, <2>1 DEF UserSends, UserCommands, TypeOK
<1>6. ASSUME NEW f \in Frontend, NEW a \in Agent, UserKills(f, a) PROVE TypeOK'
  <2>1. events' \in Seq(Event)
    BY <1>6, PostType DEF UserKills, UserCommands, Event, AgentEvent, CallEvent, Decision
  <2>. QED
    BY <1>6, <2>1 DEF UserKills, UserCommands, TypeOK
<1>7. ASSUME NEW f \in Frontend, OnFrontendConnected(f) PROVE TypeOK'
  <2>1. events' \in Seq(Event)
    BY <1>7, TakeType DEF OnFrontendConnected
  <2>. QED
    BY <1>7, <2>1 DEF OnFrontendConnected, TypeOK
<1>8. ASSUME NEW f \in Frontend, OnFrontendDisconnected(f) PROVE TypeOK'
  <2>1. events' \in Seq(Event)
    BY <1>8, TakeType DEF OnFrontendDisconnected
  <2>. QED
    BY <1>8, <2>1 DEF OnFrontendDisconnected, TypeOK
<1>9. ASSUME NEW f \in Frontend, OnSendMessage(f) PROVE TypeOK'
  <2>1. events' \in Seq(Event)
    BY <1>9, TakeType DEF OnSendMessage
  <2>2. CASE UNCHANGED <<first, mail>>
    BY <1>9, <2>1, <2>2 DEF OnSendMessage, TypeOK
  <2>3. ASSUME NEW a \in agents, Receives(a, "other"),
               mail' = IF proc[a] = "running" THEN [mail EXCEPT ![a] = @ + 1] ELSE mail
        PROVE  TypeOK'
    <3>1. a \in Agent /\ mail[a] + 1 \in Nat
      BY DEF TypeOK
    <3>2. mail' \in [Agent -> Nat]
      BY <2>3, <3>1 DEF TypeOK
    <3>3. first' \in [Agent -> {"none", "init", "other"}]
      BY <2>3, <3>1, ReceivesType
    <3>. QED
      BY <1>9, <2>1, <3>2, <3>3 DEF OnSendMessage, TypeOK
  <2>. QED
    BY <1>9, <2>2, <2>3 DEF OnSendMessage
<1>10. ASSUME NEW a \in Agent, JobDue(a) PROVE TypeOK'
  <2>1. events' \in Seq(Event)
    BY <1>10, PostType DEF JobDue, Event, AgentEvent, CallEvent, Decision
  <2>. QED
    BY <1>10, <2>1 DEF JobDue, TypeOK
<1>11. ASSUME NEW a \in Agent, Authenticates(a) PROVE TypeOK'
  <2>1. events' \in Seq(Event)
    BY <1>11, PostType DEF Authenticates, Event, AgentEvent, CallEvent, Decision
  <2>. QED
    BY <1>11, <2>1 DEF Authenticates, TypeOK
<1>12. ASSUME NEW a \in Agent, BecomesReady(a) PROVE TypeOK'
  <2>1. events' \in Seq(Event)
    BY <1>12, PostType DEF BecomesReady, Event, AgentEvent
  <2>2. mail' \in [Agent -> Nat]
    BY <1>12 DEF BecomesReady, TypeOK
  <2>. QED
    BY <1>12, <2>1, <2>2 DEF BecomesReady, TypeOK
<1>13. ASSUME NEW a \in Agent, NEW how \in {"done", "error"}, EndsTurn(a, how) PROVE TypeOK'
  <2>1. events' \in Seq(Event)
    BY <1>13, PostType DEF EndsTurn, Event, AgentEvent
  <2>2. IsFiniteSet(Waiting(a))
    BY SupervisorAssumption, FS_Subset DEF Waiting
  <2>3. mail[a] - 1 \in Nat
    BY <1>13, <2>2, FS_CardinalityType DEF EndsTurn, HasTurn, TypeOK
  <2>4. mail' \in [Agent -> Nat]
    BY <1>13, <2>3 DEF EndsTurn, TypeOK
  <2>. QED
    BY <1>13, <2>1, <2>4 DEF EndsTurn, TypeOK
<1>14. ASSUME NEW a \in Agent, Exits(a) PROVE TypeOK'
  BY <1>14 DEF Exits, TypeOK
<1>15. ASSUME NEW a \in Agent, AuthFails(a) PROVE TypeOK'
  <2>1. events' \in Seq(Event)
    BY <1>15, PostType DEF AuthFails, Event, AgentEvent, CallEvent, Decision
  <2>. QED
    BY <1>15, <2>1 DEF AuthFails, TypeOK
<1>16. ASSUME NEW a \in Agent, ReadFails(a) PROVE TypeOK'
  <2>1. events' \in Seq(Event)
    BY <1>16, PostType DEF ReadFails, ConnectionEnds, Event, AgentEvent, CallEvent, Decision
  <2>. QED
    BY <1>16, <2>1 DEF ReadFails, ConnectionEnds, TypeOK
<1>17. ASSUME NEW a \in Agent, HeartbeatTimeout(a) PROVE TypeOK'
  <2>1. events' \in Seq(Event)
    BY <1>17, PostType DEF HeartbeatTimeout, ConnectionEnds, Event, AgentEvent, CallEvent, Decision
  <2>. QED
    BY <1>17, <2>1 DEF HeartbeatTimeout, ConnectionEnds, TypeOK
<1>18. ASSUME NEW a \in Agent, WatchdogFires(a) PROVE TypeOK'
  <2>1. events' \in Seq(Event)
    BY <1>18, PostType DEF WatchdogFires, Event, AgentEvent, CallEvent, Decision
  <2>. QED
    BY <1>18, <2>1 DEF WatchdogFires, TypeOK
<1>19. ASSUME NEW a \in Agent, OnSpawnAgent(a) PROVE TypeOK'
  <2>1. events' \in Seq(Event)
    BY <1>19, TakeType DEF OnSpawnAgent
  <2>. QED
    BY <1>19, <2>1 DEF OnSpawnAgent, TypeOK
<1>20. ASSUME NEW kind \in {"spawn", "job"}, NEW a \in Agent, SpawnFails(kind, a) PROVE TypeOK'
  <2>1. events' \in Seq(Event)
    BY <1>20, TakeType DEF SpawnFails
  <2>. QED
    BY <1>20, <2>1 DEF SpawnFails, TypeOK
<1>21. ASSUME NEW a \in Agent, OnScheduledJob(a) PROVE TypeOK'
  <2>1. events' \in Seq(Event)
    BY <1>21, TakeType DEF OnScheduledJob
  <2>. QED
    BY <1>21, <2>1 DEF OnScheduledJob, TypeOK
<1>22. ASSUME NEW a \in Agent, OnKillAgent(a) PROVE TypeOK'
  <2>1. events' \in Seq(Event)
    BY <1>22, TakeType DEF OnKillAgent
  <2>. QED
    BY <1>22, <2>1 DEF OnKillAgent, Receives, TypeOK
<1>23. ASSUME NEW a \in Agent, OnAgentConnected(a) PROVE TypeOK'
  <2>1. events' \in Seq(Event)
    BY <1>23, TakeType DEF OnAgentConnected
  <2>. QED
    BY <1>23, <2>1 DEF OnAgentConnected, TypeOK
<1>24. ASSUME NEW a \in Agent, FinishConnect(a) PROVE TypeOK'
  BY <1>24 DEF FinishConnect, Receives, TypeOK
<1>25. ASSUME NEW a \in Agent, OnAgentDied(a) PROVE TypeOK'
  <2>1. events' \in Seq(Event)
    BY <1>25, TakeType DEF OnAgentDied
  <2>. QED
    BY <1>25, <2>1, SettlesType DEF OnAgentDied, TypeOK
<1>26. ASSUME NEW a \in Agent, Cleanup(a) PROVE TypeOK'
  BY <1>26 DEF Cleanup, TypeOK
<1>27. ASSUME NEW a \in Agent, OnReady(a) PROVE TypeOK'
  <2>1. events' \in Seq(Event)
    BY <1>27, TakeType DEF OnReady
  <2>. QED
    BY <1>27, <2>1 DEF OnReady, TypeOK
<1>28. ASSUME NEW a \in Agent, OnResponseDone(a) PROVE TypeOK'
  <2>1. events' \in Seq(Event)
    BY <1>28, TakeType DEF OnResponseDone
  <2>. QED
    BY <1>28, <2>1, SettlesType DEF OnResponseDone, TypeOK
<1>29. ASSUME NEW a \in Agent, OnAgentError(a) PROVE TypeOK'
  <2>1. events' \in Seq(Event)
    BY <1>29, TakeType DEF OnAgentError
  <2>. QED
    BY <1>29, <2>1, SettlesType DEF OnAgentError, TypeOK
<1>30. ASSUME NEW c \in Call, CallsTool(c) PROVE TypeOK'
  <2>1. events' \in Seq(Event)
    BY <1>30, PostType DEF CallsTool, Event, CallEvent
  <2>. QED
    BY <1>30, <2>1 DEF CallsTool, TypeOK, Phase
<1>31. ASSUME NEW c \in Call, OnHealthCall(c) PROVE TypeOK'
  <2>1. events' \in Seq(Event)
    BY <1>31, TakeType DEF OnHealthCall
  <2>2. replies' \in [Call -> Seq({"result", "denied"})]
    BY <1>31 DEF OnHealthCall, Tells, TypeOK
  <2>. QED
    BY <1>31, <2>1, <2>2 DEF OnHealthCall, TypeOK, Phase, Basis
<1>32. ASSUME NEW c \in Call, OnToolCall(c) PROVE TypeOK'
  <2>1. events' \in Seq(Event) /\ loop = Idle
    BY <1>32, TakeType DEF OnToolCall
  <2>2. CASE \E on \in {"invalid", "denied"} : Reject(c, on)
    <3>1. replies' \in [Call -> Seq({"result", "denied"})]
      BY <2>2 DEF Reject, Tells, TypeOK
    <3>2. audits' \in [Call -> Seq(PolicyAction)]
      BY <2>2 DEF Reject, TypeOK, PolicyAction
    <3>. QED
      BY <1>32, <2>1, <2>2, <3>1, <3>2 DEF OnToolCall, Reject, TypeOK, Phase, Basis
  <2>3. CASE AllowNow(c)
    BY <1>32, <2>1, <2>3 DEF OnToolCall, AllowNow, TypeOK, Phase, Basis
  <2>4. CASE AskUser(c)
    <3>1. prompts' \in [Frontend -> SUBSET Call]
      BY <2>4 DEF AskUser, TypeOK
    <3>. QED
      BY <1>32, <2>1, <2>4, <3>1 DEF OnToolCall, AskUser, TypeOK, Phase, Basis
  <2>. QED
    BY <1>32, <2>2, <2>3, <2>4 DEF OnToolCall
<1>33. ASSUME NEW c \in Call, NEW d \in Decision, OnApprovalResponse(c, d) PROVE TypeOK'
  <2>1. events' \in Seq(Event)
    BY <1>33, TakeType DEF OnApprovalResponse
  <2>2. overlay' \in SUBSET (Agent \X Tool)
    BY <1>33, SupervisorAssumption
      DEF OnApprovalResponse, TypeOK, CallInv, ApprovalInv, BasisInv
  <2>3. answer' \in [Call -> {"none"} \cup Decision]
    BY <1>33 DEF OnApprovalResponse, TypeOK
  <2>4. phase' \in [Call -> Phase] /\ basis' \in [Call -> Basis] /\ pending' \in SUBSET Call
    <3>1. /\ [phase EXCEPT ![c] = "granted"] \in [Call -> Phase]
          /\ [phase EXCEPT ![c] = "settled"] \in [Call -> Phase]
          /\ [basis EXCEPT ![c] = "refusal"] \in [Call -> Basis]
      BY DEF TypeOK, Phase, Basis
    <3>2. CASE c \notin pending
      BY <1>33, <3>2 DEF OnApprovalResponse, TypeOK
    <3>3. CASE c \in pending /\ d \in Approval
      <4>1. /\ phase' = [phase EXCEPT ![c] = "granted"] /\ basis' = basis
            /\ pending' = pending \ {c}
        BY <1>33, <3>3 DEF OnApprovalResponse
      <4>. QED
        BY <3>1, <4>1 DEF TypeOK
    <3>4. CASE c \in pending /\ d \notin Approval
      <4>1. /\ phase' = [phase EXCEPT ![c] = "settled"]
            /\ basis' = [basis EXCEPT ![c] = "refusal"]
            /\ pending' = pending \ {c}
        BY <1>33, <3>4 DEF OnApprovalResponse
      <4>. QED
        BY <3>1, <4>1 DEF TypeOK
    <3>. QED
      BY <3>2, <3>3, <3>4
  <2>. QED
    BY <1>33, <2>1, <2>2, <2>3, <2>4 DEF OnApprovalResponse, TypeOK
<1>34. ASSUME NEW c \in Call, AcquireSandbox(c) PROVE TypeOK'
  BY <1>34 DEF AcquireSandbox, TypeOK, Phase
<1>35. ASSUME NEW c \in Call, Execute(c) PROVE TypeOK'
  BY <1>35 DEF Execute, TypeOK, Phase
<1>36. ASSUME NEW c \in Call, Answer(c) PROVE TypeOK'
  <2>1. replies' \in [Call -> Seq({"result", "denied"})]
    BY <1>36 DEF Answer, Tells, TypeOK
  <2>. QED
    BY <1>36, <2>1 DEF Answer, TypeOK, Phase
<1>37. ASSUME NEW c \in Call, Journal(c) PROVE TypeOK'
  <2>1. audits' \in [Call -> Seq(PolicyAction)]
    BY <1>37 DEF Journal, TypeOK, PolicyAction, CallInv, BasisInv
  <2>. QED
    BY <1>37, <2>1 DEF Journal, TypeOK, Phase
<1>38. ASSUME PolicyReloads PROVE TypeOK'
  BY <1>38 DEF PolicyReloads, TypeOK
<1>. QED
  BY <1>1, <1>2, <1>3, <1>4, <1>5, <1>6, <1>7, <1>8, <1>9, <1>10, <1>11, <1>12, <1>13, <1>14, <1>15, <1>16, <1>17, <1>18, <1>19, <1>20, <1>21, <1>22, <1>23, <1>24, <1>25, <1>26, <1>27, <1>28, <1>29, <1>30, <1>31, <1>32, <1>33, <1>34, <1>35, <1>36, <1>37, <1>38 DEF Next, UserStep, OnFrontendEvent, AgentStep, TaskStep, OnAgentEvent, OnCallEvent, RunStep

-----------------------------------------------------------------------------
(* The invariant of tool calls *)

\* What posting an event does to the queue.
LEMMA PostQueue ==
  ASSUME TypeOK, NEW e \in Event, Post(e)
  PROVE  \A i \in DOMAIN events' :
            \/ i \in DOMAIN events /\ events'[i] = events[i]
            \/ i = Len(events) + 1 /\ events'[i] = e
BY DEF TypeOK, Post

\* What taking the first event does to it.
LEMMA TakeQueue ==
  ASSUME TypeOK, NEW kind, NEW x, Take(kind, x)
  PROVE  /\ 1 \in DOMAIN events /\ events[1] = <<kind, x>>
         /\ \A i \in DOMAIN events' :
               i \in Nat \ {0} /\ i + 1 \in DOMAIN events /\ events'[i] = events[i + 1]
<1>1. events \in Seq(Event) /\ events # <<>>
  BY DEF TypeOK, Take
<1>2. 1 \in DOMAIN events /\ Head(events) = events[1]
  BY <1>1
<1>. QED
  BY <1>1, <1>2 DEF Take

\* A step that leaves every call alone and does at most one thing to the queue.
Quiet ==
  /\ UNCHANGED <<callVars, prompts, overlay>>
  /\ \/ UNCHANGED events
     \/ \E kind, x : Take(kind, x)
     \/ \E e \in Event \ (CallEvent \X Call) : Post(e)

\* A quiet step keeps the invariant of tool calls.
LEMMA QuietKeeps ==
  ASSUME TypeOK, CallInv, Quiet
  PROVE  CallInv'
<1>1. QueueInv'
  <2>1. CASE UNCHANGED events
    BY <2>1 DEF Quiet, CallInv, QueueInv, Unjudged
  <2>2. ASSUME NEW kind, NEW x, Take(kind, x)
        PROVE  QueueInv'
    BY <2>2, TakeQueue DEF Quiet, CallInv, QueueInv, Unjudged
  <2>3. ASSUME NEW e \in Event \ (CallEvent \X Call), Post(e)
        PROVE  QueueInv'
    <3>1. \A c \in Call, k \in CallEvent : e # <<k, c>>
      OBVIOUS
    <3>. QED
      BY <2>3, <3>1, PostQueue DEF Quiet, CallInv, QueueInv, Unjudged, CallEvent
  <2>. QED
    BY <2>1, <2>2, <2>3 DEF Quiet
<1>2. PromptInv' /\ BasisInv' /\ ApprovalInv' /\ EffectInv'
  BY DEF Quiet, CallInv, PromptInv, BasisInv, ApprovalInv, EffectInv, Unjudged
<1>3. ReplyInv' /\ AuditInv' /\ OverlayJustified'
  BY DEF Quiet, CallInv, ReplyInv, AuditInv, OverlayJustified
<1>. QED
  BY <1>1, <1>2, <1>3 DEF CallInv

\* What the tasks post about an agent is an event that concerns no call.
LEMMA AgentPost ==
  ASSUME NEW k \in AgentEvent, NEW a \in Agent
  PROVE  <<k, a>> \in Event \ (CallEvent \X Call)
BY DEF Event, AgentEvent, CallEvent, Decision, Approval

\* What the tasks post about a frontend is an event that concerns no call.
LEMMA FrontendPost ==
  ASSUME NEW k \in {"fconn", "fdisc", "send"}, NEW f \in Frontend
  PROVE  <<k, f>> \in Event \ (CallEvent \X Call)
BY DEF Event, CallEvent, Decision, Approval

\* Everything but a call's own steps is quiet.
LEMMA QuietSteps ==
  ASSUME TypeOK, Next
  PROVE  \/ Quiet
         \/ \E c \in Call : \/ CallsTool(c) \/ OnCallEvent(c) \/ RunStep(c)
                           \/ \E f \in Frontend, d \in Decision : UserAnswers(f, c, d)
<1>1. ASSUME NEW f \in Frontend, FrontendConnects(f) PROVE Quiet
  BY <1>1, FrontendPost DEF Quiet, FrontendConnects
<1>2. ASSUME NEW f \in Frontend, FrontendDisconnects(f) PROVE Quiet
  BY <1>2, FrontendPost DEF Quiet, FrontendDisconnects
<1>3. ASSUME NEW f \in Frontend, NEW a \in Agent, UserSpawns(f, a) PROVE Quiet
  BY <1>3, AgentPost DEF Quiet, UserSpawns, AgentEvent
<1>4. ASSUME NEW f \in Frontend, UserSends(f) PROVE Quiet
  BY <1>4, FrontendPost DEF Quiet, UserSends, UserCommands
<1>5. ASSUME NEW f \in Frontend, NEW a \in Agent, UserKills(f, a) PROVE Quiet
  BY <1>5, AgentPost DEF Quiet, UserKills, UserCommands, AgentEvent
<1>6. ASSUME NEW f \in Frontend, OnFrontendConnected(f) PROVE Quiet
  BY <1>6 DEF Quiet, OnFrontendConnected
<1>7. ASSUME NEW f \in Frontend, OnFrontendDisconnected(f) PROVE Quiet
  BY <1>7 DEF Quiet, OnFrontendDisconnected
<1>8. ASSUME NEW f \in Frontend, OnSendMessage(f) PROVE Quiet
  BY <1>8 DEF Quiet, OnSendMessage
<1>9. ASSUME NEW a \in Agent, JobDue(a) PROVE Quiet
  BY <1>9, AgentPost DEF Quiet, JobDue, AgentEvent
<1>10. ASSUME NEW a \in Agent, Authenticates(a) PROVE Quiet
  BY <1>10, AgentPost DEF Quiet, Authenticates, AgentEvent
<1>11. ASSUME NEW a \in Agent, BecomesReady(a) PROVE Quiet
  BY <1>11, AgentPost DEF Quiet, BecomesReady, AgentEvent
<1>12. ASSUME NEW a \in Agent, NEW how \in {"done", "error"}, EndsTurn(a, how) PROVE Quiet
  BY <1>12, AgentPost DEF Quiet, EndsTurn, AgentEvent
<1>13. ASSUME NEW a \in Agent, Exits(a) PROVE Quiet
  BY <1>13 DEF Quiet, Exits
<1>14. ASSUME NEW a \in Agent, AuthFails(a) PROVE Quiet
  BY <1>14, AgentPost DEF Quiet, AuthFails, AgentEvent
<1>15. ASSUME NEW a \in Agent, ReadFails(a) PROVE Quiet
  BY <1>15, AgentPost DEF Quiet, ReadFails, ConnectionEnds, AgentEvent
<1>16. ASSUME NEW a \in Agent, HeartbeatTimeout(a) PROVE Quiet
  BY <1>16, AgentPost DEF Quiet, HeartbeatTimeout, ConnectionEnds, AgentEvent
<1>17. ASSUME NEW a \in Agent, WatchdogFires(a) PROVE Quiet
  BY <1>17, AgentPost DEF Quiet, WatchdogFires, AgentEvent
<1>18. ASSUME NEW a \in Agent, OnSpawnAgent(a) PROVE Quiet
  BY <1>18 DEF Quiet, OnSpawnAgent
<1>19. ASSUME NEW kind \in {"spawn", "job"}, NEW a \in Agent, SpawnFails(kind, a) PROVE Quiet
  BY <1>19 DEF Quiet, SpawnFails
<1>20. ASSUME NEW a \in Agent, OnScheduledJob(a) PROVE Quiet
  BY <1>20 DEF Quiet, OnScheduledJob
<1>21. ASSUME NEW a \in Agent, OnKillAgent(a) PROVE Quiet
  BY <1>21 DEF Quiet, OnKillAgent
<1>22. ASSUME NEW a \in Agent, OnAgentConnected(a) PROVE Quiet
  BY <1>22 DEF Quiet, OnAgentConnected
<1>23. ASSUME NEW a \in Agent, FinishConnect(a) PROVE Quiet
  BY <1>23 DEF Quiet, FinishConnect
<1>24. ASSUME NEW a \in Agent, OnAgentDied(a) PROVE Quiet
  BY <1>24 DEF Quiet, OnAgentDied
<1>25. ASSUME NEW a \in Agent, Cleanup(a) PROVE Quiet
  BY <1>25 DEF Quiet, Cleanup
<1>26. ASSUME NEW a \in Agent, OnReady(a) PROVE Quiet
  BY <1>26 DEF Quiet, OnReady
<1>27. ASSUME NEW a \in Agent, OnResponseDone(a) PROVE Quiet
  BY <1>27 DEF Quiet, OnResponseDone
<1>28. ASSUME NEW a \in Agent, OnAgentError(a) PROVE Quiet
  BY <1>28 DEF Quiet, OnAgentError
<1>29. ASSUME PolicyReloads PROVE Quiet
  BY <1>29 DEF Quiet, PolicyReloads
<1>. QED
  BY <1>1, <1>2, <1>3, <1>4, <1>5, <1>6, <1>7, <1>8, <1>9, <1>10, <1>11, <1>12, <1>13, <1>14, <1>15, <1>16, <1>17, <1>18, <1>19, <1>20, <1>21, <1>22, <1>23, <1>24, <1>25, <1>26, <1>27, <1>28, <1>29
     DEF Next, UserStep, OnFrontendEvent, AgentStep, TaskStep, OnAgentEvent

\* What is posted about a call is an event.
LEMMA CallPost ==
  ASSUME NEW k \in CallEvent, NEW c \in Call
  PROVE  <<k, c>> \in Event
BY DEF Event

\* A user answers: only calls that were asked have a prompt.
LEMMA UserAnswersKeeps ==
  ASSUME TypeOK, CallInv,
         NEW f \in Frontend, NEW c \in Call, NEW d \in Decision, UserAnswers(f, c, d)
  PROVE  CallInv'
<1>1. ~Unjudged(c)
  BY DEF UserAnswers, CallInv, PromptInv
<1>2. QueueInv'
  <2>1. <<d, c>> \in Event /\ d # "call"
    BY CallPost DEF CallEvent, Decision, Approval
  <2>. QED
    BY <1>1, <2>1, PostQueue DEF UserAnswers, CallInv, QueueInv, Unjudged
<1>3. PromptInv'
  BY DEF UserAnswers, CallInv, PromptInv, Unjudged, TypeOK
<1>4. BasisInv' /\ ApprovalInv' /\ EffectInv'
  BY DEF UserAnswers, CallInv, BasisInv, ApprovalInv, EffectInv, Unjudged
<1>5. ReplyInv' /\ AuditInv' /\ OverlayJustified'
  BY DEF UserAnswers, CallInv, ReplyInv, AuditInv, OverlayJustified
<1>. QED
  BY <1>2, <1>3, <1>4, <1>5 DEF CallInv

\* An agent calls a tool: the event is the first and only one of its call.
LEMMA CallsToolKeeps ==
  ASSUME TypeOK, CallInv, NEW c \in Call, CallsTool(c)
  PROVE  CallInv'
<1>1. phase[c] = "new" /\ phase' = [phase EXCEPT ![c] = "sent"]
  BY DEF CallsTool
<1>2. \A b \in Call : Unjudged(b)' <=> Unjudged(b)
  BY <1>1 DEF Unjudged, TypeOK
<1>3. QueueInv'
  <2>1. <<"call", c>> \in Event /\ "call" \notin Decision
    BY CallPost DEF CallEvent, Decision, Approval
  <2>2. \A i \in DOMAIN events : events[i] # <<"call", c>>
    BY <1>1 DEF CallInv, QueueInv
  <2>3. \A i \in DOMAIN events' :
           \/ i \in DOMAIN events /\ events'[i] = events[i]
           \/ i = Len(events) + 1 /\ events'[i] = <<"call", c>>
    BY <2>1, PostQueue DEF CallsTool
  <2>4. ASSUME NEW i \in DOMAIN events', NEW b \in Call, events'[i] = <<"call", b>>
        PROVE  /\ phase'[b] = "sent"
               /\ \A j \in DOMAIN events' : events'[j] = <<"call", b>> => i = j
    <3>1. CASE b = c
      BY <1>1, <2>2, <2>3, <2>4, <3>1 DEF TypeOK
    <3>2. CASE b # c
      <4>1. \A j \in DOMAIN events' : events'[j] = <<"call", b>> =>
               j \in DOMAIN events /\ events[j] = <<"call", b>>
        BY <2>3, <3>2
      <4>2. i \in DOMAIN events /\ events[i] = <<"call", b>>
        BY <2>4, <4>1
      <4>3. /\ phase[b] = "sent"
            /\ \A j \in DOMAIN events : events[j] = <<"call", b>> => i = j
        BY <4>2 DEF CallInv, QueueInv
      <4>4. phase'[b] = phase[b]
        BY <1>1, <3>2 DEF TypeOK
      <4>. QED
        BY <4>1, <4>3, <4>4
    <3>. QED
      BY <3>1, <3>2
  <2>5. ASSUME NEW i \in DOMAIN events', NEW b \in Call, NEW d \in Decision,
               events'[i] = <<d, b>>
        PROVE  ~Unjudged(b)'
    BY <1>2, <2>1, <2>3, <2>5 DEF CallInv, QueueInv
  <2>. QED
    BY <2>4, <2>5 DEF QueueInv
<1>4. PromptInv'
  BY <1>2 DEF CallsTool, CallInv, PromptInv, TypeOK
<1>5. BasisInv' /\ ApprovalInv' /\ EffectInv'
  BY <1>1, <1>2 DEF CallsTool, CallInv, BasisInv, ApprovalInv, EffectInv, TypeOK
<1>6. ReplyInv' /\ AuditInv' /\ OverlayJustified'
  BY <1>1 DEF CallsTool, CallInv, ReplyInv, AuditInv, OverlayJustified, TypeOK
<1>. QED
  BY <1>3, <1>4, <1>5, <1>6 DEF CallInv

\* Past the handler only the call's own phase and history change.
LEMMA JudgedQueue ==
  ASSUME TypeOK, CallInv, NEW c \in Call, ~Unjudged(c), ~Unjudged(c)',
         \A b \in Call \ {c} : phase'[b] = phase[b],
         UNCHANGED <<events, prompts>>
  PROVE  QueueInv' /\ PromptInv'
<1>1. \A b \in Call : Unjudged(b)' <=> Unjudged(b)
  BY DEF Unjudged
<1>2. \A i \in DOMAIN events, b \in Call :
         events[i] = <<"call", b>> => phase'[b] = "sent"
  BY DEF CallInv, QueueInv, Unjudged
<1>3. QueueInv'
  BY <1>1, <1>2 DEF CallInv, QueueInv
<1>4. PromptInv'
  BY <1>1 DEF CallInv, PromptInv, TypeOK
<1>. QED
  BY <1>3, <1>4

\* Taking the sandbox mutex for a granted call (SandboxManager::execute).
LEMMA AcquireSandboxKeeps ==
  ASSUME TypeOK, CallInv, NEW c \in Call, AcquireSandbox(c)
  PROVE  CallInv'
<1>1. phase[c] = "granted" /\ phase' = [phase EXCEPT ![c] = "running"]
  BY DEF AcquireSandbox
<1>2. QueueInv' /\ PromptInv'
  BY <1>1, JudgedQueue DEF AcquireSandbox, Unjudged, TypeOK
<1>3. BasisInv' /\ ApprovalInv' /\ EffectInv'
  BY <1>1 DEF AcquireSandbox, CallInv, BasisInv, ApprovalInv, EffectInv, Unjudged, TypeOK
<1>4. ReplyInv' /\ AuditInv' /\ OverlayJustified'
  BY <1>1 DEF AcquireSandbox, CallInv, ReplyInv, AuditInv, OverlayJustified, TypeOK
<1>. QED
  BY <1>2, <1>3, <1>4 DEF CallInv

\* Executing the call: the one moment it takes effect.
LEMMA ExecuteKeeps ==
  ASSUME TypeOK, CallInv, NEW c \in Call, Execute(c)
  PROVE  CallInv'
<1>1. phase[c] = "running" /\ phase' = [phase EXCEPT ![c] = "settled"]
  BY DEF Execute
<1>2. QueueInv' /\ PromptInv'
  BY <1>1, JudgedQueue DEF Execute, Unjudged, TypeOK
<1>3. BasisInv' /\ ApprovalInv'
  BY <1>1 DEF Execute, CallInv, BasisInv, ApprovalInv, Unjudged, TypeOK
<1>4. EffectInv'
  BY <1>1 DEF Execute, CallInv, BasisInv, EffectInv, TypeOK
<1>5. ReplyInv' /\ AuditInv' /\ OverlayJustified'
  BY <1>1 DEF Execute, CallInv, ReplyInv, AuditInv, OverlayJustified, TypeOK
<1>. QED
  BY <1>2, <1>3, <1>4, <1>5 DEF CallInv

\* Answering the agent, through the map or the copy of the resolver task.
LEMMA AnswerKeeps ==
  ASSUME TypeOK, CallInv, NEW c \in Call, Answer(c)
  PROVE  CallInv'
<1>1. phase[c] = "settled" /\ phase' = [phase EXCEPT ![c] = "replied"]
  BY DEF Answer
<1>2. QueueInv' /\ PromptInv'
  BY <1>1, JudgedQueue DEF Answer, Unjudged, TypeOK
<1>3. BasisInv' /\ ApprovalInv' /\ EffectInv'
  BY <1>1 DEF Answer, CallInv, BasisInv, ApprovalInv, EffectInv, Unjudged, TypeOK
<1>4. ReplyInv'
  <2>1. replies[c] = <<>>
    BY <1>1 DEF CallInv, ReplyInv
  <2>2. /\ basis[c] = "refusal" => replies'[c] \in {<<>>, <<"denied">>}
        /\ basis[c] # "refusal" => replies'[c] \in {<<>>, <<"result">>}
        /\ \A b \in Call \ {c} : replies'[b] = replies[b]
    BY <2>1 DEF Answer, Tells, TypeOK
  <2>3. \A b \in Call \ {c} : phase'[b] = phase[b]
    BY <1>1 DEF TypeOK
  <2>4. UNCHANGED basis /\ phase'[c] = "replied"
    BY <1>1 DEF Answer, TypeOK
  <2>5. basis[c] \in {"policy", "user", "refusal"}
    BY <1>1 DEF CallInv, BasisInv
  <2>. QED
    BY <2>2, <2>3, <2>4, <2>5 DEF CallInv, ReplyInv
<1>5. AuditInv' /\ OverlayJustified'
  BY <1>1 DEF Answer, CallInv, AuditInv, OverlayJustified, TypeOK
<1>. QED
  BY <1>2, <1>3, <1>4, <1>5 DEF CallInv

\* Appending the decision to the audit log, the last step of a call.
LEMMA JournalKeeps ==
  ASSUME TypeOK, CallInv, NEW c \in Call, Journal(c)
  PROVE  CallInv'
<1>1. phase[c] = "replied" /\ phase' = [phase EXCEPT ![c] = "done"]
  BY DEF Journal
<1>2. QueueInv' /\ PromptInv'
  BY <1>1, JudgedQueue DEF Journal, Unjudged, TypeOK
<1>3. BasisInv' /\ ApprovalInv' /\ EffectInv'
  BY <1>1 DEF Journal, CallInv, BasisInv, ApprovalInv, EffectInv, Unjudged, TypeOK
<1>4. ReplyInv' /\ OverlayJustified'
  BY <1>1 DEF Journal, CallInv, ReplyInv, OverlayJustified, TypeOK
<1>5. AuditInv'
  <2>1. audits[c] = <<>> /\ basis[c] \in {"policy", "user", "refusal"}
    BY <1>1 DEF CallInv, AuditInv, BasisInv
  <2>2. audits'[c] = JournalOf(basis[c])
    BY <2>1 DEF Journal, JournalOf, TypeOK
  <2>. QED
    BY <1>1, <2>2 DEF Journal, CallInv, AuditInv, TypeOK
<1>. QED
  BY <1>2, <1>3, <1>4, <1>5 DEF CallInv

\* The handler takes the only event of a call.
LEMMA TakenCall ==
  ASSUME TypeOK, CallInv, NEW c \in Call, Take("call", c)
  PROVE  phase[c] = "sent" /\ \A i \in DOMAIN events' : events'[i] # <<"call", c>>
<1>1. phase[c] = "sent" /\ \A j \in DOMAIN events : events[j] = <<"call", c>> => 1 = j
  BY TakeQueue DEF CallInv, QueueInv
<1>2. ASSUME NEW i \in DOMAIN events', events'[i] = <<"call", c>>
      PROVE  FALSE
  <2>1. i \in Nat \ {0} /\ i + 1 \in DOMAIN events /\ events[i + 1] = <<"call", c>>
    BY <1>2, TakeQueue
  <2>2. i + 1 = 1
    BY <1>1, <2>1
  <2>. QED
    BY <2>1, <2>2
<1>. QED
  BY <1>1, <1>2

\* Judging a call leaves the queue of the others alone.
LEMMA JudgeQueue ==
  ASSUME TypeOK, CallInv, NEW c \in Call, Take("call", c), ~Unjudged(c)',
         \A b \in Call \ {c} : phase'[b] = phase[b],
         \A f \in Frontend : prompts'[f] \subseteq prompts[f] \cup {c}
  PROVE  QueueInv' /\ PromptInv'
<1>1. \A b \in Call \ {c} : Unjudged(b)' <=> Unjudged(b)
  BY DEF Unjudged
<1>2. ASSUME NEW i \in DOMAIN events', NEW b \in Call, events'[i] = <<"call", b>>
      PROVE  /\ phase'[b] = "sent"
             /\ \A j \in DOMAIN events' : events'[j] = <<"call", b>> => i = j
  <2>1. b # c
    BY <1>2, TakenCall
  <2>2. i \in Nat /\ i + 1 \in DOMAIN events /\ events[i + 1] = <<"call", b>>
    BY <1>2, TakeQueue
  <2>3. phase[b] = "sent" /\ \A j \in DOMAIN events : events[j] = <<"call", b>> => i + 1 = j
    BY <2>2 DEF CallInv, QueueInv
  <2>4. ASSUME NEW j \in DOMAIN events', events'[j] = <<"call", b>>
        PROVE  i = j
    <3>1. j \in Nat /\ j + 1 \in DOMAIN events /\ events[j + 1] = <<"call", b>>
      BY <2>4, TakeQueue
    <3>2. i + 1 = j + 1
      BY <2>3, <3>1
    <3>. QED
      BY <2>2, <3>1, <3>2
  <2>. QED
    BY <2>1, <2>3, <2>4
<1>3. ASSUME NEW i \in DOMAIN events', NEW b \in Call, NEW d \in Decision,
             events'[i] = <<d, b>>
      PROVE  ~Unjudged(b)'
  <2>1. i + 1 \in DOMAIN events /\ events[i + 1] = <<d, b>>
    BY <1>3, TakeQueue
  <2>2. ~Unjudged(b)
    BY <2>1 DEF CallInv, QueueInv
  <2>. QED
    BY <1>1, <2>2
<1>4. QueueInv'
  BY <1>2, <1>3 DEF QueueInv
<1>5. ASSUME NEW f \in Frontend, NEW b \in prompts'[f]
      PROVE  ~Unjudged(b)'
  <2>1. CASE b = c
    BY <2>1
  <2>2. CASE b # c
    <3>1. b \in prompts[f] /\ b \in Call
      BY <1>5, <2>2 DEF TypeOK
    <3>2. ~Unjudged(b)
      BY <3>1 DEF CallInv, PromptInv
    <3>. QED
      BY <1>1, <2>2, <3>1, <3>2
  <2>. QED
    BY <2>1, <2>2
<1>6. PromptInv'
  BY <1>5 DEF PromptInv
<1>. QED
  BY <1>4, <1>6

\* The health tool is answered by the loop and not journalled.
LEMMA OnHealthCallKeeps ==
  ASSUME TypeOK, CallInv, NEW c \in Call, OnHealthCall(c)
  PROVE  CallInv'
<1>1. /\ phase[c] = "sent" /\ phase' = [phase EXCEPT ![c] = "done"]
      /\ basis' = [basis EXCEPT ![c] = "health"]
  BY TakenCall DEF OnHealthCall
<1>2. QueueInv' /\ PromptInv'
  BY <1>1, JudgeQueue DEF OnHealthCall, Unjudged, TypeOK
<1>3. BasisInv' /\ ApprovalInv' /\ EffectInv'
  BY <1>1 DEF OnHealthCall, CallInv, BasisInv, ApprovalInv, EffectInv, Unjudged, TypeOK
<1>4. ReplyInv'
  <2>1. replies[c] = <<>>
    BY <1>1 DEF CallInv, ReplyInv
  <2>2. /\ replies'[c] \in {<<>>, <<"result">>}
        /\ \A b \in Call \ {c} : replies'[b] = replies[b]
    BY <2>1 DEF OnHealthCall, Tells, TypeOK
  <2>. QED
    BY <1>1, <2>2 DEF CallInv, ReplyInv, TypeOK
<1>5. AuditInv' /\ OverlayJustified'
  BY <1>1 DEF OnHealthCall, CallInv, AuditInv, JournalOf, OverlayJustified, TypeOK
<1>. QED
  BY <1>2, <1>3, <1>4, <1>5 DEF CallInv

\* Refusing a call with invalid arguments, or one the policy denies.
LEMMA RejectKeeps ==
  ASSUME TypeOK, CallInv, NEW c \in Call, OnToolCall(c),
         NEW on \in {"invalid", "denied"}, Reject(c, on)
  PROVE  CallInv'
<1>1. /\ phase[c] = "sent" /\ phase' = [phase EXCEPT ![c] = "done"]
      /\ basis' = [basis EXCEPT ![c] = on]
  BY TakenCall DEF OnToolCall, Reject
<1>2. QueueInv' /\ PromptInv'
  BY <1>1, JudgeQueue DEF OnToolCall, Reject, Unjudged, TypeOK
<1>3. BasisInv' /\ ApprovalInv' /\ EffectInv'
  BY <1>1 DEF OnToolCall, Reject, CallInv, BasisInv, ApprovalInv, EffectInv, Unjudged, TypeOK
<1>4. ReplyInv'
  <2>1. replies[c] = <<>>
    BY <1>1 DEF CallInv, ReplyInv
  <2>2. /\ replies'[c] \in {<<>>, <<"denied">>}
        /\ \A b \in Call \ {c} : replies'[b] = replies[b]
    BY <2>1 DEF Reject, Tells, TypeOK
  <2>3. /\ phase'[c] = "done" /\ basis'[c] = on
        /\ \A b \in Call \ {c} : phase'[b] = phase[b] /\ basis'[b] = basis[b]
    BY <1>1 DEF TypeOK
  <2>. QED
    BY <2>2, <2>3 DEF CallInv, ReplyInv
<1>5. AuditInv'
  <2>1. audits[c] = <<>>
    BY <1>1 DEF CallInv, AuditInv
  <2>2. audits'[c] = JournalOf(on)
    BY <2>1 DEF Reject, JournalOf, TypeOK
  <2>. QED
    BY <1>1, <2>2 DEF Reject, CallInv, AuditInv, TypeOK
<1>6. OverlayJustified'
  BY DEF OnToolCall, CallInv, OverlayJustified
<1>. QED
  BY <1>2, <1>3, <1>4, <1>5, <1>6 DEF CallInv

\* Granting a call the policy allows: the loop goes on to run it.
LEMMA AllowNowKeeps ==
  ASSUME TypeOK, CallInv, NEW c \in Call, OnToolCall(c), AllowNow(c)
  PROVE  CallInv'
<1>1. /\ phase[c] = "sent" /\ phase' = [phase EXCEPT ![c] = "granted"]
      /\ basis' = [basis EXCEPT ![c] = "policy"]
  BY TakenCall DEF OnToolCall, AllowNow
<1>2. QueueInv' /\ PromptInv'
  BY <1>1, JudgeQueue DEF OnToolCall, AllowNow, Unjudged, TypeOK
<1>3. BasisInv' /\ ApprovalInv' /\ EffectInv'
  BY <1>1
     DEF OnToolCall, AllowNow, CallInv, BasisInv, ApprovalInv, EffectInv, Unjudged, TypeOK
<1>4. ReplyInv' /\ AuditInv' /\ OverlayJustified'
  BY <1>1 DEF OnToolCall, AllowNow, CallInv, ReplyInv, AuditInv, OverlayJustified, TypeOK
<1>. QED
  BY <1>2, <1>3, <1>4 DEF CallInv

\* Asking the user: the entry in pending_approvals and the prompts.
LEMMA AskUserKeeps ==
  ASSUME TypeOK, CallInv, NEW c \in Call, OnToolCall(c), AskUser(c)
  PROVE  CallInv'
<1>1. /\ phase[c] = "sent" /\ phase' = [phase EXCEPT ![c] = "asked"]
      /\ basis' = [basis EXCEPT ![c] = "user"]
      /\ pending' = pending \cup {c}
      /\ ToolOf[c] # Health
  BY TakenCall DEF OnToolCall, AskUser
<1>2. QueueInv' /\ PromptInv'
  BY <1>1, JudgeQueue DEF OnToolCall, AskUser, Unjudged, TypeOK
<1>3. BasisInv' /\ ApprovalInv' /\ EffectInv'
  BY <1>1
     DEF OnToolCall, AskUser, CallInv, BasisInv, ApprovalInv, EffectInv, Unjudged, TypeOK
<1>4. ReplyInv' /\ AuditInv' /\ OverlayJustified'
  BY <1>1 DEF OnToolCall, AskUser, CallInv, ReplyInv, AuditInv, OverlayJustified, TypeOK
<1>. QED
  BY <1>2, <1>3, <1>4 DEF CallInv

\* Taking an answer off the queue: its call has been judged.
LEMMA TakenAnswer ==
  ASSUME TypeOK, CallInv, NEW c \in Call, NEW d \in Decision, Take(d, c)
  PROVE  ~Unjudged(c)
<1>1. 1 \in DOMAIN events /\ events[1] = <<d, c>>
  BY TakeQueue
<1>. QED
  BY <1>1 DEF CallInv, QueueInv

\* A late answer, or one to a call nobody waits for, changes nothing else.
LEMMA LateAnswerKeeps ==
  ASSUME TypeOK, CallInv, NEW c \in Call, NEW d \in Decision,
         OnApprovalResponse(c, d), c \notin pending
  PROVE  CallInv'
<1>1. ~Unjudged(c)
  BY TakenAnswer DEF OnApprovalResponse
<1>2. UNCHANGED <<phase, basis, pending, overlay, effects, replies, audits, prompts>>
  BY DEF OnApprovalResponse
<1>3. /\ answer[c] # "none" => answer' = answer
      /\ \A b \in Call \ {c} : answer'[b] = answer[b]
  BY DEF OnApprovalResponse, TypeOK
<1>4. QueueInv'
  BY <1>2, TakeQueue DEF OnApprovalResponse, CallInv, QueueInv, Unjudged
<1>5. PromptInv' /\ BasisInv' /\ EffectInv' /\ ReplyInv' /\ AuditInv'
  BY <1>2 DEF CallInv, PromptInv, BasisInv, EffectInv, ReplyInv, AuditInv, Unjudged
<1>6. ApprovalInv'
  <2>1. basis[c] = "user" => answer'[c] = answer[c]
    BY <1>3 DEF CallInv, ApprovalInv, Approval
  <2>. QED
    BY <1>1, <1>2, <1>3, <2>1 DEF CallInv, ApprovalInv, Unjudged
<1>7. OverlayJustified'
  BY <1>2, <1>3 DEF CallInv, OverlayJustified
<1>. QED
  BY <1>4, <1>5, <1>6, <1>7 DEF CallInv

\* The first answer to a pending call decides it.
LEMMA FirstAnswerKeeps ==
  ASSUME TypeOK, CallInv, NEW c \in Call, NEW d \in Decision,
         OnApprovalResponse(c, d), c \in pending
  PROVE  CallInv'
<1>1. phase[c] = "asked" /\ basis[c] = "user" /\ answer[c] = "none"
  BY DEF CallInv, ApprovalInv, BasisInv
<1>2. /\ answer' = [answer EXCEPT ![c] = d]
      /\ pending' = pending \ {c}
      /\ UNCHANGED <<effects, replies, audits, prompts>>
  BY <1>1 DEF OnApprovalResponse
<1>3. /\ d \in Approval => phase'[c] = "granted" /\ basis'[c] = "user"
      /\ d \notin Approval => phase'[c] = "settled" /\ basis'[c] = "refusal"
      /\ \A b \in Call \ {c} : phase'[b] = phase[b] /\ basis'[b] = basis[b]
  BY <1>1 DEF OnApprovalResponse, TypeOK
<1>4. \A b \in Call : Unjudged(b)' <=> Unjudged(b)
  BY <1>1, <1>3 DEF Unjudged
<1>5. QueueInv'
  <2>1. \A b \in Call : phase[b] = "sent" => phase'[b] = "sent"
    BY <1>1, <1>3
  <2>. QED
    BY <1>4, <2>1, TakeQueue DEF OnApprovalResponse, CallInv, QueueInv
<1>6. PromptInv'
  BY <1>2, <1>4 DEF CallInv, PromptInv, TypeOK
<1>7. BasisInv'
  BY <1>1, <1>3, <1>4 DEF CallInv, BasisInv
<1>8. ApprovalInv'
  <2>1. /\ c \notin pending' /\ phase'[c] # "asked" /\ ~Unjudged(c)'
        /\ basis'[c] = "user" => answer'[c] \in Approval
    BY <1>1, <1>2, <1>3 DEF Unjudged, TypeOK
  <2>2. \A b \in Call \ {c} : answer'[b] = answer[b] /\ (b \in pending' <=> b \in pending)
    BY <1>2 DEF TypeOK
  <2>. QED
    BY <1>3, <1>4, <2>1, <2>2 DEF CallInv, ApprovalInv
<1>9. EffectInv' /\ ReplyInv' /\ AuditInv'
  <2>1. effects[c] = 0 /\ replies[c] = <<>> /\ audits[c] = <<>>
    BY <1>1 DEF CallInv, EffectInv, ReplyInv, AuditInv
  <2>. QED
    BY <1>2, <1>3, <2>1 DEF CallInv, EffectInv, ReplyInv, AuditInv
<1>10. OverlayJustified'
  <2>1. \A b \in Call : answer[b] = "session" => answer'[b] = "session"
    BY <1>1, <1>2 DEF TypeOK
  <2>2. d = "session" => answer'[c] = "session"
    BY <1>2 DEF TypeOK
  <2>3. ASSUME NEW p \in overlay'
        PROVE  p \in overlay \/ (d = "session" /\ p = <<Owner[c], ToolOf[c]>>)
    <3>1. overlay' = IF d = "session" THEN overlay \cup {<<Owner[c], ToolOf[c]>>}
                     ELSE overlay
      BY DEF OnApprovalResponse
    <3>. QED
      BY <3>1
  <2>. QED
    BY <2>1, <2>2, <2>3 DEF CallInv, OverlayJustified
<1>. QED
  BY <1>5, <1>6, <1>7, <1>8, <1>9, <1>10 DEF CallInv

\* Every step keeps the invariant of tool calls.
LEMMA CallStep ==
  ASSUME TypeOK, CallInv, Next
  PROVE  CallInv'
<1>1. CASE Quiet
  BY <1>1, QuietKeeps
<1>2. ASSUME NEW c \in Call, CallsTool(c) PROVE CallInv'
  BY <1>2, CallsToolKeeps
<1>3. ASSUME NEW c \in Call, OnCallEvent(c) PROVE CallInv'
  <2>1. CASE OnHealthCall(c)
    BY <2>1, OnHealthCallKeeps
  <2>2. CASE OnToolCall(c)
    <3>1. \/ \E on \in {"invalid", "denied"} : Reject(c, on)
          \/ AllowNow(c) \/ AskUser(c)
      BY <2>2 DEF OnToolCall
    <3>. QED
      BY <2>2, <3>1, RejectKeeps, AllowNowKeeps, AskUserKeeps
  <2>3. ASSUME NEW d \in Decision, OnApprovalResponse(c, d) PROVE CallInv'
    BY <2>3, LateAnswerKeeps, FirstAnswerKeeps
  <2>. QED
    BY <1>3, <2>1, <2>2, <2>3 DEF OnCallEvent
<1>4. ASSUME NEW c \in Call, RunStep(c) PROVE CallInv'
  BY <1>4, AcquireSandboxKeeps, ExecuteKeeps, AnswerKeeps, JournalKeeps DEF RunStep
<1>5. ASSUME NEW f \in Frontend, NEW c \in Call, NEW d \in Decision, UserAnswers(f, c, d)
      PROVE  CallInv'
  BY <1>5, UserAnswersKeeps
<1>. QED
  BY <1>1, <1>2, <1>3, <1>4, <1>5, QuietSteps

-----------------------------------------------------------------------------
(* Theorems *)

\* The inductive invariant holds in every reachable state.
THEOREM InvariantHolds == Spec => [](TypeOK /\ CallInv)
<1>1. Init => TypeOK /\ CallInv
  <2>1. Init => TypeOK
    BY DEF Init, TypeOK, Phase, Basis
  <2>2. Init => QueueInv /\ PromptInv /\ BasisInv /\ ApprovalInv
    BY DEF Init, QueueInv, PromptInv, BasisInv, ApprovalInv, Unjudged
  <2>3. Init => EffectInv /\ ReplyInv /\ AuditInv /\ OverlayJustified
    BY DEF Init, EffectInv, ReplyInv, AuditInv, OverlayJustified
  <2>. QED
    BY <2>1, <2>2, <2>3 DEF CallInv
<1>2. TypeOK /\ CallInv /\ [Next]_vars => (TypeOK /\ CallInv)'
  <2>1. ASSUME TypeOK, CallInv, UNCHANGED vars PROVE TypeOK' /\ CallInv'
    <3>1. TypeOK'
      BY <2>1 DEF TypeOK, vars
    <3>2. Quiet
      BY <2>1 DEF Quiet, vars
    <3>. QED
      BY <2>1, <3>1, <3>2, QuietKeeps
  <2>. QED
    BY <2>1, TypeStep, CallStep
<1>. QED
  BY <1>1, <1>2, PTL DEF Spec

\* Every variable of the supervisor keeps its type, whatever the number of
\* agents, calls, frontends and tools.
THEOREM TypeCorrect == Spec => []TypeOK
BY InvariantHolds, PTL

\* No tool call takes effect that neither the policy nor the first answer of a
\* user allowed (handle_tool_call, ApprovalResponse).
THEOREM ConsentHolds == Spec => []EffectNeedsConsent
<1>1. ASSUME TypeOK, CallInv, NEW c \in Call, effects[c] > 0
      PROVE  basis[c] = "policy" \/ (basis[c] = "user" /\ answer[c] \in Approval)
  <2>1. effects[c] # 0
    BY <1>1
  <2>2. phase[c] # "asked" /\ basis[c] \in {"policy", "user"}
    BY <1>1, <2>1 DEF CallInv, EffectInv
  <2>. QED
    BY <1>1, <2>2 DEF CallInv, ApprovalInv
<1>2. TypeOK /\ CallInv => EffectNeedsConsent
  BY <1>1 DEF EffectNeedsConsent
<1>. QED
  BY <1>2, InvariantHolds, PTL

\* No call is executed, answered or journalled twice, however many users answer.
THEOREM NothingTwice == Spec => []HandledOnce
<1>1. TypeOK /\ CallInv => HandledOnce
  <2>1. SUFFICES ASSUME CallInv, NEW c \in Call
                 PROVE  effects[c] <= 1 /\ Len(replies[c]) <= 1 /\ Len(audits[c]) <= 1
    BY DEF HandledOnce
  <2>2. replies[c] \in {<<>>, <<"result">>, <<"denied">>}
    BY <2>1 DEF CallInv, ReplyInv
  <2>3. audits[c] \in {<<>>, <<"allow">>, <<"ask">>, <<"deny">>}
    BY <2>1 DEF CallInv, AuditInv, JournalOf
  <2>4. /\ Len(<<>>) <= 1 /\ Len(<<"result">>) <= 1 /\ Len(<<"denied">>) <= 1
        /\ Len(<<"allow">>) <= 1 /\ Len(<<"ask">>) <= 1 /\ Len(<<"deny">>) <= 1
    OBVIOUS
  <2>. QED
    BY <2>1, <2>2, <2>3, <2>4 DEF CallInv, EffectInv
<1>. QED
  BY <1>1, InvariantHolds, PTL

\* What the audit log says of a finished call is what happened to it.
THEOREM AuditHolds == Spec => []AuditTellsTruth
<1>1. ASSUME TypeOK, CallInv, NEW c \in Call, phase[c] = "done", basis[c] # "health"
      PROVE  /\ audits[c] # <<>>
             /\ audits[c] = <<"deny">> => effects[c] = 0 /\ replies[c] \in {<<>>, <<"denied">>}
             /\ audits[c] = <<"ask">>  => answer[c] \in Approval
             /\ effects[c] > 0 => audits[c] \in {<<"allow">>, <<"ask">>}
  <2>1. audits[c] = JournalOf(basis[c])
    BY <1>1 DEF CallInv, AuditInv
  <2>2. basis[c] \in {"policy", "user", "invalid", "denied", "refusal"}
    BY <1>1 DEF TypeOK, Basis, CallInv, BasisInv
  <2>3. /\ basis[c] \notin {"policy", "user"} => effects[c] = 0
        /\ basis[c] \in {"invalid", "denied", "refusal"}
             => replies[c] \in {<<>>, <<"denied">>}
        /\ basis[c] = "user" => answer[c] \in Approval
    BY <1>1 DEF CallInv, EffectInv, ReplyInv, ApprovalInv
  <2>4. CASE basis[c] = "policy"
    BY <2>1, <2>4 DEF JournalOf
  <2>5. CASE basis[c] = "user"
    BY <2>1, <2>3, <2>5 DEF JournalOf
  <2>6. CASE basis[c] \in {"invalid", "denied", "refusal"}
    <3>1. audits[c] = <<"deny">>
      BY <2>1, <2>6 DEF JournalOf
    <3>2. ~(effects[c] > 0)
      BY <2>3, <2>6
    <3>. QED
      BY <2>3, <2>6, <3>1, <3>2
  <2>. QED
    BY <2>2, <2>4, <2>5, <2>6
<1>2. TypeOK /\ CallInv => AuditTellsTruth
  BY <1>1 DEF AuditTellsTruth
<1>. QED
  BY <1>2, InvariantHolds, PTL

\* A session allow is always the consequence of a user's answer.
THEOREM OverlayHolds == Spec => []OverlayJustified
<1>1. CallInv => OverlayJustified
  BY DEF CallInv
<1>. QED
  BY <1>1, InvariantHolds, PTL

-----------------------------------------------------------------------------
(* The supervisor implements the gate: every step of it is a step of        *)
(* ToolGate or leaves the gate's variables alone.                            *)

\* The gate sees nothing of a step that leaves phase, basis, effects and replies
\* alone.
GateStutter == UNCHANGED <<phase, basis, effects, replies>>

\* Such a step leaves the gate's variables alone.
LEMMA StutterKeepsGate ==
  ASSUME GateStutter
  PROVE  UNCHANGED Gate!gateVars
BY DEF GateStutter, Gate!gateVars, GateVerdict, GateStage, GateTold

\* The gate's variables, as the supervisor's state defines them.
Verdicts == [c \in Call |-> GateVerdict(c)]
Stages   == [c \in Call |-> GateStage(c)]
Took     == {c \in Call : effects[c] > 0}
Tolds    == [c \in Call |-> GateTold(c)]

USE DEF Verdicts, Stages, Took, Tolds

\* What a step of call c alone does to them, entry by entry.
LEMMA OneCall ==
  ASSUME TypeOK, NEW c \in Call,
         \A b \in Call \ {c} : /\ phase'[b] = phase[b] /\ basis'[b] = basis[b]
                               /\ effects'[b] = effects[b] /\ replies'[b] = replies[b]
  PROVE  /\ Verdicts' = [Verdicts EXCEPT ![c] = GateVerdict(c)']
         /\ Stages' = [Stages EXCEPT ![c] = GateStage(c)']
         /\ Tolds' = [Tolds EXCEPT ![c] = GateTold(c)']
         /\ effects'[c] = effects[c] => Took' = Took
         /\ effects'[c] > 0 => Took' = Took \cup {c}
<1>1. \A b \in Call \ {c} : /\ GateVerdict(b)' = GateVerdict(b)
                            /\ GateStage(b)' = GateStage(b)
                            /\ GateTold(b)' = GateTold(b)
  BY DEF GateVerdict, GateStage, GateTold
<1>. QED
  BY <1>1

\* An entry that keeps its value leaves the function as it is.
LEMMA SameEntry ==
  ASSUME NEW c \in Call
  PROVE  /\ [Verdicts EXCEPT ![c] = GateVerdict(c)] = Verdicts
         /\ [Stages EXCEPT ![c] = GateStage(c)] = Stages
         /\ [Tolds EXCEPT ![c] = GateTold(c)] = Tolds
OBVIOUS

\* Two values of the agent's answer.
LEMMA ToldValue ==
  ASSUME NEW c \in Call
  PROVE  /\ replies[c] = <<>> => GateTold(c) = "nothing"
         /\ replies[c] = <<"result">> => GateTold(c) = "result"
         /\ replies[c] = <<"denied">> => GateTold(c) = "denied"
BY DEF GateTold

-----------------------------------------------------------------------------
(* One step of the gate for each step of a call *)

\* An agent makes the call: the gate has yet to see it.
LEMMA CallsToolStutters ==
  ASSUME TypeOK, CallInv, NEW c \in Call, CallsTool(c)
  PROVE  UNCHANGED Gate!gateVars
<1>1. /\ phase[c] = "new" /\ phase' = [phase EXCEPT ![c] = "sent"]
      /\ UNCHANGED <<basis, effects, replies>>
  BY DEF CallsTool
<1>2. \A b \in Call : GateVerdict(b)' = GateVerdict(b) /\ GateStage(b)' = GateStage(b)
  BY <1>1 DEF GateVerdict, GateStage, TypeOK
<1>. QED
  BY <1>1, <1>2 DEF Gate!gateVars, GateTold

\* Waiting for the sandbox mutex is not seen by the gate.
LEMMA AcquireStutters ==
  ASSUME TypeOK, CallInv, NEW c \in Call, AcquireSandbox(c)
  PROVE  UNCHANGED Gate!gateVars
<1>1. /\ phase[c] = "granted" /\ phase' = [phase EXCEPT ![c] = "running"]
      /\ UNCHANGED <<basis, effects, replies>>
  BY DEF AcquireSandbox
<1>2. \A b \in Call : GateVerdict(b)' = GateVerdict(b) /\ GateStage(b)' = GateStage(b)
  BY <1>1 DEF GateVerdict, GateStage, TypeOK
<1>. QED
  BY <1>1, <1>2 DEF Gate!gateVars, GateTold

\* Execution settles a granted call, with or without an effect.
LEMMA ExecuteSettles ==
  ASSUME TypeOK, CallInv, NEW c \in Call, Execute(c)
  PROVE  Gate!Settle(c)
<1>1. /\ phase[c] = "running" /\ phase' = [phase EXCEPT ![c] = "settled"]
      /\ UNCHANGED <<basis, replies>>
      /\ effects' \in {effects, [effects EXCEPT ![c] = @ + 1]}
  BY DEF Execute
<1>2. basis[c] \in {"policy", "user"} /\ effects[c] = 0
  BY <1>1 DEF CallInv, BasisInv, EffectInv
<1>3. GateVerdict(c) = "granted" /\ GateStage(c) = "open"
  BY <1>1, <1>2 DEF GateVerdict, GateStage
<1>4. GateVerdict(c)' = "granted" /\ GateStage(c)' = "settled" /\ GateTold(c)' = GateTold(c)
  BY <1>1, <1>2 DEF GateVerdict, GateStage, GateTold, TypeOK
<1>5. \A b \in Call \ {c} : /\ phase'[b] = phase[b] /\ basis'[b] = basis[b]
                            /\ effects'[b] = effects[b] /\ replies'[b] = replies[b]
  BY <1>1 DEF TypeOK
<1>6. effects'[c] = effects[c] \/ effects'[c] > 0
  BY <1>1, <1>2 DEF TypeOK
<1>7. Verdicts' = Verdicts /\ Tolds' = Tolds
  <2>1. GateVerdict(c)' = GateVerdict(c) /\ GateTold(c)' = GateTold(c)
    BY <1>3, <1>4
  <2>. QED
    BY <1>5, <2>1, OneCall, SameEntry
<1>8. Stages' = [Stages EXCEPT ![c] = "settled"] /\ Took' \in {Took, Took \cup {c}}
  BY <1>4, <1>5, <1>6, OneCall
<1>. QED
  BY <1>3, <1>7, <1>8 DEF Gate!Settle

\* The answer tells the agent the settled outcome, if the agent is there.
LEMMA AnswerTells ==
  ASSUME TypeOK, CallInv, NEW c \in Call, Answer(c)
  PROVE  Gate!Tell(c)
<1>1. /\ phase[c] = "settled" /\ phase' = [phase EXCEPT ![c] = "replied"]
      /\ UNCHANGED <<basis, effects>>
  BY DEF Answer
<1>2. basis[c] \in {"policy", "user", "refusal"} /\ replies[c] = <<>>
  BY <1>1 DEF CallInv, BasisInv, ReplyInv
<1>3. /\ GateStage(c) = "settled" /\ GateStage(c)' = "answered"
      /\ GateVerdict(c)' = GateVerdict(c)
      /\ basis[c] = "refusal" <=> GateVerdict(c) # "granted"
  BY <1>1, <1>2 DEF GateVerdict, GateStage, TypeOK
<1>4. /\ basis[c] = "refusal" => replies'[c] \in {<<>>, <<"denied">>}
      /\ basis[c] # "refusal" => replies'[c] \in {<<>>, <<"result">>}
      /\ \A b \in Call \ {c} : replies'[b] = replies[b]
  BY <1>2 DEF Answer, Tells, TypeOK
<1>5. \A b \in Call \ {c} : /\ phase'[b] = phase[b] /\ basis'[b] = basis[b]
                            /\ effects'[b] = effects[b] /\ replies'[b] = replies[b]
  BY <1>1, <1>4 DEF TypeOK
<1>6. GateTold(c)' \in {GateTold(c), IF GateVerdict(c) = "granted" THEN "result" ELSE "denied"}
  BY <1>2, <1>3, <1>4 DEF GateTold
<1>7. Verdicts' = Verdicts /\ Took' = Took /\ Stages' = [Stages EXCEPT ![c] = "answered"]
  BY <1>1, <1>3, <1>5, OneCall, SameEntry
<1>8. Tolds' \in {Tolds, [Tolds EXCEPT ![c] = IF Verdicts[c] = "granted" THEN "result"
                                              ELSE "denied"]}
  BY <1>5, <1>6, OneCall, SameEntry
<1>. QED
  BY <1>3, <1>7, <1>8 DEF Gate!Tell

\* Journalling an answered call closes it.
LEMMA JournalCloses ==
  ASSUME TypeOK, CallInv, NEW c \in Call, Journal(c)
  PROVE  Gate!Close(c)
<1>1. /\ phase[c] = "replied" /\ phase' = [phase EXCEPT ![c] = "done"]
      /\ UNCHANGED <<basis, effects, replies>>
  BY DEF Journal
<1>2. /\ GateStage(c) = "answered" /\ GateStage(c)' = "closed"
      /\ GateVerdict(c)' = GateVerdict(c) /\ GateTold(c)' = GateTold(c)
  BY <1>1 DEF GateVerdict, GateStage, GateTold, TypeOK
<1>3. \A b \in Call \ {c} : /\ phase'[b] = phase[b] /\ basis'[b] = basis[b]
                            /\ effects'[b] = effects[b] /\ replies'[b] = replies[b]
  BY <1>1 DEF TypeOK
<1>4. Verdicts' = Verdicts /\ Took' = Took /\ Tolds' = Tolds
  BY <1>1, <1>2, <1>3, OneCall, SameEntry
<1>5. Stages' = [Stages EXCEPT ![c] = "closed"]
  BY <1>2, <1>3, OneCall
<1>. QED
  BY <1>2, <1>4, <1>5 DEF Gate!Close

\* An unjudged call, seen from the gate.
LEMMA UnjudgedGate ==
  ASSUME CallInv, NEW c \in Call, Unjudged(c)
  PROVE  /\ GateVerdict(c) = "none" /\ GateStage(c) = "open" /\ GateTold(c) = "nothing"
         /\ effects[c] = 0 /\ replies[c] = <<>> /\ basis[c] = "none"
BY DEF CallInv, EffectInv, ReplyInv, BasisInv, Unjudged, GateVerdict, GateStage, GateTold

\* A health call is answered and closed in one go.
LEMMA HealthAnswersAtOnce ==
  ASSUME TypeOK, CallInv, NEW c \in Call, OnHealthCall(c)
  PROVE  Gate!AnswerAtOnce(c)
<1>1. /\ phase[c] = "sent" /\ phase' = [phase EXCEPT ![c] = "done"]
      /\ basis' = [basis EXCEPT ![c] = "health"]
      /\ UNCHANGED effects
  BY TakenCall DEF OnHealthCall
<1>2. /\ GateVerdict(c) = "none" /\ GateStage(c) = "open" /\ GateTold(c) = "nothing"
      /\ replies[c] = <<>>
  BY <1>1, UnjudgedGate DEF Unjudged
<1>3. /\ replies'[c] \in {<<>>, <<"result">>}
      /\ \A b \in Call \ {c} : replies'[b] = replies[b]
  BY <1>2 DEF OnHealthCall, Tells, TypeOK
<1>4. \A b \in Call \ {c} : /\ phase'[b] = phase[b] /\ basis'[b] = basis[b]
                            /\ effects'[b] = effects[b] /\ replies'[b] = replies[b]
  BY <1>1, <1>3 DEF TypeOK
<1>5. GateVerdict(c)' = "granted" /\ GateStage(c)' = "closed"
  BY <1>1 DEF GateVerdict, GateStage, TypeOK
<1>6. GateTold(c)' \in {GateTold(c), "result"}
  BY <1>2, <1>3 DEF GateTold
<1>7. /\ Verdicts' = [Verdicts EXCEPT ![c] = "granted"]
      /\ Stages' = [Stages EXCEPT ![c] = "closed"]
      /\ Took' = Took
  BY <1>1, <1>4, <1>5, OneCall
<1>8. Tolds' \in {Tolds, [Tolds EXCEPT ![c] = "result"]}
  BY <1>4, <1>6, OneCall, SameEntry
<1>. QED
  BY <1>2, <1>7, <1>8 DEF Gate!AnswerAtOnce

\* An invalid or denied call is refused and closed in one go.
LEMMA RejectRefusesAtOnce ==
  ASSUME TypeOK, CallInv, NEW c \in Call, OnToolCall(c),
         NEW on \in {"invalid", "denied"}, Reject(c, on)
  PROVE  Gate!RefuseAtOnce(c)
<1>1. /\ phase[c] = "sent" /\ phase' = [phase EXCEPT ![c] = "done"]
      /\ basis' = [basis EXCEPT ![c] = on]
      /\ UNCHANGED effects
  BY TakenCall DEF OnToolCall, Reject
<1>2. /\ GateVerdict(c) = "none" /\ GateStage(c) = "open" /\ GateTold(c) = "nothing"
      /\ replies[c] = <<>>
  BY <1>1, UnjudgedGate DEF Unjudged
<1>3. /\ replies'[c] \in {<<>>, <<"denied">>}
      /\ \A b \in Call \ {c} : replies'[b] = replies[b]
  BY <1>2 DEF Reject, Tells, TypeOK
<1>4. \A b \in Call \ {c} : /\ phase'[b] = phase[b] /\ basis'[b] = basis[b]
                            /\ effects'[b] = effects[b] /\ replies'[b] = replies[b]
  BY <1>1, <1>3 DEF TypeOK
<1>5. GateVerdict(c)' = "refused" /\ GateStage(c)' = "closed"
  BY <1>1 DEF GateVerdict, GateStage, TypeOK
<1>6. GateTold(c)' \in {GateTold(c), "denied"}
  BY <1>2, <1>3 DEF GateTold
<1>7. /\ Verdicts' = [Verdicts EXCEPT ![c] = "refused"]
      /\ Stages' = [Stages EXCEPT ![c] = "closed"]
      /\ Took' = Took
  BY <1>1, <1>4, <1>5, OneCall
<1>8. Tolds' \in {Tolds, [Tolds EXCEPT ![c] = "denied"]}
  BY <1>4, <1>6, OneCall, SameEntry
<1>. QED
  BY <1>2, <1>7, <1>8 DEF Gate!RefuseAtOnce

\* A judgement that answers nothing and runs nothing: granted by the policy, or
\* left to the user.
LEMMA Judgement ==
  ASSUME TypeOK, NEW c \in Call,
         \A b \in Call \ {c} : phase'[b] = phase[b] /\ basis'[b] = basis[b],
         UNCHANGED <<effects, replies>>, GateStage(c)' = GateStage(c)
  PROVE  /\ Verdicts' = [Verdicts EXCEPT ![c] = GateVerdict(c)']
         /\ Stages' = Stages /\ Took' = Took /\ Tolds' = Tolds
<1>1. \A b \in Call \ {c} : /\ phase'[b] = phase[b] /\ basis'[b] = basis[b]
                            /\ effects'[b] = effects[b] /\ replies'[b] = replies[b]
  OBVIOUS
<1>2. GateTold(c)' = GateTold(c)
  BY DEF GateTold
<1>3. Stages' = Stages /\ Tolds' = Tolds
  BY <1>1, <1>2, OneCall, SameEntry
<1>. QED
  BY <1>1, <1>3, OneCall

\* A call the policy allows is granted.
LEMMA AllowGrants ==
  ASSUME TypeOK, CallInv, NEW c \in Call, OnToolCall(c), AllowNow(c)
  PROVE  Gate!Grant(c)
<1>1. /\ phase[c] = "sent" /\ phase' = [phase EXCEPT ![c] = "granted"]
      /\ basis' = [basis EXCEPT ![c] = "policy"]
      /\ UNCHANGED <<effects, replies>>
  BY TakenCall DEF OnToolCall, AllowNow
<1>2. GateVerdict(c) = "none" /\ GateStage(c) = "open"
  BY <1>1, UnjudgedGate DEF Unjudged
<1>3. GateVerdict(c)' = "granted" /\ GateStage(c)' = GateStage(c)
  BY <1>1, <1>2 DEF GateVerdict, GateStage, TypeOK
<1>4. \A b \in Call \ {c} : phase'[b] = phase[b] /\ basis'[b] = basis[b]
  BY <1>1 DEF TypeOK
<1>. QED
  BY <1>1, <1>2, <1>3, <1>4, Judgement DEF Gate!Grant

\* A call the policy leaves to the user is asked.
LEMMA AskAsks ==
  ASSUME TypeOK, CallInv, NEW c \in Call, OnToolCall(c), AskUser(c)
  PROVE  Gate!Ask(c)
<1>1. /\ phase[c] = "sent" /\ phase' = [phase EXCEPT ![c] = "asked"]
      /\ basis' = [basis EXCEPT ![c] = "user"]
      /\ UNCHANGED <<effects, replies>>
  BY TakenCall DEF OnToolCall, AskUser
<1>2. GateVerdict(c) = "none" /\ GateStage(c) = "open"
  BY <1>1, UnjudgedGate DEF Unjudged
<1>3. GateVerdict(c)' = "asked" /\ GateStage(c)' = GateStage(c)
  BY <1>1, <1>2 DEF GateVerdict, GateStage, TypeOK
<1>4. \A b \in Call \ {c} : phase'[b] = phase[b] /\ basis'[b] = basis[b]
  BY <1>1 DEF TypeOK
<1>. QED
  BY <1>1, <1>2, <1>3, <1>4, Judgement DEF Gate!Ask

\* The first answer grants or refuses; any other is not seen.
LEMMA ResponseJudges ==
  ASSUME TypeOK, CallInv, NEW c \in Call, NEW d \in Decision, OnApprovalResponse(c, d)
  PROVE  Gate!Grant(c) \/ Gate!Refuse(c) \/ UNCHANGED Gate!gateVars
<1>1. UNCHANGED <<effects, replies>>
  BY DEF OnApprovalResponse
<1>2. CASE c \notin pending
  BY <1>2, StutterKeepsGate DEF OnApprovalResponse, GateStutter
<1>3. CASE c \in pending
  <2>1. /\ phase[c] = "asked" /\ basis[c] = "user"
        /\ GateVerdict(c) = "asked" /\ GateStage(c) = "open"
    BY <1>3 DEF CallInv, ApprovalInv, BasisInv, GateVerdict, GateStage
  <2>2. CASE d \in Approval
    <3>1. phase' = [phase EXCEPT ![c] = "granted"] /\ UNCHANGED basis
      BY <1>3, <2>2 DEF OnApprovalResponse
    <3>2. GateVerdict(c)' = "granted" /\ GateStage(c)' = GateStage(c)
      BY <2>1, <3>1 DEF GateVerdict, GateStage, TypeOK
    <3>3. \A b \in Call \ {c} : phase'[b] = phase[b] /\ basis'[b] = basis[b]
      BY <3>1 DEF TypeOK
    <3>. QED
      BY <1>1, <2>1, <3>2, <3>3, Judgement DEF Gate!Grant
  <2>3. CASE d \notin Approval
    <3>1. /\ phase' = [phase EXCEPT ![c] = "settled"]
          /\ basis' = [basis EXCEPT ![c] = "refusal"]
      BY <1>3, <2>3 DEF OnApprovalResponse
    <3>2. GateVerdict(c)' = "refused" /\ GateStage(c)' = "settled" /\ GateTold(c)' = GateTold(c)
      BY <1>1, <3>1 DEF GateVerdict, GateStage, GateTold, TypeOK
    <3>3. \A b \in Call \ {c} : /\ phase'[b] = phase[b] /\ basis'[b] = basis[b]
                                /\ effects'[b] = effects[b] /\ replies'[b] = replies[b]
      BY <1>1, <3>1 DEF TypeOK
    <3>4. /\ Verdicts' = [Verdicts EXCEPT ![c] = "refused"]
          /\ Stages' = [Stages EXCEPT ![c] = "settled"]
          /\ Took' = Took
      BY <1>1, <3>2, <3>3, OneCall
    <3>5. Tolds' = Tolds
      BY <3>2, <3>3, OneCall, SameEntry
    <3>. QED
      BY <2>1, <3>4, <3>5 DEF Gate!Refuse
  <2>. QED
    BY <2>2, <2>3
<1>. QED
  BY <1>2, <1>3

-----------------------------------------------------------------------------
(* The refinement *)

\* Every step of the supervisor is a step of the gate or a stutter.
LEMMA GateStep ==
  ASSUME TypeOK, CallInv, [Next]_vars
  PROVE  [Gate!Next]_(Gate!gateVars)
<1>1. CASE UNCHANGED vars \/ Quiet
  BY <1>1, StutterKeepsGate DEF vars, Quiet, GateStutter
<1>2. ASSUME NEW c \in Call, CallsTool(c) \/ AcquireSandbox(c)
      PROVE  UNCHANGED Gate!gateVars
  BY <1>2, CallsToolStutters, AcquireStutters
<1>3. ASSUME NEW c \in Call, OnCallEvent(c)
      PROVE  [Gate!Next]_(Gate!gateVars)
  <2>1. CASE OnHealthCall(c)
    BY <2>1, HealthAnswersAtOnce DEF Gate!Next
  <2>2. CASE OnToolCall(c)
    <3>1. \/ \E on \in {"invalid", "denied"} : Reject(c, on)
          \/ AllowNow(c) \/ AskUser(c)
      BY <2>2 DEF OnToolCall
    <3>. QED
      BY <2>2, <3>1, RejectRefusesAtOnce, AllowGrants, AskAsks DEF Gate!Next
  <2>3. ASSUME NEW d \in Decision, OnApprovalResponse(c, d)
        PROVE  [Gate!Next]_(Gate!gateVars)
    BY <2>3, ResponseJudges DEF Gate!Next
  <2>. QED
    BY <1>3, <2>1, <2>2, <2>3 DEF OnCallEvent
<1>4. ASSUME NEW c \in Call, Execute(c) \/ Answer(c) \/ Journal(c)
      PROVE  Gate!Next
  BY <1>4, ExecuteSettles, AnswerTells, JournalCloses DEF Gate!Next
<1>5. ASSUME NEW f \in Frontend, NEW c \in Call, NEW d \in Decision, UserAnswers(f, c, d)
      PROVE  UNCHANGED Gate!gateVars
  BY <1>5, StutterKeepsGate DEF UserAnswers, GateStutter
<1>. QED
  BY <1>1, <1>2, <1>3, <1>4, <1>5, QuietSteps DEF RunStep

\* The supervisor keeps the promise of ToolGate about every tool call: judged
\* once, run only when granted, answered after it is settled and closed last.
THEOREM GateImplemented == Spec => ImplementsGate
<1>1. Init => Gate!Init
  BY DEF Init, Gate!Init, GateVerdict, GateStage, GateTold
<1>. QED
  BY <1>1, GateStep, InvariantHolds, PTL DEF Spec, ImplementsGate, Gate!Spec

-----------------------------------------------------------------------------
(* The life of an agent.  Whatever order its spawn, its connection, its death, *)
(* the watchdog and a kill are handled in, its job is settled at most once,   *)
(* Init is the first thing it hears, and nothing of it is left once its       *)
(* connection is over.  The inductive invariant: *)

Births == {"spawn", "job"}

\* A queued spawn is the only one of its agent, and the agent is still due.
BirthQueue ==
  \A i \in DOMAIN events, a \in Agent, k \in Births :
     events[i] = <<k, a>> =>
        /\ proc[a] = "due"
        /\ \A j \in DOMAIN events, m \in Births : events[j] = <<m, a>> => i = j

\* An agent that was not spawned has no connection, no entry and no outcome.
BirthInv ==
  \A a \in Agent : proc[a] \in {"unborn", "due"} =>
     /\ conn[a] = "none"
     /\ a \notin children
     /\ a \notin headless
     /\ outcome[a] = <<>>

\* headless_agents holds exactly the jobs that may yet be settled.
OutcomeInv ==
  \A a \in Agent :
     /\ outcome[a] \in {<<>>, <<"died">>, <<"completed">>, <<"error">>}
     /\ a \in headless => outcome[a] = <<>>

\* A queued connection is of an agent that authenticated; if its reader task has
\* ended since, the death is queued behind it.
ConnQueue ==
  \A i \in DOMAIN events, a \in Agent : events[i] = <<"conn", a>> =>
     /\ conn[a] \in {"open", "closed"}
     /\ conn[a] = "closed" =>
          \E j \in DOMAIN events : j > i /\ events[j] = <<"died", a>>

\* What the loop knows of an agent it learned from its connection.
KnownInv ==
  \A a \in Agent :
     /\ a \in agents \/ a \in sandboxes \/ loop = <<"connect", a>>
          => conn[a] \in {"open", "closed"}
     /\ loop = <<"cleanup", a>> => a \notin agents

\* What is left of an agent whose connection ended is about to be removed.
LeaveInv ==
  \A a \in Agent :
     conn[a] = "closed" /\ (a \in agents \/ a \in sandboxes \/ loop = <<"connect", a>>)
       => Queued("died", a) \/ loop = <<"cleanup", a>>

\* Init goes out before the loop handles anything else.
HelloInv ==
  \A a \in Agent :
     /\ first[a] # "other"
     /\ a \in agents /\ loop # <<"connect", a>> => first[a] = "init" \/ proc[a] = "exited"

LifeInv ==
  /\ BirthQueue
  /\ BirthInv
  /\ OutcomeInv
  /\ ConnQueue
  /\ KnownInv
  /\ LeaveInv
  /\ HelloInv

-----------------------------------------------------------------------------
(* What posting and taking events does to the queue parts of the invariant *)

\* No due agent is spawned by the step, nor a spawn queued.
LEMMA BirthQueuePost ==
  ASSUME TypeOK, LifeInv, NEW e \in Event, Post(e),
         \A k \in Births, a \in Agent : e # <<k, a>>,
         \A a \in Agent : proc[a] = "due" => proc'[a] = "due"
  PROVE  BirthQueue'
<1>1. \A i \in DOMAIN events', a \in Agent, k \in Births :
         events'[i] = <<k, a>> => i \in DOMAIN events /\ events[i] = <<k, a>>
  BY PostQueue
<1>. QED
  BY <1>1 DEF LifeInv, BirthQueue

\* Taking an event keeps queued spawns unique, if no due agent is spawned otherwise.
LEMMA BirthQueueTake ==
  ASSUME TypeOK, LifeInv, NEW kind, NEW x, Take(kind, x),
         \A a \in Agent : proc[a] = "due" =>
            proc'[a] = "due" \/ (kind \in Births /\ x = a)
  PROVE  BirthQueue'
<1>1. \A i \in DOMAIN events' :
         i \in Nat \ {0} /\ i + 1 \in DOMAIN events /\ events'[i] = events[i + 1]
  BY TakeQueue
<1>2. SUFFICES ASSUME NEW i \in DOMAIN events', NEW a \in Agent, NEW k \in Births,
                      events'[i] = <<k, a>>
               PROVE  /\ proc'[a] = "due"
                      /\ \A j \in DOMAIN events', m \in Births :
                            events'[j] = <<m, a>> => i = j
  BY DEF BirthQueue
<1>3. i + 1 \in DOMAIN events /\ events[i + 1] = <<k, a>>
  BY <1>1, <1>2
<1>4. /\ proc[a] = "due"
      /\ \A j \in DOMAIN events, m \in Births : events[j] = <<m, a>> => i + 1 = j
  BY <1>3 DEF LifeInv, BirthQueue
<1>5. ~(kind \in Births /\ x = a)
  <2>1. 1 \in DOMAIN events /\ events[1] = <<kind, x>>
    BY TakeQueue
  <2>2. i + 1 # 1
    BY <1>1
  <2>. QED
    BY <1>4, <2>1, <2>2
<1>6. ASSUME NEW j \in DOMAIN events', NEW m \in Births, events'[j] = <<m, a>>
      PROVE  i = j
  <2>1. i + 1 = j + 1
    BY <1>1, <1>4, <1>6
  <2>. QED
    BY <1>1, <2>1
<1>. QED
  BY <1>4, <1>5, <1>6

\* No connection is queued, opened or closed.
LEMMA ConnQueuePost ==
  ASSUME TypeOK, LifeInv, NEW e \in Event, Post(e), \A a \in Agent : e # <<"conn", a>>,
         \A a \in Agent : conn[a] \in {"open", "closed"} => conn'[a] = conn[a]
  PROVE  ConnQueue'
<1>1. \A i \in DOMAIN events', a \in Agent :
         events'[i] = <<"conn", a>> => i \in DOMAIN events /\ events[i] = <<"conn", a>>
  BY PostQueue
<1>2. \A i \in DOMAIN events : i \in DOMAIN events' /\ events'[i] = events[i]
  BY DEF Post, TypeOK
<1>. QED
  BY <1>1, <1>2 DEF LifeInv, ConnQueue

\* Taking an event keeps queued connections unique, if no connection changes.
LEMMA ConnQueueTake ==
  ASSUME TypeOK, LifeInv, NEW kind, NEW x, Take(kind, x),
         \A a \in Agent : conn[a] \in {"open", "closed"} => conn'[a] = conn[a]
  PROVE  ConnQueue'
<1>1. \A i \in DOMAIN events' :
         i \in Nat \ {0} /\ i + 1 \in DOMAIN events /\ events'[i] = events[i + 1]
  BY TakeQueue
<1>2. SUFFICES ASSUME NEW i \in DOMAIN events', NEW a \in Agent, events'[i] = <<"conn", a>>
               PROVE  /\ conn'[a] \in {"open", "closed"}
                      /\ conn'[a] = "closed" =>
                           \E j \in DOMAIN events' : j > i /\ events'[j] = <<"died", a>>
  BY DEF ConnQueue
<1>3. i + 1 \in DOMAIN events /\ events[i + 1] = <<"conn", a>>
  BY <1>1, <1>2
<1>4. conn[a] \in {"open", "closed"} /\ conn'[a] = conn[a]
  BY <1>3 DEF LifeInv, ConnQueue
<1>5. ASSUME conn[a] = "closed"
      PROVE  \E j \in DOMAIN events' : j > i /\ events'[j] = <<"died", a>>
  <2>1. PICK n \in DOMAIN events : n > i + 1 /\ events[n] = <<"died", a>>
    BY <1>3, <1>5 DEF LifeInv, ConnQueue
  <2>2. /\ n \in Nat /\ n - 1 \in DOMAIN events' /\ events'[n - 1] = events[n]
    BY <1>1, <2>1 DEF Take, TypeOK
  <2>3. n - 1 > i
    BY <1>1, <2>1, <2>2
  <2>. QED
    BY <2>1, <2>2, <2>3
<1>. QED
  BY <1>4, <1>5

\* A death that is queued stays queued unless it is the one taken.
LEMMA DeathPost ==
  ASSUME TypeOK, NEW e \in Event, Post(e)
  PROVE  \A a \in Agent : Queued("died", a) \/ e = <<"died", a>> => Queued("died", a)'
<1>1. /\ \A i \in DOMAIN events : i \in DOMAIN events' /\ events'[i] = events[i]
      /\ Len(events) + 1 \in DOMAIN events' /\ events'[Len(events) + 1] = e
  BY DEF Post, TypeOK
<1>. QED
  BY <1>1 DEF Queued

\* Taking an event leaves every other death queued.
LEMMA DeathTake ==
  ASSUME TypeOK, NEW kind, NEW x, Take(kind, x)
  PROVE  \A a \in Agent : Queued("died", a) =>
            Queued("died", a)' \/ (kind = "died" /\ x = a)
<1>1. \A n \in DOMAIN events : n = 1 \/ (n - 1 \in DOMAIN events' /\ events'[n - 1] = events[n])
  BY DEF Take, TypeOK
<1>2. events[1] = <<kind, x>>
  BY TakeQueue
<1>. QED
  BY <1>1, <1>2 DEF Queued

-----------------------------------------------------------------------------
(* Steps that do not concern the life of an agent *)

Aloof ==
  /\ UNCHANGED <<proc, first, conn, children, agents, headless, sandboxes, outcome>>
  /\ \A a \in Agent, k \in {"connect", "cleanup"} : (loop' = <<k, a>>) <=> (loop = <<k, a>>)
  /\ \/ UNCHANGED events
     \/ \E kind, x : Take(kind, x) /\ \A a \in Agent : <<kind, x>> # <<"died", a>>
     \/ \E e \in Event : Post(e) /\ \A a \in Agent, k \in Births \cup {"conn"} : e # <<k, a>>

\* A handler that has something left to do is not idle.
LEMMA NotIdle ==
  ASSUME NEW k, NEW x
  PROVE  Idle # <<k, x>>
BY DEF Idle

\* A step that has no part in the life of an agent keeps the invariant.
LEMMA AloofKeeps ==
  ASSUME TypeOK, LifeInv, Aloof
  PROVE  LifeInv'
<1>1. BirthInv' /\ OutcomeInv' /\ KnownInv' /\ HelloInv'
  BY DEF Aloof, LifeInv, BirthInv, OutcomeInv, KnownInv, HelloInv
<1>2. BirthQueue' /\ ConnQueue' /\ (\A a \in Agent : Queued("died", a) => Queued("died", a)')
  <2>1. CASE UNCHANGED events
    BY <2>1 DEF Aloof, LifeInv, BirthQueue, ConnQueue, Queued
  <2>2. ASSUME NEW kind, NEW x, Take(kind, x), \A a \in Agent : <<kind, x>> # <<"died", a>>
        PROVE  BirthQueue' /\ ConnQueue' /\ (\A a \in Agent : Queued("died", a) => Queued("died", a)')
    BY <2>2, BirthQueueTake, ConnQueueTake, DeathTake DEF Aloof
  <2>3. ASSUME NEW e \in Event, Post(e), \A a \in Agent, k \in Births \cup {"conn"} : e # <<k, a>>
        PROVE  BirthQueue' /\ ConnQueue' /\ (\A a \in Agent : Queued("died", a) => Queued("died", a)')
    BY <2>3, BirthQueuePost, ConnQueuePost, DeathPost DEF Aloof
  <2>. QED
    BY <2>1, <2>2, <2>3 DEF Aloof
<1>3. LeaveInv'
  BY <1>2 DEF Aloof, LifeInv, LeaveInv
<1>. QED
  BY <1>1, <1>2, <1>3 DEF LifeInv

\* The steps that do.
OwnStep ==
  \/ \E f \in Frontend : OnSendMessage(f) \/ \E a \in Agent : UserSpawns(f, a)
  \/ \E a \in Agent :
       \/ JobDue(a) \/ OnSpawnAgent(a) \/ OnScheduledJob(a)
       \/ \E kind \in Births : SpawnFails(kind, a)
       \/ Authenticates(a) \/ Exits(a) \/ AuthFails(a) \/ ReadFails(a) \/ HeartbeatTimeout(a)
       \/ OnKillAgent(a) \/ OnAgentConnected(a) \/ FinishConnect(a)
       \/ OnAgentDied(a) \/ Cleanup(a) \/ OnResponseDone(a) \/ OnAgentError(a)

\* All other steps are aloof.
LEMMA AloofSteps ==
  ASSUME TypeOK, Next
  PROVE  Aloof \/ OwnStep
<1>1. ASSUME NEW f \in Frontend, FrontendConnects(f) PROVE Aloof
  BY <1>1, FrontendPost DEF Aloof, FrontendConnects, Births
<1>2. ASSUME NEW f \in Frontend, FrontendDisconnects(f) PROVE Aloof
  BY <1>2, FrontendPost DEF Aloof, FrontendDisconnects, Births
<1>3. ASSUME NEW f \in Frontend, NEW c \in Call, NEW d \in Decision, UserAnswers(f, c, d) PROVE Aloof
  BY <1>3, CallPost DEF Aloof, UserAnswers, Births, AgentEvent, CallEvent, Decision, Approval
<1>4. ASSUME NEW f \in Frontend, UserSends(f) PROVE Aloof
  BY <1>4, FrontendPost DEF Aloof, UserSends, UserCommands, Births
<1>5. ASSUME NEW f \in Frontend, NEW a \in Agent, UserKills(f, a) PROVE Aloof
  BY <1>5, AgentPost DEF Aloof, UserKills, UserCommands, Births, AgentEvent, CallEvent, Decision, Approval
<1>6. ASSUME NEW f \in Frontend, OnFrontendConnected(f) PROVE Aloof
  BY <1>6 DEF Aloof, OnFrontendConnected
<1>7. ASSUME NEW f \in Frontend, OnFrontendDisconnected(f) PROVE Aloof
  BY <1>7 DEF Aloof, OnFrontendDisconnected
<1>8. ASSUME NEW a \in Agent, BecomesReady(a) PROVE Aloof
  BY <1>8, AgentPost DEF Aloof, BecomesReady, Births, AgentEvent, CallEvent, Decision, Approval
<1>9. ASSUME NEW a \in Agent, NEW how \in {"done", "error"}, EndsTurn(a, how) PROVE Aloof
  BY <1>9, AgentPost DEF Aloof, EndsTurn, Births, AgentEvent, CallEvent, Decision, Approval
<1>10. ASSUME NEW a \in Agent, WatchdogFires(a) PROVE Aloof
  BY <1>10, AgentPost DEF Aloof, WatchdogFires, Births, AgentEvent, CallEvent, Decision, Approval
<1>11. ASSUME NEW a \in Agent, OnReady(a) PROVE Aloof
  BY <1>11 DEF Aloof, OnReady
<1>12. ASSUME NEW c \in Call, CallsTool(c) PROVE Aloof
  BY <1>12, CallPost DEF Aloof, CallsTool, Births, AgentEvent, CallEvent, Decision, Approval
<1>13. ASSUME NEW c \in Call, OnHealthCall(c) PROVE Aloof
  BY <1>13 DEF Aloof, OnHealthCall
<1>14. ASSUME NEW c \in Call, OnToolCall(c) PROVE Aloof
  <2>1. loop' = loop \/ (loop = Idle /\ loop' = <<"tool", c>>)
    BY <1>14, TakeType DEF OnToolCall, Reject, AllowNow, AskUser
  <2>2. \A b \in Agent, k \in {"connect", "cleanup"} : (loop' = <<k, b>>) <=> (loop = <<k, b>>)
    BY <2>1, NotIdle
  <2>. QED
    BY <1>14, <2>2 DEF Aloof, OnToolCall
<1>15. ASSUME NEW c \in Call, NEW d \in Decision, OnApprovalResponse(c, d) PROVE Aloof
  BY <1>15 DEF Aloof, OnApprovalResponse, Decision, Approval
<1>16. ASSUME NEW c \in Call, AcquireSandbox(c) PROVE Aloof
  BY <1>16 DEF Aloof, AcquireSandbox
<1>17. ASSUME NEW c \in Call, Execute(c) PROVE Aloof
  BY <1>17 DEF Aloof, Execute
<1>18. ASSUME NEW c \in Call, Answer(c) PROVE Aloof
  BY <1>18 DEF Aloof, Answer
<1>19. ASSUME NEW c \in Call, Journal(c) PROVE Aloof
  <2>1. loop' = loop \/ (loop = <<"tool", c>> /\ loop' = Idle)
    BY <1>19 DEF Journal
  <2>2. \A b \in Agent, k \in {"connect", "cleanup"} : (loop' = <<k, b>>) <=> (loop = <<k, b>>)
    BY <2>1, NotIdle
  <2>. QED
    BY <1>19, <2>2 DEF Aloof, Journal
<1>20. ASSUME PolicyReloads PROVE Aloof
  BY <1>20 DEF Aloof, PolicyReloads
<1>. QED
  BY <1>1, <1>2, <1>3, <1>4, <1>5, <1>6, <1>7, <1>8, <1>9, <1>10, <1>11, <1>12, <1>13, <1>14, <1>15, <1>16, <1>17, <1>18, <1>19, <1>20
     DEF Next, OwnStep, Births, UserStep, OnFrontendEvent, AgentStep, TaskStep, OnAgentEvent,
         OnCallEvent, RunStep

-----------------------------------------------------------------------------
(* Steps that do *)

\* A spawn is queued (UserSpawns, JobDue).
LEMMA SpawnQueuedKeeps ==
  ASSUME TypeOK, LifeInv, NEW k \in Births, NEW a \in Agent,
         proc[a] = "unborn", proc' = [proc EXCEPT ![a] = "due"], Post(<<k, a>>),
         UNCHANGED <<first, conn, children, agents, headless, sandboxes, outcome, loop>>
  PROVE  LifeInv'
<1>1. <<k, a>> \in Event
  BY DEF Births, Event, AgentEvent
<1>2. BirthQueue'
  <2>1. \A i \in DOMAIN events, m \in Births : events[i] # <<m, a>>
    BY DEF LifeInv, BirthQueue
  <2>2. \A i \in DOMAIN events' :
           \/ i \in DOMAIN events /\ events'[i] = events[i]
           \/ i = Len(events) + 1 /\ events'[i] = <<k, a>>
    BY <1>1, PostQueue
  <2>3. ASSUME NEW i \in DOMAIN events', NEW b \in Agent, NEW m \in Births,
               events'[i] = <<m, b>>
        PROVE  /\ proc'[b] = "due"
               /\ \A j \in DOMAIN events', n \in Births : events'[j] = <<n, b>> => i = j
    <3>1. CASE b = a
      <4>1. \A j \in DOMAIN events', n \in Births : events'[j] = <<n, a>> =>
               j = Len(events) + 1
        BY <2>1, <2>2
      <4>2. proc'[a] = "due"
        BY DEF TypeOK
      <4>. QED
        BY <2>3, <3>1, <4>1, <4>2
    <3>2. CASE b # a
      <4>1. \A j \in DOMAIN events', n \in Births : events'[j] = <<n, b>> =>
               j \in DOMAIN events /\ events[j] = <<n, b>>
        BY <2>2, <3>2
      <4>2. i \in DOMAIN events /\ events[i] = <<m, b>>
        BY <2>3, <4>1
      <4>3. /\ proc[b] = "due"
            /\ \A j \in DOMAIN events, n \in Births : events[j] = <<n, b>> => i = j
        BY <4>2 DEF LifeInv, BirthQueue
      <4>4. proc'[b] = "due"
        BY <3>2, <4>3 DEF TypeOK
      <4>5. \A j \in DOMAIN events', n \in Births : events'[j] = <<n, b>> => i = j
        <5>. TAKE j \in DOMAIN events', n \in Births
        <5>. HAVE events'[j] = <<n, b>>
        <5>. QED
          BY <4>1, <4>3
      <4>. QED
        BY <4>4, <4>5
    <3>. QED
      BY <3>1, <3>2
  <2>. QED
    BY <2>3 DEF BirthQueue
<1>3. ConnQueue'
  BY <1>1, ConnQueuePost DEF Births
<1>4. LeaveInv'
  BY <1>1, DeathPost DEF LifeInv, LeaveInv
<1>5. BirthInv' /\ OutcomeInv' /\ KnownInv' /\ HelloInv'
  BY DEF LifeInv, BirthInv, OutcomeInv, KnownInv, HelloInv, TypeOK
<1>. QED
  BY <1>2, <1>3, <1>4, <1>5 DEF LifeInv

\* The spawn event of a is handled: a is due, so nothing of it exists.
LEMMA Due ==
  ASSUME TypeOK, LifeInv, NEW k \in Births, NEW a \in Agent, Take(k, a)
  PROVE  /\ proc[a] = "due" /\ conn[a] = "none"
         /\ a \notin agents /\ a \notin sandboxes /\ a \notin headless /\ outcome[a] = <<>>
         /\ loop = Idle
<1>1. 1 \in DOMAIN events /\ events[1] = <<k, a>>
  BY TakeQueue
<1>2. proc[a] = "due"
  BY <1>1 DEF LifeInv, BirthQueue
<1>. QED
  BY <1>2 DEF LifeInv, BirthInv, KnownInv, Take

\* The spawn event is taken and a leaves the state "due" (OnSpawnAgent,
\* OnScheduledJob, SpawnFails).
LEMMA SpawnHandledKeeps ==
  ASSUME TypeOK, LifeInv, NEW k \in Births, NEW a \in Agent, Take(k, a),
         NEW p \in {"running", "exited"}, proc' = [proc EXCEPT ![a] = p],
         conn' \in {conn, [conn EXCEPT ![a] = "auth"]},
         headless' \in {headless, headless \cup {a}},
         UNCHANGED <<first, agents, sandboxes, outcome, loop>>,
         \A b \in Agent \ {a} : b \in children' <=> b \in children
  PROVE  LifeInv'
<1>1. /\ proc[a] = "due" /\ conn[a] = "none"
      /\ a \notin agents /\ a \notin sandboxes /\ a \notin headless /\ outcome[a] = <<>>
      /\ loop = Idle
  BY Due
<1>2. \A b \in Agent \ {a} : proc'[b] = proc[b] /\ conn'[b] = conn[b]
  BY DEF TypeOK
<1>3. proc'[a] = p /\ conn'[a] \in {"none", "auth"}
  BY <1>1 DEF TypeOK
<1>4. BirthQueue'
  BY <1>2, BirthQueueTake
<1>5. ConnQueue'
  BY <1>1, <1>2, ConnQueueTake
<1>6. LeaveInv'
  BY <1>2, <1>3, DeathTake DEF LifeInv, LeaveInv, Births
<1>7. BirthInv' /\ OutcomeInv'
  BY <1>1, <1>2, <1>3 DEF LifeInv, BirthInv, OutcomeInv
<1>8. KnownInv' /\ HelloInv'
  BY <1>1, <1>2, NotIdle DEF LifeInv, KnownInv, HelloInv
<1>. QED
  BY <1>4, <1>5, <1>6, <1>7, <1>8 DEF LifeInv

\* The agent authenticates: its connection is open and queued once.
LEMMA AuthenticatesKeeps ==
  ASSUME TypeOK, LifeInv, NEW a \in Agent, Authenticates(a)
  PROVE  LifeInv'
<1>1. /\ conn[a] = "auth" /\ conn' = [conn EXCEPT ![a] = "open"]
      /\ Post(<<"conn", a>>)
      /\ UNCHANGED <<proc, first, children, agents, headless, sandboxes, outcome, loop>>
  BY DEF Authenticates
<1>2. <<"conn", a>> \in Event
  BY DEF Event, AgentEvent
<1>3. BirthQueue'
  BY <1>1, <1>2, BirthQueuePost DEF Births
<1>4. ConnQueue'
  <2>1. \A i \in DOMAIN events' :
           \/ i \in DOMAIN events /\ events'[i] = events[i]
           \/ i = Len(events) + 1 /\ events'[i] = <<"conn", a>>
    BY <1>1, <1>2, PostQueue
  <2>2. \A i \in DOMAIN events : i \in DOMAIN events' /\ events'[i] = events[i]
    BY <1>1 DEF Post, TypeOK
  <2>3. \A b \in Agent \ {a} : conn'[b] = conn[b]
    BY <1>1 DEF TypeOK
  <2>4. conn'[a] = "open"
    BY <1>1 DEF TypeOK
  <2>5. ASSUME NEW i \in DOMAIN events', NEW b \in Agent, events'[i] = <<"conn", b>>, b # a
        PROVE  /\ conn'[b] \in {"open", "closed"}
               /\ conn'[b] = "closed" =>
                    \E j \in DOMAIN events' : j > i /\ events'[j] = <<"died", b>>
    BY <2>1, <2>2, <2>3, <2>5 DEF LifeInv, ConnQueue
  <2>. QED
    BY <2>4, <2>5 DEF ConnQueue
<1>5. LeaveInv'
  BY <1>1, <1>2, DeathPost DEF LifeInv, LeaveInv, TypeOK
<1>6. BirthInv' /\ OutcomeInv' /\ KnownInv' /\ HelloInv'
  BY <1>1 DEF LifeInv, BirthInv, OutcomeInv, KnownInv, HelloInv, TypeOK
<1>. QED
  BY <1>3, <1>4, <1>5, <1>6 DEF LifeInv

\* The connection is over and the death posted (AuthFails, ReadFails,
\* HeartbeatTimeout).
LEMMA ClosingKeeps ==
  ASSUME TypeOK, LifeInv, NEW a \in Agent, conn[a] \in {"auth", "open"},
         conn' = [conn EXCEPT ![a] = "closed"], Post(<<"died", a>>),
         UNCHANGED <<proc, first, children, agents, headless, sandboxes, outcome, loop>>
  PROVE  LifeInv'
<1>1. <<"died", a>> \in Event
  BY DEF Event, AgentEvent
<1>2. BirthQueue'
  BY <1>1, BirthQueuePost DEF Births
<1>3. ConnQueue'
  <2>1. \A i \in DOMAIN events', b \in Agent : events'[i] = <<"conn", b>> =>
           i \in DOMAIN events /\ events[i] = <<"conn", b>>
    BY <1>1, PostQueue
  <2>2. /\ \A i \in DOMAIN events :
              i \in DOMAIN events' /\ events'[i] = events[i] /\ Len(events) + 1 > i
        /\ Len(events) + 1 \in DOMAIN events' /\ events'[Len(events) + 1] = <<"died", a>>
    BY DEF Post, TypeOK
  <2>3. conn'[a] = "closed" /\ \A b \in Agent \ {a} : conn'[b] = conn[b]
    BY DEF TypeOK
  <2>4. ASSUME NEW i \in DOMAIN events', NEW b \in Agent, events'[i] = <<"conn", b>>
        PROVE  /\ conn'[b] \in {"open", "closed"}
               /\ conn'[b] = "closed" =>
                    \E j \in DOMAIN events' : j > i /\ events'[j] = <<"died", b>>
    <3>1. CASE b = a
      BY <2>1, <2>2, <2>3, <2>4, <3>1
    <3>2. CASE b # a
      BY <2>1, <2>2, <2>3, <2>4, <3>2 DEF LifeInv, ConnQueue
    <3>. QED
      BY <3>1, <3>2
  <2>. QED
    BY <2>4 DEF ConnQueue
<1>4. LeaveInv'
  BY <1>1, DeathPost DEF LifeInv, LeaveInv, TypeOK
<1>5. BirthInv' /\ OutcomeInv' /\ KnownInv' /\ HelloInv'
  BY DEF LifeInv, BirthInv, OutcomeInv, KnownInv, HelloInv, TypeOK
<1>. QED
  BY <1>2, <1>3, <1>4, <1>5 DEF LifeInv

\* The process ends; the loop knows nothing of it yet.
LEMMA ExitsKeeps ==
  ASSUME TypeOK, LifeInv, NEW a \in Agent, Exits(a)
  PROVE  LifeInv'
<1>1. /\ proc[a] = "running" /\ proc' = [proc EXCEPT ![a] = "exited"]
      /\ UNCHANGED <<first, conn, children, agents, headless, sandboxes, outcome, loop, events>>
  BY DEF Exits
<1>2. BirthQueue'
  BY <1>1 DEF LifeInv, BirthQueue, TypeOK
<1>3. ConnQueue' /\ LeaveInv' /\ KnownInv' /\ OutcomeInv'
  BY <1>1 DEF LifeInv, ConnQueue, LeaveInv, KnownInv, OutcomeInv, Queued
<1>4. BirthInv' /\ HelloInv'
  BY <1>1 DEF LifeInv, BirthInv, HelloInv, TypeOK
<1>. QED
  BY <1>2, <1>3, <1>4 DEF LifeInv

\* Only an agent that has heard Init gets the message.
LEMMA OnSendMessageKeeps ==
  ASSUME TypeOK, LifeInv, NEW f \in Frontend, OnSendMessage(f)
  PROVE  LifeInv'
<1>1. /\ Take("send", f) /\ loop = Idle
      /\ UNCHANGED <<proc, conn, children, agents, headless, sandboxes, outcome, loop>>
  BY DEF OnSendMessage, Take
<1>2. UNCHANGED first
  <2>1. ASSUME NEW a \in agents, Receives(a, "other") PROVE UNCHANGED first
    <3>1. a \in Agent /\ loop # <<"connect", a>>
      BY <1>1, NotIdle DEF TypeOK
    <3>2. first[a] = "init" \/ proc[a] = "exited"
      BY <3>1 DEF LifeInv, HelloInv
    <3>. QED
      BY <2>1, <3>2 DEF Receives
  <2>. QED
    BY <2>1 DEF OnSendMessage
<1>3. Aloof
  BY <1>1, <1>2 DEF Aloof
<1>. QED
  BY <1>3, AloofKeeps

\* A user kills the agent: child, handle and job go, then its sandbox.
LEMMA OnKillAgentKeeps ==
  ASSUME TypeOK, LifeInv, NEW a \in Agent, OnKillAgent(a)
  PROVE  LifeInv'
<1>1. /\ Take("kill", a) /\ loop = Idle
      /\ proc' = IF a \in children THEN [proc EXCEPT ![a] = "exited"] ELSE proc
      /\ children' = children \ {a} /\ agents' = agents \ {a} /\ headless' = headless \ {a}
      /\ loop' = <<"cleanup", a>>
      /\ UNCHANGED <<conn, sandboxes, outcome>>
  BY DEF OnKillAgent, Take
<1>2. UNCHANGED first
  <2>1. a \in agents => first[a] = "init" \/ proc[a] = "exited"
    BY <1>1, NotIdle DEF LifeInv, HelloInv
  <2>. QED
    BY <2>1 DEF OnKillAgent, Receives
<1>3. \A b \in Agent : \/ proc'[b] = proc[b]
                       \/ proc[b] \notin {"unborn", "due"} /\ proc'[b] = "exited"
  BY <1>1 DEF LifeInv, BirthInv, TypeOK
<1>4. BirthQueue'
  BY <1>1, <1>3, BirthQueueTake
<1>5. ConnQueue'
  BY <1>1, ConnQueueTake
<1>6. LeaveInv'
  BY <1>1, DeathTake, NotIdle DEF LifeInv, LeaveInv
<1>7. BirthInv' /\ OutcomeInv'
  BY <1>1, <1>3 DEF LifeInv, BirthInv, OutcomeInv
<1>8. KnownInv' /\ HelloInv'
  BY <1>1, <1>2, <1>3, NotIdle DEF LifeInv, KnownInv, HelloInv
<1>. QED
  BY <1>4, <1>5, <1>6, <1>7, <1>8 DEF LifeInv

\* A handle is registered; if the connection is over already, its death is
\* queued behind.
LEMMA OnAgentConnectedKeeps ==
  ASSUME TypeOK, LifeInv, NEW a \in Agent, OnAgentConnected(a)
  PROVE  LifeInv'
<1>1. /\ Take("conn", a) /\ loop = Idle
      /\ agents' = agents \cup {a} /\ loop' = <<"connect", a>>
      /\ UNCHANGED <<proc, first, conn, children, headless, sandboxes, outcome>>
  BY DEF OnAgentConnected, Take
<1>2. 1 \in DOMAIN events /\ events[1] = <<"conn", a>>
  BY <1>1, TakeQueue
<1>3. conn[a] \in {"open", "closed"} /\ (conn[a] = "closed" => Queued("died", a))
  BY <1>2 DEF LifeInv, ConnQueue, Queued
<1>4. BirthQueue'
  BY <1>1, BirthQueueTake
<1>5. ConnQueue'
  BY <1>1, ConnQueueTake
<1>6. LeaveInv'
  BY <1>1, <1>3, DeathTake, NotIdle DEF LifeInv, LeaveInv
<1>7. BirthInv' /\ OutcomeInv'
  BY <1>1 DEF LifeInv, BirthInv, OutcomeInv
<1>8. KnownInv' /\ HelloInv'
  BY <1>1, <1>3, NotIdle DEF LifeInv, KnownInv, HelloInv
<1>. QED
  BY <1>4, <1>5, <1>6, <1>7, <1>8 DEF LifeInv

\* The sandbox is spawned, Init sent.
LEMMA FinishConnectKeeps ==
  ASSUME TypeOK, LifeInv, NEW a \in Agent, FinishConnect(a)
  PROVE  LifeInv'
<1>1. /\ loop = <<"connect", a>> /\ loop' = Idle
      /\ sandboxes' \in {sandboxes, sandboxes \cup {a}}
      /\ UNCHANGED <<proc, conn, children, agents, headless, outcome, events>>
  BY DEF FinishConnect
<1>2. /\ \A b \in Agent \ {a} : first'[b] = first[b]
      /\ first'[a] \in {first[a], "init"}
      /\ proc[a] = "running" => first'[a] # "none"
  BY DEF FinishConnect, Receives, TypeOK
<1>3. BirthQueue' /\ ConnQueue' /\ BirthInv' /\ OutcomeInv'
  BY <1>1 DEF LifeInv, BirthQueue, ConnQueue, BirthInv, OutcomeInv
<1>4. LeaveInv' /\ KnownInv'
  BY <1>1, NotIdle DEF LifeInv, LeaveInv, KnownInv, Queued
<1>5. HelloInv'
  <2>1. a \in agents => proc[a] \in {"running", "exited"}
    BY DEF LifeInv, KnownInv, BirthInv, TypeOK
  <2>2. first'[a] \in {"none", "init"}
    BY <1>2 DEF LifeInv, HelloInv, TypeOK
  <2>3. \A b \in Agent \ {a} : loop # <<"connect", b>>
    BY <1>1
  <2>. QED
    BY <1>1, <1>2, <2>1, <2>2, <2>3 DEF LifeInv, HelloInv
<1>. QED
  BY <1>3, <1>4, <1>5 DEF LifeInv

\* An outcome is written only for an agent listed as headless, which it stops
\* being.
LEMMA SettlesOnce ==
  ASSUME TypeOK, LifeInv, NEW a \in Agent, NEW how \in {"died", "completed", "error"},
         Settles(a, how)
  PROVE  /\ OutcomeInv'
         /\ headless' = headless \ {a}
         /\ \A b \in Agent : b \notin headless => outcome'[b] = outcome[b]
<1>1. a \in headless => outcome'[a] = <<how>>
  <2>1. a \in headless => outcome[a] = <<>>
    BY DEF LifeInv, OutcomeInv
  <2>. QED
    BY <2>1 DEF Settles, TypeOK
<1>2. \A b \in Agent : b # a \/ a \notin headless => outcome'[b] = outcome[b]
  BY DEF Settles, TypeOK
<1>3. headless' = headless \ {a}
  BY DEF Settles
<1>. QED
  BY <1>1, <1>2, <1>3 DEF LifeInv, OutcomeInv

\* A death is handled: the job is settled and the handle dropped.
LEMMA OnAgentDiedKeeps ==
  ASSUME TypeOK, LifeInv, NEW a \in Agent, OnAgentDied(a)
  PROVE  LifeInv'
<1>1. /\ Take("died", a) /\ loop = Idle /\ Settles(a, "died")
      /\ agents' = agents \ {a} /\ loop' = <<"cleanup", a>>
      /\ UNCHANGED <<proc, first, conn, children, sandboxes>>
  BY DEF OnAgentDied, Take
<1>2. /\ OutcomeInv' /\ headless' = headless \ {a}
      /\ \A b \in Agent : b \notin headless => outcome'[b] = outcome[b]
  BY <1>1, SettlesOnce
<1>3. BirthQueue'
  BY <1>1, BirthQueueTake
<1>4. ConnQueue'
  BY <1>1, ConnQueueTake
<1>5. LeaveInv'
  BY <1>1, DeathTake, NotIdle DEF LifeInv, LeaveInv
<1>6. BirthInv'
  BY <1>1, <1>2 DEF LifeInv, BirthInv
<1>7. KnownInv' /\ HelloInv'
  BY <1>1, NotIdle DEF LifeInv, KnownInv, HelloInv
<1>. QED
  BY <1>2, <1>3, <1>4, <1>5, <1>6, <1>7 DEF LifeInv

\* The sandbox is destroyed under the mutex, and the handler returns.
LEMMA CleanupKeeps ==
  ASSUME TypeOK, LifeInv, NEW a \in Agent, Cleanup(a)
  PROVE  LifeInv'
<1>1. /\ loop = <<"cleanup", a>> /\ loop' = Idle /\ sandboxes' = sandboxes \ {a}
      /\ UNCHANGED <<proc, first, conn, children, agents, headless, outcome, events>>
  BY DEF Cleanup
<1>2. BirthQueue' /\ ConnQueue' /\ BirthInv' /\ OutcomeInv'
  BY <1>1 DEF LifeInv, BirthQueue, ConnQueue, BirthInv, OutcomeInv
<1>3. KnownInv' /\ HelloInv'
  BY <1>1, NotIdle DEF LifeInv, KnownInv, HelloInv
<1>4. LeaveInv'
  <2>1. a \notin agents'
    BY <1>1 DEF LifeInv, KnownInv
  <2>2. \A b \in Agent \ {a} : loop # <<"cleanup", b>>
    BY <1>1
  <2>. QED
    BY <1>1, <2>1, <2>2, NotIdle DEF LifeInv, LeaveInv, Queued
<1>. QED
  BY <1>2, <1>3, <1>4 DEF LifeInv

\* The end of a turn and an agent's error settle the job; an error also drops
\* the handle.
LEMMA SettledKeeps ==
  ASSUME TypeOK, LifeInv, NEW a \in Agent, NEW k \in {"done", "error"}, Take(k, a),
         NEW how \in {"completed", "error"}, Settles(a, how),
         agents' \in {agents, agents \ {a}},
         UNCHANGED <<proc, first, conn, children, sandboxes, loop>>
  PROVE  LifeInv'
<1>1. /\ OutcomeInv' /\ headless' = headless \ {a}
      /\ \A b \in Agent : b \notin headless => outcome'[b] = outcome[b]
  BY SettlesOnce
<1>2. BirthQueue'
  BY BirthQueueTake
<1>3. ConnQueue'
  BY ConnQueueTake
<1>4. LeaveInv'
  BY DeathTake DEF LifeInv, LeaveInv
<1>5. BirthInv'
  BY <1>1 DEF LifeInv, BirthInv
<1>6. KnownInv' /\ HelloInv'
  BY DEF LifeInv, KnownInv, HelloInv
<1>. QED
  BY <1>1, <1>2, <1>3, <1>4, <1>5, <1>6 DEF LifeInv

\* Every step keeps the invariant of agents' lives.
LEMMA LifeStep ==
  ASSUME TypeOK, LifeInv, Next
  PROVE  LifeInv'
<1>1. CASE Aloof
  BY <1>1, AloofKeeps
<1>2. ASSUME NEW f \in Frontend, OnSendMessage(f) PROVE LifeInv'
  BY <1>2, OnSendMessageKeeps
<1>3. ASSUME NEW f \in Frontend, NEW a \in Agent, UserSpawns(f, a) PROVE LifeInv'
  BY <1>3, SpawnQueuedKeeps DEF UserSpawns, Births
<1>4. ASSUME NEW a \in Agent, JobDue(a) PROVE LifeInv'
  BY <1>4, SpawnQueuedKeeps DEF JobDue, Births
<1>5. ASSUME NEW a \in Agent, OnSpawnAgent(a) PROVE LifeInv'
  BY <1>5, SpawnHandledKeeps DEF OnSpawnAgent, Births
<1>6. ASSUME NEW a \in Agent, OnScheduledJob(a) PROVE LifeInv'
  BY <1>6, SpawnHandledKeeps DEF OnScheduledJob, Births
<1>7. ASSUME NEW a \in Agent, NEW kind \in Births, SpawnFails(kind, a) PROVE LifeInv'
  BY <1>7, SpawnHandledKeeps DEF SpawnFails, Births
<1>8. ASSUME NEW a \in Agent, Authenticates(a) PROVE LifeInv'
  BY <1>8, AuthenticatesKeeps
<1>9. ASSUME NEW a \in Agent, Exits(a) PROVE LifeInv'
  BY <1>9, ExitsKeeps
<1>10. ASSUME NEW a \in Agent, AuthFails(a) \/ ReadFails(a) \/ HeartbeatTimeout(a) PROVE LifeInv'
  BY <1>10, ClosingKeeps DEF AuthFails, ReadFails, HeartbeatTimeout, ConnectionEnds
<1>11. ASSUME NEW a \in Agent, OnKillAgent(a) PROVE LifeInv'
  BY <1>11, OnKillAgentKeeps
<1>12. ASSUME NEW a \in Agent, OnAgentConnected(a) \/ FinishConnect(a) PROVE LifeInv'
  BY <1>12, OnAgentConnectedKeeps, FinishConnectKeeps
<1>13. ASSUME NEW a \in Agent, OnAgentDied(a) \/ Cleanup(a) PROVE LifeInv'
  BY <1>13, OnAgentDiedKeeps, CleanupKeeps
<1>14. ASSUME NEW a \in Agent, OnResponseDone(a) PROVE LifeInv'
  BY <1>14, SettledKeeps DEF OnResponseDone
<1>15. ASSUME NEW a \in Agent, OnAgentError(a) PROVE LifeInv'
  BY <1>15, SettledKeeps DEF OnAgentError
<1>. QED
  BY <1>1, <1>2, <1>3, <1>4, <1>5, <1>6, <1>7, <1>8, <1>9, <1>10, <1>11, <1>12, <1>13,
     <1>14, <1>15, AloofSteps DEF OwnStep

-----------------------------------------------------------------------------
(* Theorems *)

\* The inductive invariant of agents' lives holds in every reachable state.
THEOREM LifeInvariantHolds == Spec => []LifeInv
<1>1. Init => LifeInv
  <2>1. Init => BirthQueue /\ BirthInv /\ OutcomeInv /\ ConnQueue
    BY DEF Init, BirthQueue, BirthInv, OutcomeInv, ConnQueue
  <2>2. Init => KnownInv /\ LeaveInv /\ HelloInv
    BY NotIdle DEF Init, KnownInv, LeaveInv, HelloInv
  <2>. QED
    BY <2>1, <2>2 DEF LifeInv
<1>2. TypeOK /\ LifeInv /\ [Next]_vars => LifeInv'
  <2>1. ASSUME TypeOK, LifeInv, UNCHANGED vars PROVE LifeInv'
    BY <2>1, AloofKeeps DEF Aloof, vars
  <2>. QED
    BY <2>1, LifeStep
<1>. QED
  BY <1>1, <1>2, TypeCorrect, PTL DEF Spec

\* A scheduled job is settled at most once, and not while it is listed as
\* running (headless_agents.remove in every handler that settles it).
THEOREM SettledOnce == Spec => []OutcomeOnce
<1>1. LifeInv => OutcomeOnce
  <2>1. /\ Len(<<>>) <= 1 /\ Len(<<"died">>) <= 1
        /\ Len(<<"completed">>) <= 1 /\ Len(<<"error">>) <= 1
    OBVIOUS
  <2>. QED
    BY <2>1 DEF LifeInv, OutcomeInv, OutcomeOnce
<1>. QED
  BY <1>1, LifeInvariantHolds, PTL

\* No agent ever receives anything before Init.
THEOREM HelloFirst == Spec => []InitFirst
<1>1. LifeInv => InitFirst
  BY DEF LifeInv, HelloInv, InitFirst
<1>. QED
  BY <1>1, LifeInvariantHolds, PTL

\* Once the loop has caught up with the end of a connection, neither a handle
\* nor a sandbox of the agent is left.
THEOREM NothingIsLeft == Spec => []NothingLeftBehind
<1>1. LifeInv => NothingLeftBehind
  BY DEF LifeInv, LeaveInv, NothingLeftBehind
<1>. QED
  BY <1>1, LifeInvariantHolds, PTL
=============================================================================
