----------------------------- MODULE Supervisor -----------------------------
(***************************************************************************)
(* The supervisor process (crates/supervisor/src/supervisor.rs): its event *)
(* loop, the maps the loop owns, the tasks that feed it (frontend and      *)
(* agent connections, the scheduler, the per-job watchdog) and the         *)
(* resolver tasks that finish a tool call after the user was asked.        *)
(*                                                                         *)
(* The loop handles one event at a time, so a handler is one step up to    *)
(* the point where it waits for something outside the loop: the sandbox    *)
(* mutex or the execution of a tool.  There the handler is split and loop  *)
(* says what is left of it.                                                *)
(***************************************************************************)
EXTENDS Naturals, Sequences, FiniteSets

CONSTANTS Interactive,  \* ids of agents spawned by a frontend
          Scheduled,    \* ids of headless agents, spawned for cron jobs
          Frontend,     \* frontend connections
          Tool,         \* registered tools
          Call,         \* tool calls, by request id
          Owner,        \* the agent that makes a call
          ToolOf,       \* the tool a call asks for
          Health,       \* the name of the built-in health tool
          Nobody,       \* no call
          Cap,          \* capacity of the event channel (256 in the code)
          MaxCommands,  \* bound: user messages and kills of a behaviour
          MaxReloads    \* bound: policy reloads of a behaviour

Agent == Interactive \cup Scheduled

ASSUME SupervisorAssumption ==
  /\ Interactive \cap Scheduled = {}
  /\ Owner \in [Call -> Agent]
  /\ ToolOf \in [Call -> Tool \cup {Health}]
  /\ Health \notin Tool
  /\ Nobody \notin Call
  /\ IsFiniteSet(Call)
  /\ Cap \in Nat \ {0}
  /\ MaxCommands \in Nat
  /\ MaxReloads \in Nat

VARIABLES
  \* the agent processes
  proc,        \* unborn, due (its spawn is queued), running or exited
  first,       \* the first message the process received
  ready,       \* agents that sent Ready
  mail,        \* turns an agent has yet to finish: prompts it received
  \* the tasks serving an agent
  conn,        \* the connection task: none, auth, open, closed
  timer,       \* the watchdog of a scheduled job: off, armed, fired
  \* the event loop
  events,      \* the event channel, a queue of <<kind, subject>>
  loop,        \* what the running handler has yet to do
  children,    \* agents with an entry in the children map
  agents,      \* agents with a handle
  headless,    \* agents with an entry in headless_agents
  frontends,   \* frontends registered with the loop
  pending,     \* calls with an entry in pending_approvals
  \* the policy engine
  verdict,     \* what the static policy says of each tool's calls
  overlay,     \* session allows: <<agent, tool>>
  \* the sandbox manager
  sandboxes,   \* agents with a sandbox
  lock,        \* the call holding the sandbox mutex, or Nobody
  \* tool calls
  phase,       \* where the handling of a call is
  basis,       \* what the call was decided on
  reachable,   \* asked calls whose resolver task holds a handle of the agent
  effects,     \* times a call was executed in a sandbox
  replies,     \* what the agent was told of a call
  audits,      \* decisions journalled for a call
  \* the frontends
  session,     \* new, up, gone
  prompts,     \* approval requests a frontend received and has not answered
  commands,    \* user messages and kills so far
  reloads,     \* policy reloads so far
  \* history
  answer,      \* the first answer to a call the loop handled
  outcome      \* outcomes journalled for a scheduled agent

procVars     == <<proc, first, ready, mail>>
connVars     == <<conn, timer>>
agentMaps    == <<children, agents, headless>>
policyVars   == <<verdict, overlay, reloads>>
sandboxVars  == <<sandboxes, lock>>
callVars     == <<phase, basis, reachable, effects, replies, audits, pending, answer>>
frontendVars == <<frontends, session, prompts, commands>>
vars == <<procVars, connVars, events, loop, agentMaps, policyVars, sandboxVars,
          callVars, frontendVars, outcome>>

Idle == <<>>

AgentEvent == {"spawn", "job", "kill", "conn", "died", "ready", "done", "error"}
Approval   == {"once", "session"}
Decision   == {"deny"} \cup Approval
CallEvent  == {"call"} \cup Decision

Event == (AgentEvent \X Agent) \cup (CallEvent \X Call)
           \cup ({"fconn", "fdisc", "send"} \X Frontend)

PolicyAction == {"allow", "deny", "ask"}
Phase == {"new", "sent", "asked", "granted", "running", "settled", "replied", "done"}
Basis == {"none", "health", "invalid", "denied", "policy", "user", "refusal"}

TypeOK ==
  /\ proc \in [Agent -> {"unborn", "due", "running", "exited"}]
  /\ first \in [Agent -> {"none", "init", "other"}]
  /\ ready \in SUBSET Agent
  /\ mail \in [Agent -> Nat]
  /\ conn \in [Agent -> {"none", "auth", "open", "closed"}]
  /\ timer \in [Agent -> {"off", "armed", "fired"}]
  /\ events \in Seq(Event)
  /\ loop \in {Idle} \cup ({"connect", "cleanup"} \X Agent) \cup ({"tool"} \X Call)
  /\ children \in SUBSET Agent
  /\ agents \in SUBSET Agent
  /\ headless \in SUBSET Agent
  /\ frontends \in SUBSET Frontend
  /\ pending \in SUBSET Call
  /\ verdict \in [Tool -> PolicyAction]
  /\ overlay \in SUBSET (Agent \X Tool)
  /\ sandboxes \in SUBSET Agent
  /\ lock \in Call \cup {Nobody}
  /\ phase \in [Call -> Phase]
  /\ basis \in [Call -> Basis]
  /\ reachable \in SUBSET Call
  /\ effects \in [Call -> Nat]
  /\ replies \in [Call -> Seq({"result", "denied"})]
  /\ audits \in [Call -> Seq(PolicyAction)]
  /\ session \in [Frontend -> {"new", "up", "gone"}]
  /\ prompts \in [Frontend -> SUBSET Call]
  /\ commands \in Nat
  /\ reloads \in Nat
  /\ answer \in [Call -> {"none"} \cup Decision]
  /\ outcome \in [Agent -> Seq({"died", "completed", "error"})]

Init ==
  /\ proc = [a \in Agent |-> "unborn"]
  /\ first = [a \in Agent |-> "none"]
  /\ ready = {}
  /\ mail = [a \in Agent |-> 0]
  /\ conn = [a \in Agent |-> "none"]
  /\ timer = [a \in Agent |-> "off"]
  /\ events = <<>>
  /\ loop = Idle
  /\ children = {}
  /\ agents = {}
  /\ headless = {}
  /\ frontends = {}
  /\ pending = {}
  /\ verdict \in [Tool -> PolicyAction]
  /\ overlay = {}
  /\ sandboxes = {}
  /\ lock = Nobody
  /\ phase = [c \in Call |-> "new"]
  /\ basis = [c \in Call |-> "none"]
  /\ reachable = {}
  /\ effects = [c \in Call |-> 0]
  /\ replies = [c \in Call |-> <<>>]
  /\ audits = [c \in Call |-> <<>>]
  /\ session = [f \in Frontend |-> "new"]
  /\ prompts = [f \in Frontend |-> {}]
  /\ commands = 0
  /\ reloads = 0
  /\ answer = [c \in Call |-> "none"]
  /\ outcome = [a \in Agent |-> <<>>]

\* A task sends an event to the loop and waits while the channel is full.
Post(event) ==
  /\ Len(events) < Cap
  /\ events' = Append(events, event)

\* The loop takes the next event.
Take(kind, x) ==
  /\ loop = Idle
  /\ events # <<>>
  /\ Head(events) = <<kind, x>>
  /\ events' = Tail(events)

-----------------------------------------------------------------------------
(* Frontends: the connection's reader posts what the user does *)

FrontendConnects(f) ==
  /\ session[f] = "new"
  /\ session' = [session EXCEPT ![f] = "up"]
  /\ Post(<<"fconn", f>>)
  /\ UNCHANGED <<procVars, connVars, loop, agentMaps, policyVars, sandboxVars,
                 callVars, frontends, prompts, commands, outcome>>

FrontendDisconnects(f) ==
  /\ session[f] = "up"
  /\ session' = [session EXCEPT ![f] = "gone"]
  /\ Post(<<"fdisc", f>>)
  /\ UNCHANGED <<procVars, connVars, loop, agentMaps, policyVars, sandboxVars,
                 callVars, frontends, prompts, commands, outcome>>

UserAnswers(f, c, decision) ==
  /\ session[f] = "up"
  /\ c \in prompts[f]
  /\ prompts' = [prompts EXCEPT ![f] = @ \ {c}]
  /\ Post(<<decision, c>>)
  /\ UNCHANGED <<procVars, connVars, loop, agentMaps, policyVars, sandboxVars,
                 callVars, frontends, session, commands, outcome>>

UserSpawns(f, a) ==
  /\ session[f] = "up"
  /\ a \in Interactive
  /\ proc[a] = "unborn"
  /\ proc' = [proc EXCEPT ![a] = "due"]
  /\ Post(<<"spawn", a>>)
  /\ UNCHANGED <<first, ready, mail, connVars, loop, agentMaps, policyVars,
                 sandboxVars, callVars, frontendVars, outcome>>

UserCommands(f, event) ==
  /\ session[f] = "up"
  /\ commands < MaxCommands
  /\ commands' = commands + 1
  /\ Post(event)
  /\ UNCHANGED <<procVars, connVars, loop, agentMaps, policyVars, sandboxVars,
                 callVars, frontends, session, prompts, outcome>>

UserSends(f) == UserCommands(f, <<"send", f>>)
UserKills(f, a) == conn[a] # "none" /\ UserCommands(f, <<"kill", a>>)

\* The scheduler's channel and the bridge that turns a DueJob into an event.
JobDue(a) ==
  /\ a \in Scheduled
  /\ proc[a] = "unborn"
  /\ proc' = [proc EXCEPT ![a] = "due"]
  /\ Post(<<"job", a>>)
  /\ UNCHANGED <<first, ready, mail, connVars, loop, agentMaps, policyVars,
                 sandboxVars, callVars, frontendVars, outcome>>

\* The reload task replaces the static policy between two steps of the loop.
PolicyReloads ==
  /\ reloads < MaxReloads
  /\ reloads' = reloads + 1
  /\ verdict' \in [Tool -> PolicyAction]
  /\ UNCHANGED <<procVars, connVars, events, loop, agentMaps, overlay,
                 sandboxVars, callVars, frontendVars, outcome>>

-----------------------------------------------------------------------------
(* The agent process and the tasks serving it *)

\* Turns of a that wait for the answer to a tool call.
Waiting(a) == {c \in Call : Owner[c] = a /\ phase[c] # "new" /\ replies[c] = <<>>}

\* The agent can write to its socket and the reader task still reads it.
Speaks(a) == proc[a] = "running" /\ conn[a] = "open" /\ a \in ready

\* A turn of a is in the agent's hands, not suspended in a tool call.
HasTurn(a) == Speaks(a) /\ mail[a] > Cardinality(Waiting(a))

\* The token is in the socket, whether the process still runs or not.
Authenticates(a) ==
  /\ conn[a] = "auth"
  /\ conn' = [conn EXCEPT ![a] = "open"]
  /\ Post(<<"conn", a>>)
  /\ UNCHANGED <<procVars, timer, loop, agentMaps, policyVars, sandboxVars,
                 callVars, frontendVars, outcome>>

AuthFails(a) ==
  /\ conn[a] = "auth"
  /\ proc[a] = "exited"
  /\ conn' = [conn EXCEPT ![a] = "closed"]
  /\ Post(<<"died", a>>)
  /\ UNCHANGED <<procVars, timer, loop, agentMaps, policyVars, sandboxVars,
                 callVars, frontendVars, outcome>>

\* The agent answers Init with Ready; on a scheduled agent's first Ready the
\* reader task sends it the job's prompt, then posts the event.
BecomesReady(a) ==
  /\ proc[a] = "running"
  /\ conn[a] = "open"
  /\ first[a] = "init"
  /\ a \notin ready
  /\ ready' = ready \cup {a}
  /\ mail' = IF a \in Scheduled THEN [mail EXCEPT ![a] = @ + 1] ELSE mail
  /\ Post(<<"ready", a>>)
  /\ UNCHANGED <<proc, first, connVars, loop, agentMaps, policyVars, sandboxVars,
                 callVars, frontendVars, outcome>>

CallsTool(c) ==
  /\ phase[c] = "new"
  /\ HasTurn(Owner[c])
  /\ phase' = [phase EXCEPT ![c] = "sent"]
  /\ Post(<<"call", c>>)
  /\ UNCHANGED <<procVars, connVars, loop, agentMaps, policyVars, sandboxVars, basis,
                 reachable, effects, replies, audits, pending, answer, frontendVars,
                 outcome>>

\* Mutant: an agent reports the end of a turn it never had.
EndsTurnUnasked(a, how) ==
  /\ Speaks(a)
  /\ mail' = [mail EXCEPT ![a] = @ - 1]
  /\ Post(<<how, a>>)
  /\ UNCHANGED <<proc, first, ready, connVars, loop, agentMaps, policyVars,
                 sandboxVars, callVars, frontendVars, outcome>>

\* ResponseDone, or AgentError after a failed LLM request; the process goes on.
EndsTurn(a, how) ==
  /\ HasTurn(a)
  /\ mail' = [mail EXCEPT ![a] = @ - 1]
  /\ Post(<<how, a>>)
  /\ UNCHANGED <<proc, first, ready, connVars, loop, agentMaps, policyVars,
                 sandboxVars, callVars, frontendVars, outcome>>

Exits(a) ==
  /\ proc[a] = "running"
  /\ proc' = [proc EXCEPT ![a] = "exited"]
  /\ UNCHANGED <<first, ready, mail, connVars, events, loop, agentMaps, policyVars,
                 sandboxVars, callVars, frontendVars, outcome>>

\* Mutant: the reader task returns without posting AgentDied.
ConnectionEndsSilently(a) ==
  /\ conn[a] = "open"
  /\ conn' = [conn EXCEPT ![a] = "closed"]
  /\ UNCHANGED <<procVars, timer, events, loop, agentMaps, policyVars, sandboxVars,
                 callVars, frontendVars, outcome>>

\* The reader task ends: end of file, or no heartbeat for too long.
ConnectionEnds(a) ==
  /\ conn[a] = "open"
  /\ conn' = [conn EXCEPT ![a] = "closed"]
  /\ Post(<<"died", a>>)
  /\ UNCHANGED <<procVars, timer, loop, agentMaps, policyVars, sandboxVars,
                 callVars, frontendVars, outcome>>

ReadFails(a)        == proc[a] = "exited" /\ ConnectionEnds(a)
HeartbeatTimeout(a) == proc[a] = "running" /\ ConnectionEnds(a)

\* Mutant: the watchdog only starts once the agent has authenticated.
WatchdogFiresIfOpen(a) ==
  /\ timer[a] = "armed"
  /\ conn[a] # "auth"
  /\ timer' = [timer EXCEPT ![a] = "fired"]
  /\ Post(<<"died", a>>)
  /\ UNCHANGED <<procVars, conn, loop, agentMaps, policyVars, sandboxVars,
                 callVars, frontendVars, outcome>>

\* The watchdog of a scheduled job, whatever became of the job meanwhile.
WatchdogFires(a) ==
  /\ timer[a] = "armed"
  /\ timer' = [timer EXCEPT ![a] = "fired"]
  /\ Post(<<"died", a>>)
  /\ UNCHANGED <<procVars, conn, loop, agentMaps, policyVars, sandboxVars,
                 callVars, frontendVars, outcome>>

-----------------------------------------------------------------------------
(* The event loop: frontends *)

OnFrontendConnected(f) ==
  /\ Take("fconn", f)
  /\ frontends' = frontends \cup {f}
  /\ UNCHANGED <<procVars, connVars, loop, agentMaps, policyVars, sandboxVars,
                 callVars, session, prompts, commands, outcome>>

OnFrontendDisconnected(f) ==
  /\ Take("fdisc", f)
  /\ frontends' = frontends \ {f}
  /\ UNCHANGED <<procVars, connVars, loop, agentMaps, policyVars, sandboxVars,
                 callVars, session, prompts, commands, outcome>>

\* A message reaches agent a if its process is alive.
Receives(a, message) ==
  IF proc[a] = "running"
  THEN first' = IF first[a] = "none" THEN [first EXCEPT ![a] = message] ELSE first
  ELSE UNCHANGED first

\* The message goes to whichever agent the map iterates first; send.agent_id is
\* not looked at.
OnSendMessage(f) ==
  /\ Take("send", f)
  /\ \/ agents = {} /\ UNCHANGED <<first, mail>>
     \/ \E a \in agents :
          /\ Receives(a, "other")
          /\ mail' = IF proc[a] = "running" THEN [mail EXCEPT ![a] = @ + 1] ELSE mail
  /\ UNCHANGED <<proc, ready, connVars, loop, agentMaps, policyVars, sandboxVars,
                 callVars, frontendVars, outcome>>

\* Mutant: the entry is looked up, not removed.
OnApprovalResponseKeepsEntry(c, decision) ==
  /\ Take(decision, c)
  /\ answer' = IF answer[c] = "none" THEN [answer EXCEPT ![c] = decision] ELSE answer
  /\ IF c \in pending
     THEN /\ overlay' = IF decision = "session"
                        THEN overlay \cup {<<Owner[c], ToolOf[c]>>} ELSE overlay
          /\ IF decision \in Approval
             THEN phase' = [phase EXCEPT ![c] = "granted"] /\ UNCHANGED basis
             ELSE /\ phase' = [phase EXCEPT ![c] = "settled"]
                  /\ basis' = [basis EXCEPT ![c] = "refusal"]
     ELSE UNCHANGED <<overlay, phase, basis>>
  /\ UNCHANGED <<procVars, connVars, loop, agentMaps, verdict, reloads, sandboxVars,
                 reachable, effects, replies, audits, pending, frontendVars, outcome>>

\* Mutant: an approval for once is remembered for the session.
OnApprovalResponseRemembers(c, decision) ==
  /\ Take(decision, c)
  /\ answer' = IF answer[c] = "none" THEN [answer EXCEPT ![c] = decision] ELSE answer
  /\ IF c \in pending
     THEN /\ pending' = pending \ {c}
          /\ overlay' = IF decision \in Approval
                        THEN overlay \cup {<<Owner[c], ToolOf[c]>>} ELSE overlay
          /\ IF decision \in Approval
             THEN phase' = [phase EXCEPT ![c] = "granted"] /\ UNCHANGED basis
             ELSE /\ phase' = [phase EXCEPT ![c] = "settled"]
                  /\ basis' = [basis EXCEPT ![c] = "refusal"]
     ELSE UNCHANGED <<pending, overlay, phase, basis>>
  /\ UNCHANGED <<procVars, connVars, loop, agentMaps, verdict, reloads, sandboxVars,
                 reachable, effects, replies, audits, frontendVars, outcome>>

\* The first answer takes the pending entry and wakes the resolver; a later
\* answer to the same request finds no entry.
OnApprovalResponse(c, decision) ==
  /\ Take(decision, c)
  /\ answer' = IF answer[c] = "none" THEN [answer EXCEPT ![c] = decision] ELSE answer
  /\ IF c \in pending
     THEN /\ pending' = pending \ {c}
          /\ overlay' = IF decision = "session"
                        THEN overlay \cup {<<Owner[c], ToolOf[c]>>} ELSE overlay
          /\ IF decision \in Approval
             THEN phase' = [phase EXCEPT ![c] = "granted"] /\ UNCHANGED basis
             ELSE /\ phase' = [phase EXCEPT ![c] = "settled"]
                  /\ basis' = [basis EXCEPT ![c] = "refusal"]
     ELSE UNCHANGED <<pending, overlay, phase, basis>>
  /\ UNCHANGED <<procVars, connVars, loop, agentMaps, verdict, reloads, sandboxVars,
                 reachable, effects, replies, audits, frontendVars, outcome>>

\* spawn_agent failed: the frontend (or the log) is told, nothing is kept.
SpawnFails(kind, a) ==
  /\ Take(kind, a)
  /\ proc' = [proc EXCEPT ![a] = "exited"]
  /\ UNCHANGED <<first, ready, mail, connVars, loop, agentMaps, policyVars,
                 sandboxVars, callVars, frontendVars, outcome>>

OnSpawnAgent(a) ==
  /\ Take("spawn", a)
  /\ proc' = [proc EXCEPT ![a] = "running"]
  /\ children' = children \cup {a}
  /\ conn' = [conn EXCEPT ![a] = "auth"]
  /\ UNCHANGED <<first, ready, mail, timer, loop, agents, headless, policyVars,
                 sandboxVars, callVars, frontendVars, outcome>>

\* Mutant: the agent gets its handle when it is spawned, not when it connects.
OnScheduledJobRegisters(a) ==
  /\ Take("job", a)
  /\ proc' = [proc EXCEPT ![a] = "running"]
  /\ children' = children \cup {a}
  /\ agents' = agents \cup {a}
  /\ headless' = headless \cup {a}
  /\ conn' = [conn EXCEPT ![a] = "auth"]
  /\ timer' = [timer EXCEPT ![a] = "armed"]
  /\ UNCHANGED <<first, ready, mail, loop, policyVars,
                 sandboxVars, callVars, frontendVars, outcome>>

OnScheduledJob(a) ==
  /\ Take("job", a)
  /\ proc' = [proc EXCEPT ![a] = "running"]
  /\ children' = children \cup {a}
  /\ headless' = headless \cup {a}
  /\ conn' = [conn EXCEPT ![a] = "auth"]
  /\ timer' = [timer EXCEPT ![a] = "armed"]
  /\ UNCHANGED <<first, ready, mail, loop, agents, policyVars,
                 sandboxVars, callVars, frontendVars, outcome>>

\* Shutdown to a live agent, kill the child, forget the agent; the sandbox is
\* destroyed once the mutex is free (Cleanup).
OnKillAgent(a) ==
  /\ Take("kill", a)
  /\ proc' = IF a \in children THEN [proc EXCEPT ![a] = "exited"] ELSE proc
  /\ IF a \in agents THEN Receives(a, "other") ELSE UNCHANGED first
  /\ children' = children \ {a}
  /\ agents' = agents \ {a}
  /\ headless' = headless \ {a}
  /\ loop' = <<"cleanup", a>>
  /\ UNCHANGED <<ready, mail, connVars, policyVars, sandboxVars, callVars,
                 frontendVars, outcome>>

-----------------------------------------------------------------------------
(* The event loop: agents *)

OnAgentConnected(a) ==
  /\ Take("conn", a)
  /\ agents' = agents \cup {a}
  /\ loop' = <<"connect", a>>
  /\ UNCHANGED <<procVars, connVars, children, headless, policyVars, sandboxVars,
                 callVars, frontendVars, outcome>>

\* With the sandbox mutex: spawn a sandbox (a failure is only logged), then
\* send Init.
FinishConnect(a) ==
  /\ loop = <<"connect", a>>
  /\ lock = Nobody
  /\ sandboxes' \in {sandboxes, sandboxes \cup {a}}
  /\ Receives(a, "init")
  /\ loop' = Idle
  /\ UNCHANGED <<proc, ready, mail, connVars, events, agentMaps, policyVars, lock,
                 callVars, frontendVars, outcome>>

\* Mutant: headless_agents.get instead of remove.
SettlesAgain(a, how) ==
  /\ UNCHANGED headless
  /\ outcome' = IF a \in headless THEN [outcome EXCEPT ![a] = Append(@, how)]
                ELSE outcome

\* A headless agent is settled: its job's outcome is journalled.
Settles(a, how) ==
  /\ headless' = headless \ {a}
  /\ outcome' = IF a \in headless THEN [outcome EXCEPT ![a] = Append(@, how)]
                ELSE outcome

\* Mutant: try_lock, giving up on the sandbox when a tool is running.
OnAgentDiedTryLock(a) ==
  /\ Take("died", a)
  /\ Settles(a, "died")
  /\ agents' = agents \ {a}
  /\ loop' = IF lock = Nobody THEN <<"cleanup", a>> ELSE Idle
  /\ UNCHANGED <<procVars, connVars, children, policyVars, sandboxVars, callVars,
                 frontendVars>>

OnAgentDied(a) ==
  /\ Take("died", a)
  /\ Settles(a, "died")
  /\ agents' = agents \ {a}
  /\ loop' = <<"cleanup", a>>
  /\ UNCHANGED <<procVars, connVars, children, policyVars, sandboxVars, callVars,
                 frontendVars>>

\* With the sandbox mutex: destroy the agent's sandbox, then broadcast Dead.
Cleanup(a) ==
  /\ loop = <<"cleanup", a>>
  /\ lock = Nobody
  /\ sandboxes' = sandboxes \ {a}
  /\ loop' = Idle
  /\ UNCHANGED <<procVars, connVars, events, agentMaps, policyVars, lock,
                 callVars, frontendVars, outcome>>

\* Sets the status and broadcasts it, even for an agent without a handle.
OnReady(a) ==
  /\ Take("ready", a)
  /\ UNCHANGED <<procVars, connVars, loop, agentMaps, policyVars, sandboxVars,
                 callVars, frontendVars, outcome>>

OnResponseDone(a) ==
  /\ Take("done", a)
  /\ Settles(a, "completed")
  /\ UNCHANGED <<procVars, connVars, loop, children, agents, policyVars, sandboxVars,
                 callVars, frontendVars>>

\* The agent is forgotten; neither its process nor its sandbox is touched.
OnAgentError(a) ==
  /\ Take("error", a)
  /\ Settles(a, "error")
  /\ agents' = agents \ {a}
  /\ UNCHANGED <<procVars, connVars, loop, children, policyVars, sandboxVars,
                 callVars, frontendVars>>

-----------------------------------------------------------------------------
(* The event loop: tool calls *)

\* PolicyEngine::evaluate: the session overlay first, then the static policy.
Evaluate(a, t) == IF <<a, t>> \in overlay THEN "allow" ELSE verdict[t]

\* An answer reaches the agent if the sender holds a handle and the process lives.
Tells(c, what, holdsHandle) ==
  replies' = IF holdsHandle /\ proc[Owner[c]] = "running"
             THEN [replies EXCEPT ![c] = Append(@, what)] ELSE replies

\* supervisor_health is answered by the loop itself.
OnHealthCall(c) ==
  /\ Take("call", c)
  /\ ToolOf[c] = Health
  /\ basis' = [basis EXCEPT ![c] = "health"]
  /\ phase' = [phase EXCEPT ![c] = "done"]
  /\ Tells(c, "result", Owner[c] \in agents)
  /\ UNCHANGED <<procVars, connVars, loop, agentMaps, policyVars, sandboxVars,
                 reachable, effects, audits, pending, answer, frontendVars, outcome>>

\* Refused by the registry (on = "invalid") or by the policy ("denied").
Reject(c, on) ==
  /\ basis' = [basis EXCEPT ![c] = on]
  /\ phase' = [phase EXCEPT ![c] = "done"]
  /\ Tells(c, "denied", Owner[c] \in agents)
  /\ audits' = [audits EXCEPT ![c] = Append(@, "deny")]
  /\ UNCHANGED <<loop, reachable, pending, prompts>>

\* The loop itself runs the tool (Execute, Answer, Journal).
AllowNow(c) ==
  /\ basis' = [basis EXCEPT ![c] = "policy"]
  /\ phase' = [phase EXCEPT ![c] = "granted"]
  /\ loop' = <<"tool", c>>
  /\ UNCHANGED <<reachable, replies, audits, pending, prompts>>

\* The connected frontends are asked and a resolver task, with a copy of the
\* agents map, waits for the first answer.
AskUser(c) ==
  /\ basis' = [basis EXCEPT ![c] = "user"]
  /\ phase' = [phase EXCEPT ![c] = "asked"]
  /\ pending' = pending \cup {c}
  /\ prompts' = [f \in Frontend |-> IF f \in frontends THEN prompts[f] \cup {c}
                                    ELSE prompts[f]]
  /\ reachable' = IF Owner[c] \in agents THEN reachable \cup {c} ELSE reachable
  /\ UNCHANGED <<loop, replies, audits>>

OnToolCall(c) ==
  /\ Take("call", c)
  /\ ToolOf[c] # Health
  /\ \/ Reject(c, "invalid")
     \/ Evaluate(Owner[c], ToolOf[c]) = "deny"  /\ Reject(c, "denied")
     \/ Evaluate(Owner[c], ToolOf[c]) = "allow" /\ AllowNow(c)
     \/ Evaluate(Owner[c], ToolOf[c]) = "ask"   /\ AskUser(c)
  /\ UNCHANGED <<procVars, connVars, agentMaps, policyVars, sandboxVars, effects,
                 answer, frontends, session, commands, outcome>>

-----------------------------------------------------------------------------
(* Running a granted call: the loop for an allowed one, the resolver task for *)
(* one the user approved                                                      *)

AcquireSandbox(c) ==
  /\ phase[c] = "granted"
  /\ lock = Nobody
  /\ lock' = c
  /\ phase' = [phase EXCEPT ![c] = "running"]
  /\ UNCHANGED <<procVars, connVars, events, loop, agentMaps, policyVars, sandboxes,
                 basis, reachable, effects, replies, audits, pending, answer,
                 frontendVars, outcome>>

\* Without a sandbox the execution fails and has no effect.
Execute(c) ==
  /\ phase[c] = "running"
  /\ lock' = Nobody
  /\ effects' = IF Owner[c] \in sandboxes THEN [effects EXCEPT ![c] = @ + 1]
                ELSE effects
  /\ phase' = [phase EXCEPT ![c] = "settled"]
  /\ UNCHANGED <<procVars, connVars, events, loop, agentMaps, policyVars, sandboxes,
                 basis, reachable, replies, audits, pending, answer, frontendVars,
                 outcome>>

\* Mutant: the agent is answered while the tool has yet to run.
AnswerEarly(c) ==
  /\ phase[c] \in {"granted", "settled"}
  /\ Tells(c, IF basis[c] = "refusal" THEN "denied" ELSE "result",
           IF basis[c] = "policy" THEN Owner[c] \in agents ELSE c \in reachable)
  /\ phase' = [phase EXCEPT ![c] = "replied"]
  /\ UNCHANGED <<procVars, connVars, events, loop, agentMaps, policyVars, sandboxVars,
                 basis, reachable, effects, audits, pending, answer, frontendVars,
                 outcome>>

\* Mutant: the handler gives up when the agent is gone.
AnswerOrGiveUp(c) ==
  /\ phase[c] = "settled"
  /\ Owner[c] \in agents
  /\ Tells(c, IF basis[c] = "refusal" THEN "denied" ELSE "result",
           IF basis[c] = "policy" THEN Owner[c] \in agents ELSE c \in reachable)
  /\ phase' = [phase EXCEPT ![c] = "replied"]
  /\ UNCHANGED <<procVars, connVars, events, loop, agentMaps, policyVars, sandboxVars,
                 basis, reachable, effects, audits, pending, answer, frontendVars,
                 outcome>>

\* The outcome, or the user's refusal, goes to the agent: through the map for a
\* call the loop ran, through the resolver's copy for one the user was asked.
Answer(c) ==
  /\ phase[c] = "settled"
  /\ Tells(c, IF basis[c] = "refusal" THEN "denied" ELSE "result",
           IF basis[c] = "policy" THEN Owner[c] \in agents ELSE c \in reachable)
  /\ phase' = [phase EXCEPT ![c] = "replied"]
  /\ UNCHANGED <<procVars, connVars, events, loop, agentMaps, policyVars, sandboxVars,
                 basis, reachable, effects, audits, pending, answer, frontendVars,
                 outcome>>

\* Mutant: a refusal is journalled like an approval.
JournalAsk(c) ==
  /\ phase[c] = "replied"
  /\ audits' = [audits EXCEPT ![c] =
                  Append(@, IF basis[c] = "policy" THEN "allow" ELSE "ask")]
  /\ phase' = [phase EXCEPT ![c] = "done"]
  /\ loop' = IF loop = <<"tool", c>> THEN Idle ELSE loop
  /\ UNCHANGED <<procVars, connVars, events, agentMaps, policyVars, sandboxVars,
                 basis, reachable, effects, replies, pending, answer, frontendVars,
                 outcome>>

\* ... and only then is the decision journalled.
Journal(c) ==
  /\ phase[c] = "replied"
  /\ audits' = [audits EXCEPT ![c] =
                  Append(@, CASE basis[c] = "policy"  -> "allow"
                              [] basis[c] = "user"    -> "ask"
                              [] basis[c] = "refusal" -> "deny")]
  /\ phase' = [phase EXCEPT ![c] = "done"]
  /\ loop' = IF loop = <<"tool", c>> THEN Idle ELSE loop
  /\ UNCHANGED <<procVars, connVars, events, agentMaps, policyVars, sandboxVars,
                 basis, reachable, effects, replies, pending, answer, frontendVars,
                 outcome>>

-----------------------------------------------------------------------------

UserStep(f) ==
  \/ FrontendConnects(f)
  \/ FrontendDisconnects(f)
  \/ \E c \in Call, d \in Decision : UserAnswers(f, c, d)
  \/ \E a \in Agent : UserSpawns(f, a) \/ UserKills(f, a)
  \/ UserSends(f)

AgentStep(a) ==
  \/ Authenticates(a)
  \/ BecomesReady(a)
  \/ \E how \in {"done", "error"} : EndsTurn(a, how)
  \/ Exits(a)

TaskStep(a) ==
  \/ AuthFails(a)
  \/ ReadFails(a)
  \/ HeartbeatTimeout(a)
  \/ WatchdogFires(a)

OnFrontendEvent(f) ==
  \/ OnFrontendConnected(f)
  \/ OnFrontendDisconnected(f)
  \/ OnSendMessage(f)

OnAgentEvent(a) ==
  \/ OnSpawnAgent(a) \/ SpawnFails("spawn", a)
  \/ OnScheduledJob(a) \/ SpawnFails("job", a)
  \/ OnKillAgent(a)
  \/ OnAgentConnected(a) \/ FinishConnect(a)
  \/ OnAgentDied(a) \/ Cleanup(a)
  \/ OnReady(a)
  \/ OnResponseDone(a)
  \/ OnAgentError(a)

OnCallEvent(c) ==
  \/ OnHealthCall(c)
  \/ OnToolCall(c)
  \/ \E d \in Decision : OnApprovalResponse(c, d)

RunStep(c) == AcquireSandbox(c) \/ Execute(c) \/ Answer(c) \/ Journal(c)

Next ==
  \/ \E f \in Frontend : UserStep(f) \/ OnFrontendEvent(f)
  \/ \E a \in Agent : JobDue(a) \/ AgentStep(a) \/ TaskStep(a) \/ OnAgentEvent(a)
  \/ \E c \in Call : CallsTool(c) \/ OnCallEvent(c) \/ RunStep(c)
  \/ PolicyReloads

Spec == Init /\ [][Next]_vars

LoopStep ==
  \/ \E f \in Frontend : OnFrontendEvent(f)
  \/ \E a \in Agent : OnAgentEvent(a)
  \/ \E c \in Call : OnCallEvent(c)

\* The runtime polls every task that can make progress: the loop, the tool runs
\* (assuming a tool ends: the guest runs it without a timeout) and the tasks
\* that notice a closed socket or a deadline.  Nothing is assumed of users,
\* agents, the scheduler or reloads.
Fairness ==
  /\ WF_vars(LoopStep)
  /\ \A c \in Call : WF_vars(RunStep(c))
  /\ \A a \in Agent : SF_vars(AuthFails(a)) /\ SF_vars(ReadFails(a))
                      /\ SF_vars(WatchdogFires(a))

FairSpec == Spec /\ Fairness

-----------------------------------------------------------------------------
(* Properties *)

\* A call takes effect only if the static policy or the session overlay allowed
\* it, or the first answer the loop handled for it was an approval: a second
\* frontend's later approval never overrides a refusal (pending_approvals.remove
\* before resolve.send).
EffectNeedsConsent ==
  \A c \in Call : effects[c] > 0 =>
     basis[c] = "policy" \/ (basis[c] = "user" /\ answer[c] \in Approval)

\* However answers, deaths and kills interleave, a call is executed, answered
\* and journalled at most once.
HandledOnce ==
  \A c \in Call : effects[c] <= 1 /\ Len(replies[c]) <= 1 /\ Len(audits[c]) <= 1

\* The audit log tells the truth about a call that is over: `deny` means it had
\* no effect and the agent saw no result, `ask` means a user approved it, and
\* whatever had an effect is journalled as allowed or approved.
AuditTellsTruth ==
  \A c \in Call : (phase[c] = "done" /\ basis[c] # "health") =>
     /\ audits[c] # <<>>
     /\ audits[c] = <<"deny">> => effects[c] = 0 /\ replies[c] \in {<<>>, <<"denied">>}
     /\ audits[c] = <<"ask">>  => answer[c] \in Approval
     /\ effects[c] > 0 => audits[c] \in {<<"allow">>, <<"ask">>}

\* A scheduled job's outcome is journalled at most once, whichever of its
\* completion, an error, its death, the watchdog and a kill come first, and a job
\* still listed as running has none (headless_agents.remove decides).
OutcomeOnce ==
  \A a \in Agent : Len(outcome[a]) <= 1 /\ (a \in headless => outcome[a] = <<>>)

\* The first message an agent receives is Init, even when a user message, a
\* kill or the watchdog race its connection: pince_agent gives up on any other.
InitFirst == \A a \in Agent : first[a] # "other"

\* A session allow exists only for an agent and a tool of a call that a user
\* approved for the session.
OverlayJustified ==
  \A p \in overlay : \E c \in Call :
     p = <<Owner[c], ToolOf[c]>> /\ answer[c] = "session"

Queued(kind, a) == \E i \in DOMAIN events : events[i] = <<kind, a>>

\* Once an agent's connection task has ended and the loop has caught up with it,
\* no handle and no sandbox of it is left, whatever order its connection, its
\* death, the watchdog and a kill were handled in.
NothingLeftBehind ==
  \A a \in Agent :
     (conn[a] = "closed" /\ ~Queued("died", a) /\ loop \notin {<<"cleanup", a>>})
       => a \notin agents /\ a \notin sandboxes

\* An agent whose process ended is eventually forgotten for good, sandbox
\* included: no late connection or death event brings it back.
DeathIsNoticed ==
  \A a \in Agent :
     (proc[a] = "exited") ~> [](a \notin agents /\ a \notin sandboxes)

\* Every scheduled job is eventually settled: it does not stay listed as running.
JobsSettle == \A a \in Scheduled : (a \in headless) ~> (a \notin headless)

\* A call that was decided is eventually journalled, whatever happens to its
\* agent in the meantime.
DecidedCallsClose ==
  \A c \in Call : (phase[c] \in {"granted", "settled"}) ~> (phase[c] = "done")

\* The supervisor implements the gate of ToolGate: what its variables say of a
\* call, in the gate's terms.
GateVerdict(c) ==
  CASE phase[c] \in {"new", "sent"} -> "none"
    [] phase[c] = "asked" -> "asked"
    [] OTHER -> IF basis[c] \in {"invalid", "denied", "refusal"} THEN "refused"
                ELSE "granted"

GateStage(c) ==
  CASE phase[c] = "settled" -> "settled"
    [] phase[c] = "replied" -> "answered"
    [] phase[c] = "done"    -> "closed"
    [] OTHER -> "open"

GateTold(c) == IF replies[c] = <<>> THEN "nothing" ELSE Head(replies[c])

Gate == INSTANCE ToolGate WITH
  verdict <- [c \in Call |-> GateVerdict(c)],
  stage   <- [c \in Call |-> GateStage(c)],
  took    <- {c \in Call : effects[c] > 0},
  told    <- [c \in Call |-> GateTold(c)]

ImplementsGate == Gate!Spec
=============================================================================
