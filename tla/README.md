# A TLA+ model of pince

pince is a local agent framework: one trusted supervisor process starts
sub-agents, gates every tool call they make by a permission policy (asking the
user when the policy says so), runs granted calls in a sandbox per agent and
journals its decisions. This directory holds TLA+ modules that model its core,
TLC configurations that check them on small instances, and proofs for the TLA+
proof system of what matters most. Paths below are relative to the repository;
`S` stands for `crates/supervisor/src/supervisor.rs`.

Every check is one of

    tlc -workers 2 -config MCApprovals.cfg MCSupervisor.tla
    tlapm SupervisorProofs.tla

`PROJECT.json` lists the runs, the theorems, the source lines behind each
definition, the hazards the properties are aimed at, and for each property a
mutant: an altered definition (named after the original, e.g. `JournalAsk`
before `Journal`) under which TLC finds the property violated.

## Inventory

| component | state it keeps | operations | talks to |
|---|---|---|---|
| supervisor event loop (`S`) | `agents`, `children`, `headless_agents`, `frontends`, `pending_approvals` | one handler per event, one event at a time | everyone, by one channel of 256 events inwards and a channel of 64 messages per peer outwards |
| resolver tasks (S:810) | a copy of the agents map, the call | wait for the user, execute, answer, journal | pending entry (oneshot), sandbox mutex, agent channel, audit log |
| connection tasks (S:926, S:982) | reader, writer, heartbeat time | read, post events, detect the end of a peer | event channel, sockets |
| watchdog of a job (S:347) | a deadline | post `AgentDied` | event channel |
| spawning and authentication (`spawn.rs`, `auth.rs`) | child process, one-time token | spawn, check the token | event channel |
| audit log (`audit.rs`) | a file | append | - |
| permission engine (`permission-engine/src`) | merged policy, session overlay | load, evaluate, session allow, reload | called by the loop, replaced by the reload task |
| hot reload (`reload.rs`) | watcher, channel of 4 tokens | notify, debounce, drain, reload | the two policy files, the engine |
| scheduler (`scheduler/src`) | jobs, last fired minutes, interval | check all jobs every 60 s | channel of 32 to a bridge into the event channel |
| wire protocol (`protocol/src`, `agent/codec.py`) | bytes in flight | write and read a length-prefixed message | both ends of every socket |
| agent process (`agent/pince_agent`) | conversation | read a message, run an LLM turn, call a tool, heartbeat | its socket, the LLM service |
| CLI frontend (`cli/src/main.rs`) | a channel of 16 lines, a channel of requests, a lock on stdin | handshake, chat, prompt, print, end | its socket, the user |
| sandbox (`sandbox/src`) | a map of agents to a VM process and a vsock stream; the guest agent in each VM | spawn with a boot timeout, execute, destroy; the mock runs tools in the supervisor's process | the VM; one mutex in the supervisor around every operation |
| tool registry (`tool-registry/src`) | schemas and handlers | validate, execute, list | the loop |
| MCP client (`tool-registry/src/mcp`) | request counter, pending map, reader task | spawn and initialize, list, call | a tool server's stdin and stdout; not started by the supervisor yet |
| memory backend (`tool-registry/src/memory`) | the client behind a mutex | search, get, status, stop; four tools over it | the MCP client; not started by the supervisor yet |
| secrets (`secrets/src`) | a directory of files | get, set, resolve references, guard paths | injection is a no-op in the supervisor |

The hard behaviours: the loop is sequential, but everything that feeds it is
not. Approvals, deaths, kills, watchdogs and completions of one agent arrive in
any order; resolver tasks go on with a copy of the loop's state after the loop
has moved on; the sandbox mutex is shared by the loop and the resolvers; policy
files are edited while they are read; the scheduler falls behind its clock; a
read of a frame is dropped half way by a timer; a VM does not boot, crashes or
sends what the host will not take; a tool server stops answering. And every
queue between a user, the loop and an agent is bounded, the loop waits inside
its handlers for room in them, and each end has several tasks of its own. The
list of hazards, each at its line, is in `PROJECT.json`.

What makes each component correct:

- *loop and resolvers*: no effect without consent, each call handled once, a
  truthful journal, a session allow only for what the user allowed; one outcome
  per job; `Init` first; nothing left of a dead agent; everything decided closes;
- *policy*: the project file never grants, a global denial stands, edits are not
  lost, the engine converges to the files;
- *session of a user, the loop and an agent*: lines and results arrive once and in
  order; requests for approval do not vanish; the loop always comes back; an agent
  is dropped only for a failure of the service, an interjected line or a tool's result;
- *validation and memory tools*: what a schema forbids does not get through; schema
  and handler agree; paths stay in the store;
- *scheduler*: once a minute, nothing at startup, never more firings than minutes,
  and what a punctual tick sees in reach does fire;
- *framing*: a reliable pipe until an end fails;
- *sandbox*: each call runs at most once, in a live sandbox, before its result is
  reported, and gets its own result or none; no VM outlives its entry unnoticed;
  every operation ends, as the others wait for it;
- *MCP client*: each call gets the response to its own request and never another's
  (or null, when the server sends a request of its own under that id), the pending
  map holds who waits, and what was answered returns.

## Modules

| module | what it is |
|---|---|
| `ToolGate` | abstract: what is promised about every tool call |
| `Supervisor` | the loop, the tasks around it, agents and frontends; implements `ToolGate` |
| `Policy` | pure: rules, evaluation, validation, merging |
| `PolicyReload` | the reload task and the notify thread, over `Policy` |
| `Scheduler` | the cron scheduler, its channel, a clock that outruns it |
| `MessagePipe` | abstract: a reliable connection |
| `FrameStream` | one direction of a socket, cell by cell; implements `MessagePipe` |
| `Executor` | abstract: what the supervisor takes a sandbox backend to do |
| `Sandbox` | both backends, the VMs and the guests; implements `Executor` |
| `McpClient` | the JSON-RPC client of a tool server and its two owners |
| `AgentLoop` | the agent process: conversation, turns, tool calls |
| `Cli` | the command line frontend: main loop, printing task, stdin thread |
| `Session` | `AgentLoop`, `Cli` and the event loop with bounded channels between them |
| `Arguments` | validation, the memory tools, secret references |
| `MC*` | the instances TLC checks |
| `PolicyProofs`, `SupervisorProofs`, `SchedulerProofs`, `FrameProofs`, `SandboxProofs`, `McpProofs`, `SessionProofs`, `ArgumentsProofs` | theorems about the module of that name (`PolicyProofs`: about `PolicyReload` too) |

### Supervisor

The maps of the struct are the sets `agents`, `children`, `headless`,
`frontends`, `pending`; the event channel is the queue `events`, bounded by
`Cap`. One action per event takes the head of the queue while `loop = Idle`.
A handler is one step up to the point where it waits for something other than
its own state. There it is split and `loop` holds the rest of it:
`OnAgentConnected` / `FinishConnect` and `OnAgentDied` (or `OnKillAgent`) /
`Cleanup` wait for the sandbox mutex `lock`, and an allowed call runs inside the
loop as `AcquireSandbox`, `Execute`, `Answer`, `Journal`. The same four actions
are the resolver task of a call the user approved, then concurrent with the
loop. `phase[c]` is where the handling of a call is, `basis[c]` what it was
decided on.

An agent is `unborn`, `due` (its spawn is queued), `running`, `exited`; `conn`
is its connection task. `mail[a]` counts the prompts it has yet to answer with
the end of a turn, so that `CallsTool` and `EndsTurn` happen only in a turn it
was given (`agent.py`). `first[a]` is the first message it received.
`reachable` are the asked calls whose resolver copied a handle of the agent.

Abstractions. Channels to agents and frontends are never full here (`Session` is
about what happens when they are). An agent id is used once, as the uuid it is, and request ids differ (they are ids of the LLM
service). Status and heartbeat values have no modelled effect, as nothing else in
the loop depends on them; response chunks, the agent list and the frontend's
`Auth` message are in `Session`. `AuthFails` happens only after the process is gone, since the
supervisor itself passes the token; a process that is gone may have left its token in
the socket, so `Authenticates` does not ask whether it runs. `Reject(c, "invalid")` stands for schema
validation and may happen to any call. The static policy is `verdict`, a policy
action per tool, which `PolicyReloads` replaces at any time; what it may be is
the business of `Policy`. The supervisor does not crash: it keeps no state to
recover but the log. `answer` and `outcome` are history.

### Policy and PolicyReload

A rule's conditions are the set of arguments they accept: glob and regex
matching is data. `PolicyReload` starts where `PolicyEngine::load` succeeded
(otherwise the supervisor does not start) and before the watcher runs: an edit
in between, or of a file whose directory did not exist when the watcher
started, is recorded in `missed`. `policy` and `source` change in `Install`
only; `source` (history) is the pair of files the policy was merged from.

### Scheduler

Time is an integer clock with `Second` units to a second and `Minute` to a
minute; `deadline` is the interval's next tick, which advances by a minute at a
time whatever the delay (tokio's burst behaviour). A check walks through the
jobs one by one, with its own `now` (`seen`) taken once, and may block in
`SendDue`. `TimePasses` is free, so the scheduler may be arbitrarily late;
`late` (history) says that it was. A schedule is a period and an offset below it;
a minute is assumed to last two seconds at least (it lasts sixty), so that what one
tick has in reach is past before the next.

One thing the run shows that no property forbids: the deduplication is by the
minute of the check, so a burst of ticks across a minute boundary can fire the
same occurrence twice (`OncePerMinute` is the exact guarantee).

### FrameStream

A byte is a cell `<<k, i>>`, the i-th of the k-th frame. A read that starts at
the head of a frame sees its length; one that starts elsewhere sees any length.
`timer` tells the two kinds of reader apart: the agent reader of the supervisor
waits in a `select!` with a 5 s interval and loses a half read frame when the
interval wins (`TickFires`); the frontend reader, the CLI and the agent read
without a timer. The end of that loop by a heartbeat timeout is in `Supervisor`.

### Sandbox

The supervisor holds one mutex for the whole of `spawn`, `execute` or `destroy`,
so `op` is the one operation in progress; `sandboxes` is the manager's map. The
machines (`vm`, `signalled`), the guest's loop (`guest`) and the two directions
of each vsock stream (`toGuest`, `toHost`) go on beside it. `Supervisor` keeps of
this only that an execution ends and may fail; `Executor` is the contract it
needs, and `ImplementsExecutor` says that both backends keep it.

- *spawn* is `BeginSpawn`, then `StartMachine` and `Connects` or `BootTimesOut`
  (`MockSpawns` for the mock); `SpawnFails` stands for every step that fails
  before there is a process. A timeout drops the instance, whose process is not
  killed on drop: `abandoned`.
- *execute* is `BeginExecute`, `SendFrame`, then one of `RecvFrame`,
  `RecvTooLarge`, `RecvFails`. A frame carries no request id. A response above
  64 MiB is refused after its 4-byte length was read; the body stays (`Rest`) and
  is taken for the next response. It is JSON text, whose bytes are all at least
  0x20, so four of them are never a length up to 64 MiB and the next call is
  refused as well, and so on: the body is never drained and the guest never
  leaves its write (`stuck`).
- *destroy* removes the entry first; the shutdown request and SIGKILL go out
  together (`StopMachine`), then the process is waited for.
- the mock's shell commands outlive their timeout (`ForgottenCommandEnds`).

An agent id is spawned once, as the uuid it is. What a tool does to files is its
success or failure. A request above 64 MiB, which `send_frame` would send and the
guest refuse (guest/main.rs:157), cannot come from an agent, whose messages are at
most 16 MiB. Two things are left out as they change nothing: the guest's
acknowledgement of a shutdown, which nobody reads, and a response that is no valid
JSON, which ends a call as an error of its tool does. `Bulky` requests are the
ones that do not fit in the socket's buffers. A machine may crash at any time,
with or without what it had sent. `ran` is history as far as the host is
concerned.

### McpClient

`TakeId`, `Register`, `SendRaw`, `Return` are the steps of a call between which
other calls run: the counter, the map and stdin have three separate locks.
`Dispatch` and `ReaderEnds` are the reader task. `guarded` tells the two owners
apart: the loader shares the client between handlers that call it concurrently,
the memory backend holds its mutex (`lock`) for the whole of a call, and `Stop`
and `DropClient` wait for it. The server answers with the id of a request it
has read, in any order and perhaps twice, writes notifications, lines that are
not JSON (`Noise`) or not UTF-8 (`Garbled`), and exits at any time. It may also
make requests of its own (`ServerAsks`), as MCP lets it, numbered by a sequence of
its own (`OwnIds`). A `JsonRpcResponse` needs neither `result` nor `error`
(mcp/mod.rs:43-50) and the reader looks at the id only (client.rs:70-76), so such a
line is `Dispatch`ed as the response of the call that has its id, which then returns
`Null` (client.rs:172). A handshake is content with that; a listing is not, nor with
an `ok` that has no usable list of tools (`ClientAfter`). The pipe to
the server is never full. `answered` and `asked` are history.

### Session, AgentLoop, Cli

`Supervisor` has many agents, frontends and calls and unbounded outward channels;
`Session` has one of each end, whole, and every queue bounded.

- `AgentLoop` is `agent_loop` and `process_llm_turn`: `ReadMessage` appends what
  it reads to `conv` and starts a turn; `StreamText`, `UseTool`, `EndTurn`,
  `ModelFails` are the ways a turn goes on and ends. A message is in the pipe
  `out` at once, and the loop goes on when the pipe has drained (`Drained`). The
  service is external: it rejects a conversation in which a tool use and its
  answer are not neighbours or the content of an answer is a JSON object, where it
  takes a string or a list of blocks (`Acceptable`), and may fail by itself (`outage`,
  history). An answer is a `Result`, whose content is the object the supervisor sent,
  parsed and passed on (agent.py:182), or `Denied`, whose content is a string
  (agent.py:197). Heartbeats go out from another task and are left out here.
- `Cli` is `run_chat`: the main loop (`MainTakes`, `MainQuits`), the task that
  prints (`Prints`), the stdin thread (`AwaitLine`, `UserTypes`, `EndOfInput`,
  `TakePrompt`) and the handshake. `locked` is the mutex of stdin, which the
  iterator over lines holds for the thread's life. Rust's `io::stdin().read` in
  the prompt takes it again, and it is not reentrant: no action leaves
  `prompting`. `StopTerminal` is a user who stops the output (`^S`).
- `Session` adds the connection tasks (`Post*`), which wait for room in `events`,
  and the event loop, whose handler is split where it waits for room in the
  channel of the agent (`Telling`) or of the frontend (`Showing`): `loop` is the
  message it waits with. `mail` and `screen` stand for a channel, a writer task
  and a socket buffer together, `link` and `out` for a socket buffer. An exited
  frontend's channel never makes the loop wait (`Hears`): its writer task ends
  with the socket, and a send to it fails at once. The agent may start with a
  line of an earlier frontend (`Earlier`), so that text can overtake a handshake.
  A call is answered at once (allowed, denied, invalid) or asked about, any way
  the policy may have it; as no prompt can be answered, an asked call stays. The
  CLI reads the token from the supervisor's file, so that the refusal of a token
  (S:388) is left out.

`Gridlock` names the state in which the loop waits for the agent's channel, the
agent for its pipe, the reader task for the event channel, and that for the
loop. It takes full queues of 64 and 256 messages and full sockets in the
program, and is reached here with queues of one; every liveness property
excepts it and the stopped terminal (`Excused`), and nothing else.

### Arguments

A behaviour is one call: its arguments are validated against a schema
(`CheckArguments`) and, if they conform, a memory tool handles them (`Execute`).
`Violation` is one level of `validate_inner`: the keywords in the code's order
(`Refuses` says what each refuses), then the properties, and the first violation
wins; `Validate` is the recursion. `ValidatorAgrees` compares it with what is
found at the end of every path into the value and the schema together (`Under`),
in no order. JSON values are tagged pairs; a string is a sequence of tokens, for
a path its segments. `NormalizePath`, the four schemas and the four handlers are
those of `memory/tools.rs`; `Handle` pairs them as `register_all` does, and
`LeadsTo` is where a path leads when it is followed one component at a time.
`HasRefs` and `Resolve` are the two walks of `resolver.rs`; `RefsAgree` compares
both with what is at the ends of paths (`At`).

The values are given in layers, those of `Layers[n]` holding only values of lower
layers. The code's walks are recursive and end because a value is a finite tree
(serde_json refuses to parse more than 128 levels); layers say the same and let
the walks be recursive functions over a set of values, so that they can be
reasoned about. `Schemas` are the schemas of other tools' servers, closed under
their properties.

## Runs

| run | specification | shows | bounds | size |
|---|---|---|---|---|
| MCPolicyReload | `FairSpec` | `ProjectNeverGrants`, `GlobalDenyHolds`, `NoLostEdit`, `Converges`, types | 6 x 5 file contents, channel of 2, 3 edits | 236 k states, 15 s |
| MCApprovals | `Spec` | `EffectNeedsConsent`, `HandledOnce`, `AuditTellsTruth`, `OverlayJustified` | 1 agent, 2 calls of one tool, 2 frontends, queue of 2, 1 command, 1 reload; symmetric | 1.3 M, 90 s |
| MCLifecycle | `Spec` | `OutcomeOnce`, `InitFirst`, `NothingLeftBehind`, types, `ImplementsGate` | 1 scheduled agent with a tool call and a health call, 1 frontend, 2 commands | 691 k, 75 s |
| MCProgress | `FairSpec` | `DeathIsNoticed`, `JobsSettle`, `DecidedCallsClose` | 1 scheduled agent, 1 call, 1 frontend, 1 command | 100 k, 50 s |
| MCScheduler | `Spec` | `OncePerMinute`, `FireBudget`, `PunctualJobsFire` | a job every second and one every minute, channel of 1, 3.5 minutes of 4 s | 416 k states, 10 s |
| MCFrames | `FairSpec` | `ImplementsPipe`, `AllArrive` | sizes 0, 1, the maximum and one more, 3 messages, channel of 2 | 66 k, 10 s |
| MCSandbox | `FairSpec` | `ImplementsExecutor`, `RunsInSandbox`, `NoStrayMachine`, `OperationsEnd` | both backends, 2 agents, 3 calls of one (a huge result, a shell command, a bulky request) and 1 of the other | 62 k, 9 s |
| MCMcpClient | `FairSpec` | `OwnResponse`, `PendingExact`, `AnsweredReturn`, `StopEnds` | both owners, the handshake, the listing, 2 calls, 5 lines from the server, one of them perhaps a request of its own with the id of a call | 353 k, 130 s |
| MCSession | `FairSpec` | `LinesKept`, `ResultsMatchCalls`, `DropsHaveCause`, `RequestsKept`, `LoopResumes`, `MessagesArrive` | every queue holds 1, 2 lines, 2 calls, 1 chunk | 322 k, 150 s |
| MCArguments | `Spec` | `ValidatorAgrees`, `SchemasFitHandlers`, `RequestsStayInside`, `RefsAgree` | schemas and values nested twice (3 layers), paths of 3 segments of 5 kinds | 271 k, 120 s |

Why the bounds are enough: two calls of one agent and one tool is what it takes
for an overlay entry of one call to decide another; two frontends what it takes
for two answers to race; a queue of two what it takes for two events about one
agent to be queued in either order while a third task waits for room; one kill
and the watchdog beside the agent's own death give every order of three deaths.
Three edits give an edit before, during and after a reload. A scheduler that
runs three and a half minutes sees a burst of three ticks. Three calls of one
agent put one before, one after and one at the huge response, the second agent's
call shows that streams do not mix. Five lines are the two of the start, two
answers in either order and one line of noise, a repeated answer or a request of the
server's own, whose id 3 is the first call's of the loader and the second's of the
memory backend. In `Session` a
queue of one fills after one message, so every wait and the cycle of waits occur
(TLC reaches `Gridlock`, an interjected line, a chunk before the handshake's
answer, a refused line and a request nobody hears); two lines and two calls are
what it takes to overtake or double. Two levels of properties are what recursion
of the validator takes once and its base once. `CHECK_DEADLOCK` is
off everywhere: every bounded behaviour ends, and the program really rests when
users and agents do nothing.

Fairness. Tokio polls every task that can make progress, so the reload task, the
two ends of a connection, the loop and each running call are weakly fair.
`AuthFails`, `ReadFails` and `WatchdogFires` are strongly fair: they wait for
room in the event channel together with other tasks, and tokio's channel serves
waiting senders in order. A tool that runs is assumed to end. In `Sandbox` the
operation in progress and the guest's loop are weakly fair and a process that
was sent SIGKILL ends; nothing says that a VM boots. In `McpClient` the steps of
a call and the reader are weakly fair; `DropClient` is strongly fair because
tokio's mutex serves its waiters in order. In `Session` there is one weak condition
for each task that the properties wait for: the agent's loop (the LLM service ends
each answer), the CLI's taking of messages, the event loop. `ConnectionStep` and
`PostFromAgent`, which queue for the event channel against each other, are strongly
fair for the reason above. Nothing is assumed of the rest of the CLI (its main loop
and its stdin thread), of users (who may never type and may stop their terminal), of
the scheduler, of edits or of the tool server, and nothing else of agents.

### Where the code departs from its documentation

Two runs expect a violation; each checks one sentence of the repository.

| run | sentence | what happens |
|---|---|---|
| MCPrompt | cli/src/main.rs:89 the stdin thread "handles both normal input and approval prompts" | the prompt waits for a lock that its own thread holds |
| MCFramesTick | codec.rs:3 the frame format | a read dropped by the timer leaves the next one in the middle of a frame |

More observations, made while modelling and without a run of their own:

- README.md:21 says the agent "receives the result and continues its LLM loop".
  agent.py:182 puts the parsed `result_json` into `content`; every result of the
  supervisor is a JSON object, and the service takes only a string or a list of
  blocks there. It rejects the conversation, the agent reports an error and is
  dropped: the loop goes on after a denial, not after a result. This contract of the
  service is not part of the repository; `DropsHaveCause` has it as one of three causes.
- A request that a tool server makes under the id of a call in flight (a `ping`, say)
  is taken for the response to it, and the call succeeds with null; the response
  proper is then ignored (`OwnResponse` says that nothing else can take its place).
- memory/tools.rs:6-7 says that all handlers "reject anything that escapes the memory
  store directory". A `memory_list` pattern may be absolute (memory/tools.rs:294), so
  `RequestsStayInside` is about the other three handlers.
- README.md:46 says local policies "only tighten": a project `ask` rule turns a
  call that the global file denies by default into one the user is asked about
  (validate_project_local refuses `allow` only). `ProjectNeverGrants` and
  `GlobalDenyHolds` are what does hold.
- S:347 says the watchdog kills an agent that runs too long: `AgentDied` makes the
  loop forget the agent, and nothing ends its process (in `Supervisor`,
  `WatchdogFires` leaves `proc` alone).
- scheduler/src/lib.rs:3-4 says a job fires "whenever a job's schedule matches the
  current time". A check fires only what occurs less than two seconds after the
  tick's phase, set by the start of the scheduler (`InReach`); `PunctualJobsFire` is
  the exact promise.
- A frontend is registered before it authenticates, so a broadcast may be its first
  message, which frontend.rs:51 takes for a failed handshake.
- A line that reaches the agent while a tool call of it is under way comes between
  the call and its result in the conversation (agent.py:171): the service rejects
  that and every later request, and the agent is dropped (`DropsHaveCause` says that
  this, an outage and a tool's result are the only causes).
- `AgentError` (S:636) forgets the handle of a process that lives on: its writer task
  ends once it has written what was queued, and the process reads that and then the
  end of the stream.
- End of input ends the stdin thread only: `run_chat` keeps its own sender
  (main.rs:83), so the main loop waits for ever, and requests that arrive are
  reported as unanswerable.
- Of several tool uses in one answer the last is kept (agent.py:89).
- A `memory_list` pattern is refused for two dots anywhere, in a name too
  (memory/tools.rs:294), a `path` only for a segment of two dots.
- policy.rs:189-190 says "earlier rules in the list win". Evaluation goes by
  action (engine.rs:159), so a later global `allow` beats an earlier project `ask`.
- S:252-253 says that an agent sees "all registered tools except those
  unconditionally denied". The list is computed with null arguments, which no
  condition matches: a tool allowed only under a condition is hidden.
- The answer to `supervisor_health` (S:577-595) is not journalled, though
  README.md:47 says every decision is.
- `SendMessage` goes to an arbitrary agent, its `agent_id` being ignored (S:397).
- manager.rs:134 and firecracker.rs:140-142 speak of a graceful shutdown and of
  SIGTERM; `start_kill` is SIGKILL and follows the request at once.
- The guest ignores `timeout_secs` of `shell_exec`, which the schema of the tool
  (builtin/shell_exec.rs:32) offers: a hung command holds the sandbox mutex.
- The error "MCP: response channel closed" (client.rs:166) is never returned: the
  map keeps the sender when the reader ends, so a call in flight hangs
  (`AnsweredReturn` and `StopEnds` say exactly which calls still end).

## Proofs

All theorems hold for every value of the constants that satisfies the modules'
assumptions (the `ASSUME` named after each module, which TLC evaluates on its
runs): any set of agents, frontends, tools, calls and jobs, any capacity of the
channels, any bound on commands, edits, calls, lines and time. The assumptions
say what kind of thing a constant is, and that

- the pseudo-agents and pseudo-calls (`Nobody`, `Health`, `Any`, `Hello`) are no
  ordinary ones, and `Supervisor` has finitely many calls;
- channels hold at least one message, as the code's constants 4 to 256 do;
- the JSON values of `Arguments` lie in finitely many layers and hold only lower
  ones, an object or array holds a function, and a string is a sequence; the
  properties of a schema are schemas, under keys that the model knows;
- `Registered` lists an entry of the configuration once (an entry is a job of its
  own, with its own `last_fired_minute`, whatever its name), the offset of a
  schedule is below its period, and a minute is two seconds at least.

Each proof has the same shape: an inductive invariant `IInv` (`CallInv`, `LifeInv`
for `Supervisor`, `CallInv` for `Arguments`) with one lemma per action or group of
actions that share an effect, checked by TLC on the instance of the run before it was proved; then each
property from it. What the invariant adds to the property is the argument:

- `PolicyProofs`. `MergeNeverGrants` and `MergeKeepsDeny` are about the pure
  operators. The state machine needs an invariant: `IInv` adds to the types that
  the policy is the merge of the files in `source`, neither of which failed to
  load (`PolicyFromSource`), and that what the running reload has read is still
  on disk unless a notification is outstanding (`ReadsAreFresh`). `NoLostEdit`
  is not inductive alone because it says nothing while a reload runs.
- `SupervisorProofs`. `CallInv` has eight parts: what may be queued about a call
  in which phase (`QueueInv`), prompts only for asked calls (`PromptInv`), the
  basis of a decision in each phase (`BasisInv`), pending entries and answers
  (`ApprovalInv`), effects, replies and journal entries per phase (`EffectInv`,
  `ReplyInv`, `AuditInv`) and `OverlayJustified`. Its consequences are
  `EffectNeedsConsent`, `HandledOnce`, `AuditTellsTruth`. With `TypeOK` and
  `CallInv`, every step is a step of `ToolGate` or leaves its variables unchanged
  under the refinement mapping `GateVerdict`, `GateStage`, effects and `GateTold`:
  `Spec => ImplementsGate`.
  In the same module `LifeInv` relates the queue to what the loop knows of an
  agent: a spawn is queued once and only for an agent that is due; a queued
  connection whose task has ended has its death queued behind it (`ConnQueue`);
  what is left of an agent with a closed connection has its death still queued or
  the cleanup running (`LeaveInv`); Init goes out before anything else
  (`HelloInv`). `OutcomeOnce`, `InitFirst` and `NothingLeftBehind` follow.
- `SchedulerProofs`. Every deadline is a whole number of minutes after the start
  and at most one minute ahead of the clock (`ClockInv`); the firings of a job
  belong to checks that are a minute of deadlines apart (`TickInv`), so a job has
  had at most one firing per deadline passed (`BudgetInv`), which gives
  `FireBudget`; the minute last fired in is that of the latest firing, and later
  checks fire in later minutes (`MinuteInv`), which gives `OncePerMinute`. While
  nothing was late a check begins and ends at its tick (`PunctualInv`): every
  tick that is past has served each job it had in reach, but for the jobs the
  running check has left. Two ticks cannot serve one occurrence, as a minute
  exceeds the reach; so `PunctualJobsFire` says "exactly once".
- `FrameProofs`. The cells in the socket lead without a gap from the cell the
  reader needs next to the cell the writer writes next (`StreamInv`), the running
  read holds the first cells of the next frame (`PartialInv`), and frames and
  mailbox together are what was accepted (`WriterInv`). The reader's half holds
  only without a timer: `MCFramesTick` is what happens with one. Then
  `ReadsAreAligned` (no read starts inside a frame) and `ImplementsPipe`.
- `SandboxProofs`. `Stream(a)` lists the four states of the two directions between
  host and guest: quiet, the call the host waits for in hand, spoilt by a response
  that was too large, closing. A response carries no request id, so that a call
  gets its own result rests on this clause alone. `OpInv`, `MachineInv` and
  `RunInv` tie the operation in progress, the map and the machines to each other.
  `NoStrayMachine`, the action property `RunsInSandbox` and
  `Spec => ImplementsExecutor` follow.
- `McpProofs`. Ids differ and stay below the counter (`IdInv`); every request and
  response on its way carries the id of the call it was made for, and a line that
  says neither result nor error an id under which the server made a request
  (`MatchInv`);
  a call of the memory backend is in progress only with the mutex (`MutexInv`).
  `OwnResponse`, `PendingExact` and `GoneIdle` follow.
- `SessionProofs`. The heart is `Placed(c)`: a call, then its answer (a result or a denial), is in one
  place of the circle of queues (agent's pipe, event channel, the loop's hand,
  agent's channel, conversation), once. With `OrderInv` it gives
  `ResultsMatchCalls`. `PairsInv` says that, as long as no line was interjected, a
  call of the conversation is its last entry before the agent's next turn or has
  its answer behind it; so in a turn the service can accept the conversation unless
  it holds a result, an error that starts then has a cause, and `CauseInv` follows it from the pipe to
  the event channel to the map of agents (`DropsHaveCause`). `RequestsKept` is
  inductive with the fact that the stdin thread starts after the handshake.
  `LinesKept` looks at the queues that a line passes, from where it ends to where
  it starts (`Way`): each is ascending, and every line in one is older than every
  line in the next. `LineInv` adds that the i-th line typed is number i and that
  only typed lines are refused; `LinkInv` that the CLI's socket is empty before it
  connects.
- `ArgumentsProofs`. The invariant of a call is small (`CallInv`); the work is in
  what the recursive walks compute. The library's induction takes an operator as
  a parameter, which the provers cannot instantiate, so induction is stated with
  sets: a set of numbers with 0 and all successors is `Nat` (`AllNumbers`, from
  the well-foundedness of `<`). By it, over layers: each walk exists as a function
  (`HasLayers`, `ResolveLayers`, `ValidateLayers`), hence unfolds (`HasRefsIs`,
  `ResolveIs`, `ValidateIs`); over the length of a path: the end of a path is the
  end of its rest, taken from behind its first door (`AtFirst`, `UnderFirst`).
  Then, by layers again, what conforms is refused at the end of no path and what
  is reported is refused there (`ValidatorIsRight`); references are found exactly
  where paths lead to them (`HasRefsReach`), and a resolved value mirrors the
  value at the end of every path (`ValuesMirror`). A path that is not refused goes
  down through its names only (`LeadsDown`).

Only model-checked, and why:

- `Converges`, `DeathIsNoticed`, `JobsSettle`, `DecidedCallsClose`, `AllArrive`,
  `OperationsEnd`, `AnsweredReturn`, `StopEnds`, `LoopResumes`, `MessagesArrive`:
  liveness under fairness is out of the prover's reach.

## Not modelled, and the plan

1. **Done**: all the modules above; every safety property of every run is proved,
   and so are the three refinements.
2. Open: the secret store and its path guard (no caller in the supervisor), the
   handlers of the builtin tools, several agents or frontends in `Session`.

A run is a question; where a new module asks a more important one, its run takes
the place of a shallower one.

Left out for good: TOML, protobuf and JSON encoding, configuration (read once),
the file store of the secrets and the builtin tool handlers (plain I/O),
generated bindings, and the container scripts under `denv/`.
