------------------------------- MODULE Session -------------------------------
(***************************************************************************)
(* A user at the command line, the supervisor's event loop, and an agent    *)
(* process, with every queue between them bounded: what AgentLoop and Cli   *)
(* do on their own, composed by the tasks of                                *)
(* crates/supervisor/src/supervisor.rs that carry their messages.           *)
(*                                                                         *)
(* The event loop is one task.  It takes an event from a bounded channel,   *)
(* and a handler that sends to the agent or to the frontend waits for room  *)
(* there before the next event is looked at: `loop` is what it waits with.  *)
(* Policy, approval and execution of a call are Supervisor's subject; here  *)
(* a call is answered at once or asked about.                               *)
(***************************************************************************)
EXTENDS AgentLoop, Cli, SequencesExt

CONSTANTS EventCap,   \* events the loop's channel holds (256)
          MailCap,    \* messages an agent's channel and pipe hold (64 and more)
          ScreenCap   \* messages a frontend's channel and pipe hold (64 and more)

ASSUME SessionAssumption ==
  /\ EventCap \in Nat \ {0}
  /\ MailCap \in Nat \ {0}
  /\ ScreenCap \in Nat \ {0}

VARIABLES
  events,   \* the event channel
  conn,     \* the connection task of the frontend: none, open or gone
  shown,    \* the frontend is in the map of frontends
  known,    \* the agent is in the map of agents
  loop,     \* Idle, or what the loop waits to tell the agent or to show
  pending,  \* calls in pending_approvals
  unheard,  \* history: calls asked about when no frontend could hear
  refused   \* history: lines answered with "no agents available"

loopVars == <<shown, known, loop, pending, unheard, refused>>
vars == <<agentVars, cliVars, events, conn, loopVars>>

Idle == <<>>
Tell(msg) == <<"tell", msg>>
Show(msg) == <<"show", msg>>
Connected == <<"connected">>
Gone == <<"gone">>
FromCli(l) == <<"cli", l>>
FromAgent(msg) == <<"agent", msg>>
NoAgents == <<"noagents">>
AgentList == <<"list">>
Dead == <<"dead">>

Earlier == 0   \* the line of a frontend that has left
Texts == Lines \cup {Earlier}
ToAgent == {User(m) : m \in Texts} \cup UNION {Answers(c) : c \in CallIds}
FromServer ==
  {Granted, Chunk, Done, Dead, NoAgents, AgentList} \cup {Ask(c) : c \in CallIds}

TypeOK ==
  /\ AgentTypeOK(Texts)
  /\ CliTypeOK(FromServer)
  /\ Len(mail) <= MailCap
  /\ Len(screen) <= ScreenCap
  /\ events \in Seq({Connected, Gone} \cup {FromCli(l) : l \in ToServer}
                      \cup {FromAgent(msg) : msg \in ToSupervisor})
  /\ Len(events) <= EventCap
  /\ conn \in {"none", "open", "gone"}
  /\ shown \in BOOLEAN
  /\ known \in BOOLEAN
  /\ loop \in {Idle} \cup {Tell(msg) : msg \in ToAgent} \cup {Show(msg) : msg \in FromServer}
  /\ pending \subseteq CallIds
  /\ unheard \subseteq pending
  /\ refused \subseteq Lines

\* The agent is ready; a frontend that has left may have given it a line.
Init ==
  /\ AgentInit(<<>>) \/ AgentInit(<<User(Earlier)>>)
  /\ CliInit
  /\ events = <<>>
  /\ conn = "none"
  /\ shown = FALSE
  /\ known = TRUE
  /\ loop = Idle
  /\ pending = {}
  /\ unheard = {}
  /\ refused = {}

-----------------------------------------------------------------------------
(* The connection tasks: each posts what it reads, when there is room. *)

Post(e) ==
  /\ Len(events) < EventCap
  /\ events' = Append(events, e)

\* Accepted: the task posts FrontendConnected before it reads anything.
PostConnected ==
  /\ conn = "none" /\ main # "start"
  /\ Post(Connected)
  /\ conn' = "open"
  /\ UNCHANGED <<agentVars, cliVars, loopVars>>

PostLine ==
  /\ conn = "open" /\ link # <<>>
  /\ Post(FromCli(Head(link)))
  /\ link' = Tail(link)
  /\ UNCHANGED <<agentVars, main, thread, locked, prompt, typed, input, asks, screen, stopped,
                 conn, loopVars>>

\* The frontend has exited, and what it wrote has been read.
PostGone ==
  /\ conn = "open" /\ Over /\ link = <<>>
  /\ Post(Gone)
  /\ conn' = "gone"
  /\ UNCHANGED <<agentVars, cliVars, loopVars>>

\* Mutant: a message may be posted again before it is taken from the pipe.
PostFromAgentAgain ==
  /\ out # <<>>
  /\ Post(FromAgent(Head(out)))
  /\ out' \in {out, Tail(out)}
  /\ UNCHANGED <<conv, turn, mail, calls, chunks, outage, cliVars, conn, loopVars>>

PostFromAgent ==
  /\ out # <<>>
  /\ Post(FromAgent(Head(out)))
  /\ out' = Tail(out)
  /\ UNCHANGED <<conv, turn, mail, calls, chunks, outage, cliVars, conn, loopVars>>

-----------------------------------------------------------------------------
(* The event loop *)

Take(e) ==
  /\ loop = Idle
  /\ events # <<>> /\ Head(events) = e
  /\ events' = Tail(events)

OnFrontendConnected ==
  /\ Take(Connected)
  /\ shown' = TRUE
  /\ UNCHANGED <<agentVars, cliVars, conn, known, loop, pending, unheard, refused>>

OnFrontendGone ==
  /\ Take(Gone)
  /\ shown' = FALSE
  /\ UNCHANGED <<agentVars, cliVars, conn, known, loop, pending, unheard, refused>>

\* The token the CLI read from the supervisor's file is the right one.
OnAuth ==
  /\ Take(FromCli(Auth))
  /\ loop' = Show(Granted)
  /\ UNCHANGED <<agentVars, cliVars, conn, shown, known, pending, unheard, refused>>

\* A line for whatever agent the map holds.
OnSay(m) ==
  /\ Take(FromCli(Say(m)))
  /\ \/ /\ known
        /\ loop' = Tell(User(m))
        /\ UNCHANGED refused
     \/ /\ ~known
        /\ loop' = Show(NoAgents)
        /\ refused' = refused \cup {m}
  /\ UNCHANGED <<agentVars, cliVars, conn, shown, known, pending, unheard>>

OnListAgents ==
  /\ Take(FromCli(Agents))
  /\ loop' = Show(AgentList)
  /\ UNCHANGED <<agentVars, cliVars, conn, shown, known, pending, unheard, refused>>

OnResponse ==
  /\ \E msg \in {Chunk, Done} : Take(FromAgent(msg)) /\ loop' = Show(msg)
  /\ UNCHANGED <<agentVars, cliVars, conn, shown, known, pending, unheard, refused>>

\* AgentError: the handle goes.  Its writer task passes on what was queued and
\* closes, so that the process reads its mail to the end and then no more.
OnAgentError ==
  /\ Take(FromAgent(Failure))
  /\ known' = FALSE
  /\ loop' = Show(Dead)
  /\ UNCHANGED <<agentVars, cliVars, conn, shown, pending, unheard, refused>>

\* Mutant: arguments that do not validate end the handling of a call.
OnCallForgotten(c) ==
  /\ Take(FromAgent(ToolCall(c)))
  /\ loop' \in IF known THEN {Idle, Tell(Result(c)), Tell(Denied(c))} ELSE {Idle}
  /\ UNCHANGED <<agentVars, cliVars, conn, shown, known, pending, unheard, refused>>

\* Allowed and executed, with success or not, or denied or invalid: told at once, if
\* the agent is known.
OnCallDecided(c) ==
  /\ Take(FromAgent(ToolCall(c)))
  /\ loop' \in IF known THEN {Tell(Result(c)), Tell(Denied(c))} ELSE {Idle}
  /\ UNCHANGED <<agentVars, cliVars, conn, shown, known, pending, unheard, refused>>

OnCallAsked(c) ==
  /\ Take(FromAgent(ToolCall(c)))
  /\ loop' = Show(Ask(c))
  /\ UNCHANGED <<agentVars, cliVars, conn, shown, known, pending, unheard, refused>>

\* Mutant: try_send, which drops what does not fit.
TellingTries ==
  /\ loop # Idle /\ loop[1] = "tell"
  /\ mail' = IF Len(mail) < MailCap THEN Append(mail, loop[2]) ELSE mail
  /\ loop' = Idle
  /\ UNCHANGED <<conv, turn, out, calls, chunks, outage, cliVars, events, conn,
                 shown, known, pending, unheard, refused>>

\* handle.send: the loop waits for room in the agent's channel.
Telling ==
  /\ loop # Idle /\ loop[1] = "tell"
  /\ Len(mail) < MailCap
  /\ mail' = Append(mail, loop[2])
  /\ loop' = Idle
  /\ UNCHANGED <<conv, turn, out, calls, chunks, outage, cliVars, events, conn,
                 shown, known, pending, unheard, refused>>

\* Mutant: a frontend counts until its disconnection has been handled.
HearsRegistered == shown

\* A frontend that is registered and has not exited; a send to any other is
\* dropped or fails at once, and the failure is ignored.
Hears == shown /\ ~Over

\* send_to and broadcast_frontend: the loop waits for room in the channel of the
\* frontend.  A request is registered after it was broadcast.
Showing ==
  /\ loop # Idle /\ loop[1] = "show"
  /\ Hears => Len(screen) < ScreenCap
  /\ screen' = IF Hears THEN Append(screen, loop[2]) ELSE screen
  /\ LET asked == {c \in CallIds : loop[2] = Ask(c)}
     IN /\ pending' = pending \cup asked
        /\ unheard' = IF Hears THEN unheard ELSE unheard \cup asked
  /\ loop' = Idle
  /\ UNCHANGED <<agentVars, main, thread, locked, prompt, typed, input, asks, link, stopped,
                 events, conn, shown, known, refused>>

LoopHandles ==
  \/ OnFrontendConnected \/ OnFrontendGone \/ OnAuth \/ OnListAgents
  \/ \E m \in Lines : OnSay(m)
  \/ OnResponse \/ OnAgentError
  \/ \E c \in CallIds : OnCallDecided(c) \/ OnCallAsked(c)

ConnectionStep == PostConnected \/ PostLine \/ PostGone

SupervisorStep == ConnectionStep \/ PostFromAgent \/ LoopHandles \/ Telling \/ Showing

Elsewhere == <<events, conn, loopVars>>

Next ==
  \/ AgentStep /\ UNCHANGED <<cliVars, Elsewhere>>
  \/ CliStep /\ UNCHANGED <<agentVars, Elsewhere>>
  \/ SupervisorStep

Spec == Init /\ [][Next]_vars

Alone(A) == A /\ UNCHANGED <<cliVars, Elsewhere>>
InCli(A) == A /\ UNCHANGED <<agentVars, Elsewhere>>

\* The tasks that the properties wait for are scheduled: one condition for what a
\* task does in turn (the CLI takes its first message by Handshake, every later one
\* by Prints).  The senders of the event channel queue for room in it, so none is
\* passed over for ever.  The service ends its answers, and nothing is assumed of
\* the user or of the rest of the CLI.
Fairness ==
  /\ WF_vars(Alone(IF turn = "idle" THEN ReadMessage ELSE AnswerEnds))
  /\ WF_vars(InCli(IF main = "handshake" THEN Handshake ELSE Prints))
  /\ SF_vars(ConnectionStep) /\ SF_vars(PostFromAgent)
  /\ WF_vars(IF loop = Idle THEN LoopHandles ELSE Telling \/ Showing)

FairSpec == Spec /\ Fairness

-----------------------------------------------------------------------------
(* Properties *)

Entries(cv, kind) == {i \in DOMAIN cv : cv[i][1] = kind}

\* The line that an entry, a message or an event carries.
LineOf(e) ==
  CASE e[1] \in {"user", "say"} -> e[2]
    [] e[1] = "cli" /\ e[2][1] = "say" -> e[2][2]
    [] OTHER -> Earlier

LinesIn(q) == {LineOf(q[i]) : i \in DOMAIN q} \ {Earlier}

Ascending(q) ==
  \A i, j \in DOMAIN q :
    i < j /\ LineOf(q[i]) # Earlier /\ LineOf(q[j]) # Earlier => LineOf(q[i]) < LineOf(q[j])

\* What the loop waits to tell the agent.
Hand == IF loop # Idle /\ loop[1] = "tell" THEN <<loop[2]>> ELSE <<>>

\* The way of a line, from where it ends to where it starts.
Way == <<conv, mail, Hand, events, link, input>>

\* The lines that were typed are, from the oldest to the newest, in the
\* conversation, on the way to it, or refused: what the supervisor, the sockets
\* and the CLI hold between them is in the order of typing, no line is there
\* twice, and none is missing but those that a CLI that is gone held last.
LinesKept ==
  LET there == UNION {LinesIn(Way[s]) : s \in DOMAIN Way}
      due == LinesIn(typed) \ refused
  IN /\ \A s \in DOMAIN Way : Ascending(Way[s])
     /\ \A s, t \in DOMAIN Way :
          s < t => \A m \in LinesIn(Way[s]), k \in LinesIn(Way[t]) : m < k
     /\ there \subseteq due
     /\ \A m \in due \ there : Over /\ \A k \in there : k < m

\* What the agent was told matches what it asked: no call has two answers in its
\* conversation and on the way to it, a result and a denial neither, and none that it
\* did not make.
ResultsMatchCalls ==
  LET told == conv \o mail \o Hand
      answers == Entries(told, "result") \cup Entries(told, "denied")
  IN \A i \in answers :
       /\ \A j \in answers : told[i][2] = told[j][2] => i = j
       /\ \E k \in Entries(conv, "uses") : k < i /\ conv[k][2] = told[i][2]

\* The one way a user breaks a conversation: a line that the agent read between
\* a tool call and its answer.
Interjected ==
  \E i \in Entries(conv, "uses") : i < Len(conv) /\ conv[i + 1][1] = "user"

\* The agent was given a tool's result (agent.py:182 takes the object over as it is).
Returned == Entries(conv, "result") # {}

\* An agent is dropped only if the service failed by itself, a line was
\* interjected, or a tool returned anything: nothing else the processes do makes
\* the service reject the conversation, and a call that is denied does not.
DropsHaveCause ==
  (~known \/ Contains(out, Failure)) => outage \/ Interjected \/ Returned

\* A request that waits for the user is on its way to the prompt, at it, or went
\* where no prompt can come from: a frontend that was not there, has exited, or
\* has lost its standard input.
RequestsKept ==
  \A c \in pending \ unheard :
    \/ Over \/ thread = "ended"
    \/ Contains(screen, Ask(c)) \/ Contains(asks, Ask(c))
    \/ thread = "prompting" /\ prompt = Ask(c)

\* Every task of the cycle waits for the next: the loop for room in the agent's
\* channel, the agent for room in its pipe, the task that empties the pipe for
\* room in the event channel that the loop empties.
Gridlock ==
  /\ loop # Idle /\ loop[1] = "tell" /\ Len(mail) = MailCap
  /\ ~Drained
  /\ Len(events) = EventCap

Excused == Gridlock \/ stopped

\* The loop always comes back to its events, but for a stopped terminal of a
\* connected user and the cycle of full queues.
LoopResumes == (loop # Idle) ~> (loop = Idle \/ Excused)

\* Somebody waits for the supervisor: the CLI for the result of Auth, an agent that was
\* not dropped for the answer of a call, unless that is for the user to decide, or the
\* user for a line that was written to the supervisor to reach the conversation.
Waiting ==
  \/ main = "handshake"
  \/ /\ known
     /\ \E c \in CallIds \ pending :
          Contains(conv, Uses(c)) /\ ~Contains(conv, Result(c)) /\ ~Contains(conv, Denied(c))
  \/ \E q \in {mail, Hand, events, link} : LinesIn(q) # {}

\* What was written to the supervisor or asked of it gets through: as lines and calls
\* come to an end, somebody who waits always would wait for ever for something.
MessagesArrive == Waiting ~> (~Waiting \/ Excused)

\* The thread that "handles both normal input and approval prompts" can read
\* the user's answer: it does not wait for a lock that it holds itself.
PromptsCanBeAnswered == thread = "prompting" => ~locked
=============================================================================
