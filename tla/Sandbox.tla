------------------------------- MODULE Sandbox -------------------------------
(***************************************************************************)
(* The sandbox backends of crates/sandbox/src.  The supervisor holds one   *)
(* mutex around the SandboxRunner for the whole of spawn, execute or       *)
(* destroy, so op is the one operation in progress; the virtual machines,  *)
(* the guest agents in them and forgotten processes go on beside it.       *)
(*                                                                         *)
(* A request and its response are length-prefixed frames on a stream       *)
(* without request ids.  A response the host finds too large is reported   *)
(* after its prefix was read: its body stays in the stream, and no four    *)
(* bytes of a JSON text are an acceptable length.                          *)
(***************************************************************************)
EXTENDS Naturals, Sequences

CONSTANTS Agent,   \* agent ids; each is used for one spawn
          Call,    \* tool calls
          Owner,   \* the agent a call belongs to
          Shell,   \* the calls of shell_exec
          Bulky,   \* calls whose request is more than the socket's buffers hold
          Huge     \* calls whose result exceeds MAX_PAYLOAD_BYTES

ASSUME SandboxAssumption ==
  /\ Owner \in [Call -> Agent]
  /\ Shell \subseteq Call /\ Bulky \subseteq Call /\ Huge \subseteq Call

VARIABLES
  backend,    \* real or mock, chosen when the supervisor starts
  op,         \* the operation in progress
  sandboxes,  \* agents with an entry in the manager's map
  tried,      \* agents spawn was called for
  abandoned,  \* history: agents whose guest was not ready in time
  vm,         \* the Firecracker process: none, booting, up, dead
  signalled,  \* machines that were sent SIGKILL
  guest,      \* what the guest agent is doing
  toGuest,    \* frames on their way to the guest
  toHost,     \* frames on their way to the host
  result,     \* what execute returned for a call
  ran         \* how the run of a call ended

managerVars == <<op, sandboxes, tried, abandoned, result>>
machineVars == <<vm, signalled, guest, toGuest, toHost, ran>>
vars == <<backend, managerVars, machineVars>>

Idle == <<"idle">>
Waiting == <<"waiting">>
Shutdown == <<"shutdown">>
Rest == <<"rest">>     \* the body of a response that was too large
Request(c) == <<"call", c>>
Response(c, verdict) == <<verdict, c>>

Verdict == {"success", "failure"}
Frame == {Request(c) : c \in Call} \cup {Shutdown}
Answer == {Response(c, v) : c \in Call, v \in Verdict} \cup {Rest}
Operation == {Idle} \cup ({"prepare", "boot", "stop", "wait"} \X Agent)
               \cup ({"send", "await", "mock"} \X Call)
Activity == {Waiting} \cup ({"run", "reply", "stuck"} \X Call)

TypeOK ==
  /\ backend \in {"real", "mock"}
  /\ op \in Operation
  /\ sandboxes \subseteq Agent
  /\ tried \subseteq Agent
  /\ abandoned \subseteq Agent
  /\ vm \in [Agent -> {"none", "booting", "up", "dead"}]
  /\ signalled \subseteq Agent
  /\ guest \in [Agent -> Activity]
  /\ toGuest \in [Agent -> Seq(Frame)]
  /\ toHost \in [Agent -> Seq(Answer)]
  /\ result \in [Call -> {"none", "submitted", "ok", "error", "lost", "expired"}]
  /\ ran \in [Call -> {"no"} \cup Verdict]

Init ==
  /\ backend \in {"real", "mock"}
  /\ op = Idle
  /\ sandboxes = {}
  /\ tried = {}
  /\ abandoned = {}
  /\ vm = [a \in Agent |-> "none"]
  /\ signalled = {}
  /\ guest = [a \in Agent |-> Waiting]
  /\ toGuest = [a \in Agent |-> <<>>]
  /\ toHost = [a \in Agent |-> <<>>]
  /\ result = [c \in Call |-> "none"]
  /\ ran = [c \in Call |-> "no"]

Alive(a) == vm[a] \in {"booting", "up"}

\* The operation is over; execute also returns r for the call.
Returns(c, r) ==
  /\ op' = Idle
  /\ result' = [result EXCEPT ![c] = r]

-----------------------------------------------------------------------------
(* spawn *)

BeginSpawn(a) ==
  /\ op = Idle
  /\ a \notin tried
  /\ op' = <<"prepare", a>>
  /\ tried' = tried \cup {a}
  /\ UNCHANGED <<backend, sandboxes, abandoned, result, machineVars>>

\* The mock backend only needs the workspace directory.
MockSpawns(a) ==
  /\ backend = "mock"
  /\ op = <<"prepare", a>>
  /\ op' = Idle
  /\ sandboxes' = sandboxes \cup {a}
  /\ UNCHANGED <<backend, tried, abandoned, result, machineVars>>

\* The directories, the ext4 image and the config file are made, then the
\* Firecracker process is started.
StartMachine(a) ==
  /\ backend = "real"
  /\ op = <<"prepare", a>>
  /\ op' = <<"boot", a>>
  /\ vm' = [vm EXCEPT ![a] = "booting"]
  /\ UNCHANGED <<backend, sandboxes, tried, abandoned, result,
                 signalled, guest, toGuest, toHost, ran>>

\* One of these steps fails before there is a process.
SpawnFails(a) ==
  /\ op = <<"prepare", a>>
  /\ op' = Idle
  /\ UNCHANGED <<backend, sandboxes, tried, abandoned, result, machineVars>>

\* connect_with_retry finds the guest listening.
Connects(a) ==
  /\ op = <<"boot", a>>
  /\ vm[a] = "up"
  /\ op' = Idle
  /\ sandboxes' = sandboxes \cup {a}
  /\ UNCHANGED <<backend, tried, abandoned, result, machineVars>>

\* Mutant: the deadline is looked at only once a connection succeeded.
BootTimesOutConnected(a) ==
  /\ op = <<"boot", a>>
  /\ vm[a] = "up"
  /\ op' = Idle
  /\ abandoned' = abandoned \cup {a}
  /\ UNCHANGED <<backend, sandboxes, tried, result, machineVars>>

\* The deadline passes.  The instance is dropped, which does not end its process.
BootTimesOut(a) ==
  /\ op = <<"boot", a>>
  /\ op' = Idle
  /\ abandoned' = abandoned \cup {a}
  /\ UNCHANGED <<backend, sandboxes, tried, result, machineVars>>

-----------------------------------------------------------------------------
(* execute *)

BeginExecute(c) ==
  /\ op = Idle
  /\ result[c] = "none"
  /\ Owner[c] \in sandboxes
  /\ op' = IF backend = "real" THEN <<"send", c>> ELSE <<"mock", c>>
  /\ result' = [result EXCEPT ![c] = "submitted"]
  /\ UNCHANGED <<backend, sandboxes, tried, abandoned, machineVars>>

NotFound(c) ==
  /\ op = Idle
  /\ result[c] = "none"
  /\ Owner[c] \notin sandboxes
  /\ result' = [result EXCEPT ![c] = "lost"]
  /\ UNCHANGED <<backend, op, sandboxes, tried, abandoned, machineVars>>

\* A guest that does not read leaves a bulky request half written.
Blocked(c) == c \in Bulky /\ guest[Owner[c]][1] = "stuck"

\* The request is written, or the machine is gone and the write fails.
SendFrame(c) ==
  LET a == Owner[c] IN
  /\ op = <<"send", c>>
  /\ ~Blocked(c)
  /\ \/ /\ Alive(a)
        /\ toGuest' = [toGuest EXCEPT ![a] = Append(@, Request(c))]
        /\ op' = <<"await", c>>
        /\ UNCHANGED result
     \/ /\ ~Alive(a)
        /\ Returns(c, "lost")
        /\ UNCHANGED toGuest
  /\ UNCHANGED <<backend, sandboxes, tried, abandoned, vm, signalled, guest,
                 toHost, ran>>

TooLarge(r) == r = Rest \/ (r[1] = "success" /\ r[2] \in Huge)

Reported(r) == IF r[1] = "success" THEN "ok" ELSE "error"

\* The response is read and passed on as the result of the call.
RecvFrame(c) ==
  LET a == Owner[c] IN
  /\ op = <<"await", c>>
  /\ toHost[a] # <<>>
  /\ ~TooLarge(Head(toHost[a]))
  /\ Returns(c, Reported(Head(toHost[a])))
  /\ toHost' = [toHost EXCEPT ![a] = Tail(@)]
  /\ UNCHANGED <<backend, sandboxes, tried, abandoned, vm, signalled, guest,
                 toGuest, ran>>

\* Only the prefix of the response is read.
RecvTooLarge(c) ==
  LET a == Owner[c] IN
  /\ op = <<"await", c>>
  /\ toHost[a] # <<>>
  /\ TooLarge(Head(toHost[a]))
  /\ Returns(c, "lost")
  /\ toHost' = [toHost EXCEPT ![a] = <<Rest>> \o Tail(@)]
  /\ UNCHANGED <<backend, sandboxes, tried, abandoned, vm, signalled, guest,
                 toGuest, ran>>

\* End of file instead of a response.
RecvFails(c) ==
  LET a == Owner[c] IN
  /\ op = <<"await", c>>
  /\ toHost[a] = <<>>
  /\ ~Alive(a)
  /\ Returns(c, "lost")
  /\ UNCHANGED <<backend, sandboxes, tried, abandoned, machineVars>>

\* The mock backend runs the tool in the supervisor's process.
MockRuns(c) ==
  /\ op = <<"mock", c>>
  /\ ran[c] = "no"
  /\ \E v \in Verdict : ran' = [ran EXCEPT ![c] = v]
  /\ UNCHANGED <<backend, managerVars, vm, signalled, guest, toGuest, toHost>>

MockReturns(c) ==
  /\ op = <<"mock", c>>
  /\ ran[c] # "no"
  /\ Returns(c, Reported(Response(c, ran[c])))
  /\ UNCHANGED <<backend, sandboxes, tried, abandoned, machineVars>>

\* Its shell_exec waits for a limited time; the command itself is not killed.
MockTimesOut(c) ==
  /\ op = <<"mock", c>>
  /\ c \in Shell
  /\ ran[c] = "no"
  /\ Returns(c, "expired")
  /\ UNCHANGED <<backend, sandboxes, tried, abandoned, machineVars>>

ForgottenCommandEnds(c) ==
  /\ result[c] = "expired"
  /\ ran[c] = "no"
  /\ \E v \in Verdict : ran' = [ran EXCEPT ![c] = v]
  /\ UNCHANGED <<backend, managerVars, vm, signalled, guest, toGuest, toHost>>

-----------------------------------------------------------------------------
(* destroy *)

\* The entry is removed first; what follows uses the removed entry.
BeginDestroy(a) ==
  /\ op = Idle
  /\ a \in sandboxes
  /\ sandboxes' = sandboxes \ {a}
  /\ op' = IF backend = "real" THEN <<"stop", a>> ELSE Idle
  /\ UNCHANGED <<backend, tried, abandoned, result, machineVars>>

\* The shutdown request is written if the machine is there, and SIGKILL sent
\* without waiting for the guest to act on the request.
StopMachine(a) ==
  /\ op = <<"stop", a>>
  /\ toGuest' = IF Alive(a) THEN [toGuest EXCEPT ![a] = Append(@, Shutdown)] ELSE toGuest
  /\ signalled' = signalled \cup {a}
  /\ op' = <<"wait", a>>
  /\ UNCHANGED <<backend, sandboxes, tried, abandoned, result, vm, guest, toHost, ran>>

\* Mutant: destroy does not wait for the process.
MachineEndedAssumed(a) ==
  /\ op = <<"wait", a>>
  /\ op' = Idle
  /\ UNCHANGED <<backend, sandboxes, tried, abandoned, result, machineVars>>

\* The process is waited for, five seconds and then without a limit.
MachineEnded(a) ==
  /\ op = <<"wait", a>>
  /\ ~Alive(a)
  /\ op' = Idle
  /\ UNCHANGED <<backend, sandboxes, tried, abandoned, result, machineVars>>

-----------------------------------------------------------------------------
(* The machine and its guest agent *)

\* The kernel has booted and the guest agent listens.
GuestListens(a) ==
  /\ vm[a] = "booting"
  /\ vm' = [vm EXCEPT ![a] = "up"]
  /\ UNCHANGED <<backend, managerVars, signalled, guest, toGuest, toHost, ran>>

\* The process ends; a response that has not left the machine may be lost.
MachineGoes(a) ==
  /\ vm' = [vm EXCEPT ![a] = "dead"]
  /\ guest' = [guest EXCEPT ![a] = Waiting]
  /\ toGuest' = [toGuest EXCEPT ![a] = <<>>]
  /\ toHost' \in {toHost, [toHost EXCEPT ![a] = <<>>]}
  /\ UNCHANGED <<backend, managerVars, signalled, ran>>

MachineKilled(a) == a \in signalled /\ Alive(a) /\ MachineGoes(a)

MachineCrashes(a) == a \notin signalled /\ Alive(a) /\ MachineGoes(a)

\* The next frame: a tool call, or the request to exit.
GuestReads(a) ==
  /\ vm[a] = "up"
  /\ guest[a] = Waiting
  /\ toGuest[a] # <<>>
  /\ IF Head(toGuest[a]) = Shutdown
     THEN MachineGoes(a)
     ELSE /\ guest' = [guest EXCEPT ![a] = <<"run", Head(toGuest[a])[2]>>]
          /\ toGuest' = [toGuest EXCEPT ![a] = Tail(@)]
          /\ UNCHANGED <<backend, managerVars, vm, signalled, toHost, ran>>

\* The tool has taken effect, or has failed.
GuestRuns(a) ==
  /\ guest[a][1] = "run"
  /\ \E v \in Verdict : ran' = [ran EXCEPT ![guest[a][2]] = v]
  /\ guest' = [guest EXCEPT ![a] = <<"reply", guest[a][2]>>]
  /\ UNCHANGED <<backend, managerVars, vm, signalled, toGuest, toHost>>

\* Mutant: a huge response leaves the guest at once, whatever the host reads.
GuestRepliesAtOnce(a) ==
  /\ guest[a][1] = "reply"
  /\ LET c == guest[a][2] IN
       toHost' = [toHost EXCEPT ![a] = Append(@, Response(c, ran[c]))]
  /\ guest' = [guest EXCEPT ![a] = Waiting]
  /\ UNCHANGED <<backend, managerVars, vm, signalled, toGuest, ran>>

\* The response is written.  The host never takes all of a huge one, and the
\* guest stays in the write.
GuestReplies(a) ==
  /\ guest[a][1] = "reply"
  /\ LET c == guest[a][2]
         r == Response(c, ran[c]) IN
       /\ toHost' = [toHost EXCEPT ![a] = Append(@, r)]
       /\ guest' = [guest EXCEPT ![a] = IF TooLarge(r) THEN <<"stuck", c>> ELSE Waiting]
  /\ UNCHANGED <<backend, managerVars, vm, signalled, toGuest, ran>>

-----------------------------------------------------------------------------

SpawnStep(a) == MockSpawns(a) \/ StartMachine(a) \/ SpawnFails(a) \/ Connects(a) \/ BootTimesOut(a)

ExecuteStep(c) ==
  SendFrame(c) \/ RecvFrame(c) \/ RecvTooLarge(c) \/ RecvFails(c)
    \/ MockRuns(c) \/ MockReturns(c)

DestroyStep(a) == StopMachine(a) \/ MachineEnded(a)

GuestStep(a) == GuestReads(a) \/ GuestRuns(a) \/ GuestReplies(a)

Next ==
  \/ \E a \in Agent : BeginSpawn(a) \/ SpawnStep(a) \/ BeginDestroy(a) \/ DestroyStep(a)
  \/ \E a \in Agent : GuestListens(a) \/ GuestStep(a) \/ MachineKilled(a) \/ MachineCrashes(a)
  \/ \E c \in Call : BeginExecute(c) \/ NotFound(c) \/ ExecuteStep(c)
                       \/ MockTimesOut(c) \/ ForgottenCommandEnds(c)

Spec == Init /\ [][Next]_vars

\* The operation in progress goes on, the guest's loop too (a tool that runs is
\* assumed to end), and a process dies of SIGKILL.  Whether a machine boots, and
\* when it crashes, is open.
FairSpec ==
  /\ Spec
  /\ \A a \in Agent : WF_vars(SpawnStep(a)) /\ WF_vars(DestroyStep(a))
                        /\ WF_vars(GuestStep(a)) /\ WF_vars(MachineKilled(a))
  /\ \A c \in Call : WF_vars(ExecuteStep(c))

-----------------------------------------------------------------------------
(* Properties *)

\* Both backends give each call its own result, or none, and no call runs after
\* its result was reported, except a shell command the mock gave up on: what the
\* supervisor relies on when it journals and answers a call after execute
\* (manager.rs:108, mock.rs:50).
E == INSTANCE Executor

ImplementsExecutor == E!Spec

\* A machine without an entry in the map is one being started or stopped, or one
\* whose guest was not ready in time; destroy leaves none behind (manager.rs:136).
NoStrayMachine ==
  \A a \in Agent :
     Alive(a) => \/ a \in sandboxes
                 \/ a \in abandoned
                 \/ op[1] \in {"boot", "stop", "wait"} /\ op[2] = a

\* A tool only ever runs for an agent that has a sandbox at that moment, the
\* commands of expired calls excepted: nothing left in a stream runs while the
\* sandbox is being destroyed, nor in an abandoned machine.
RunsInSandbox ==
  [][\A c \in Call :
        ran'[c] # ran[c] => Owner[c] \in sandboxes \/ result[c] = "expired"]_vars

\* Every spawn, execute and destroy ends, so the supervisor gets its mutex back:
\* unless a bulky request is written to a guest that is stuck in a huge response.
OperationsEnd ==
  (op # Idle) ~> (op = Idle \/ (op[1] = "send" /\ Blocked(op[2])))
=============================================================================
