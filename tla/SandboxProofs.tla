---------------------------- MODULE SandboxProofs ----------------------------
(***************************************************************************)
(* Theorems about the sandbox backends: for any number of agents and       *)
(* calls, whatever machines crash and whatever responses are too large,    *)
(* each call is reported with its own result, nothing runs outside a       *)
(* sandbox, and no machine is left without an entry.                       *)
(***************************************************************************)
EXTENDS Sandbox, TLAPS

USE DEF managerVars, machineVars

-----------------------------------------------------------------------------
(* The inductive invariant *)

Executing == {"send", "await", "mock"}

\* What the operation in progress says about its agent or its call.
OpInv ==
  /\ op[1] \in {"boot", "stop", "wait", "send", "await"} => backend = "real"
  /\ op[1] = "mock" => backend = "mock"
  /\ \A a \in Agent :
       /\ op = <<"prepare", a>> => a \in tried /\ a \notin sandboxes /\ vm[a] = "none"
       /\ op = <<"boot", a>> => a \in tried /\ a \notin sandboxes /\ vm[a] # "none"
       /\ op \in {<<"stop", a>>, <<"wait", a>>} => a \notin sandboxes /\ vm[a] \in {"up", "dead"}
  /\ \A c \in Call :
       /\ \A k \in Executing : op = <<k, c>> => Owner[c] \in sandboxes
       /\ result[c] = "submitted" <=> \E k \in Executing : op = <<k, c>>

\* Only an agent that was spawned has a machine, only the real backend has any, and
\* one in the map has booted.
MachineInv ==
  /\ sandboxes \subseteq tried
  /\ \A a \in Agent :
       /\ vm[a] # "none" => backend = "real" /\ a \in tried
       /\ a \in sandboxes => vm[a] # "booting"
       /\ a \in sandboxes /\ backend = "real" => vm[a] # "none"

\* No call runs before it is handed to a backend.
RunInv ==
  \A c \in Call : result[c] = "none" \/ op = <<"send", c>> => ran[c] = "no"

\* The stream between host and guest carries nothing.
Quiet(a) == guest[a] = Waiting /\ toGuest[a] = <<>> /\ toHost[a] = <<>>

\* It carries the request the host waits for, or its run, or its response; a
\* response that is too large leaves the guest stuck or dead.
InHand(a, c) ==
  \/ /\ guest[a] = Waiting /\ toGuest[a] = <<Request(c)>> /\ toHost[a] = <<>>
     /\ ran[c] = "no"
  \/ /\ guest[a] = <<"run", c>> /\ toGuest[a] = <<>> /\ toHost[a] = <<>>
     /\ ran[c] = "no"
  \/ /\ guest[a] = <<"reply", c>> /\ toGuest[a] = <<>> /\ toHost[a] = <<>>
     /\ ran[c] # "no"
  \/ /\ toGuest[a] = <<>> /\ toHost[a] = <<Response(c, ran[c])>>
     /\ ran[c] # "no"
     /\ guest[a] = IF TooLarge(Response(c, ran[c])) /\ vm[a] = "up"
                   THEN <<"stuck", c>> ELSE Waiting

\* Behind a response that was too large nothing is read any more, on either side.
Spoilt(a) ==
  /\ toHost[a] = <<Rest>>
  /\ vm[a] = "up" => guest[a][1] = "stuck"

\* The guest is asked to exit, by a destroy that waits for it.
Closing(a) ==
  /\ op = <<"wait", a>>
  /\ guest[a] = Waiting /\ toGuest[a] = <<Shutdown>> /\ toHost[a] = <<>>

\* The host waits for the response to call c of agent a.
Awaits(a, c) == op = <<"await", c>> /\ Owner[c] = a

Stream(a) ==
  /\ \/ Quiet(a)
     \/ \E c \in Call : Awaits(a, c) /\ InHand(a, c)
     \/ Spoilt(a)
     \/ Closing(a)
  /\ vm[a] # "up" => guest[a] = Waiting /\ toGuest[a] = <<>>
  /\ vm[a] \in {"none", "booting"} => toHost[a] = <<>>

StreamInv == \A a \in Agent : Stream(a)

IInv == TypeOK /\ OpInv /\ MachineInv /\ RunInv /\ StreamInv /\ NoStrayMachine

-----------------------------------------------------------------------------
(* The initial states *)

USE DEF Idle, Waiting, Shutdown, Rest, Request, Response, Executing

LEMMA InitIInv == Init => IInv
<1> SUFFICES ASSUME Init PROVE IInv
  OBVIOUS
<1> USE SandboxAssumption DEF Init
<1>1. TypeOK
  BY DEF TypeOK, Operation, Activity
<1>2. OpInv /\ MachineInv /\ RunInv
  BY DEF OpInv, MachineInv, RunInv
<1>3. StreamInv /\ NoStrayMachine
  BY DEF StreamInv, Stream, Quiet, NoStrayMachine, Alive
<1>. QED
  BY <1>1, <1>2, <1>3 DEF IInv

-----------------------------------------------------------------------------
(* Streams that a step leaves alone *)

\* Nothing of the stream changed, and no operation that uses it ended.
LEMMA StreamKept ==
  ASSUME NEW a \in Agent, Stream(a),
         guest'[a] = guest[a], toGuest'[a] = toGuest[a], toHost'[a] = toHost[a],
         vm'[a] = vm[a],
         \A c \in Call : Awaits(a, c) => op' = op /\ ran'[c] = ran[c],
         op = <<"wait", a>> => op' = op
  PROVE  Stream(a)'
<1>1. Quiet(a) => Quiet(a)'
  BY DEF Quiet
<1>2. \A c \in Call : Awaits(a, c) /\ InHand(a, c) => Awaits(a, c)' /\ InHand(a, c)'
  BY DEF Awaits, InHand, TooLarge
<1>3. (Spoilt(a) => Spoilt(a)') /\ (Closing(a) => Closing(a)')
  BY DEF Spoilt, Closing
<1>. QED
  BY <1>1, <1>2, <1>3 DEF Stream

\* What is on a stream when the host reads it: nothing but the response it waits
\* for, or the body of one that was too large.
LEMMA HeadOfStream ==
  ASSUME NEW a \in Agent, Stream(a), toHost[a] # <<>>
  PROVE  \/ toHost[a] = <<Rest>> /\ Spoilt(a)
         \/ \E c \in Call : /\ Awaits(a, c)
                             /\ toHost[a] = <<Response(c, ran[c])>> /\ ran[c] # "no"
                             /\ toGuest[a] = <<>>
                             /\ guest[a] = IF TooLarge(Response(c, ran[c])) /\ vm[a] = "up"
                                           THEN <<"stuck", c>> ELSE Waiting
BY DEF Stream, Quiet, InHand, Spoilt, Closing

\* A machine that is not up has nothing to read.
LEMMA DeadStream ==
  ASSUME NEW a \in Agent, Stream(a), ~Alive(a), toHost[a] = <<>>
  PROVE  Quiet(a)
BY DEF Stream, Quiet, Alive

-----------------------------------------------------------------------------
(* Each step keeps the invariant *)

\* An operation begins only when none is in progress.
LEMMA BeginSpawnKeeps ==
  ASSUME IInv, NEW a \in Agent, BeginSpawn(a)
  PROVE  IInv'
<1> USE SandboxAssumption DEF IInv, BeginSpawn
<1>1. TypeOK'
  BY DEF TypeOK, Operation, Returns, Reported, Response
<1>2. OpInv'
  BY DEF OpInv, MachineInv, TypeOK, Returns, Reported
<1>3. MachineInv'
  BY DEF OpInv, MachineInv, TypeOK
<1>4. RunInv'
  BY DEF OpInv, RunInv, TypeOK, Returns, Reported
<1>5. StreamInv'
  BY StreamKept DEF StreamInv, OpInv, Awaits, TypeOK, Returns
<1>6. NoStrayMachine'
  BY DEF NoStrayMachine, Alive, OpInv, MachineInv, TypeOK, Returns
<1>. QED
  BY <1>1, <1>2, <1>3, <1>4, <1>5, <1>6

\* The mock backend has no machines.
LEMMA MockSpawnsKeeps ==
  ASSUME IInv, NEW a \in Agent, MockSpawns(a)
  PROVE  IInv'
<1> USE SandboxAssumption DEF IInv, MockSpawns
<1>1. TypeOK'
  BY DEF TypeOK, Operation, Returns, Reported, Response
<1>2. OpInv'
  BY DEF OpInv, MachineInv, TypeOK, Returns, Reported
<1>3. MachineInv'
  BY DEF OpInv, MachineInv, TypeOK
<1>4. RunInv'
  BY DEF OpInv, RunInv, TypeOK, Returns, Reported
<1>5. StreamInv'
  BY StreamKept DEF StreamInv, OpInv, Awaits, TypeOK, Returns
<1>6. NoStrayMachine'
  BY DEF NoStrayMachine, Alive, OpInv, MachineInv, TypeOK, Returns
<1>. QED
  BY <1>1, <1>2, <1>3, <1>4, <1>5, <1>6

\* The machine belongs to the operation that starts it.
LEMMA StartMachineKeeps ==
  ASSUME IInv, NEW a \in Agent, StartMachine(a)
  PROVE  IInv'
<1> USE SandboxAssumption DEF IInv, StartMachine
<1>1. TypeOK'
  BY DEF TypeOK, Operation, Returns, Reported, Response
<1>2. OpInv'
  BY DEF OpInv, MachineInv, TypeOK, Returns, Reported
<1>3. MachineInv'
  BY DEF OpInv, MachineInv, TypeOK
<1>4. RunInv'
  BY DEF OpInv, RunInv, TypeOK, Returns, Reported
<1>5. StreamInv'
  <2>1. vm[a] = "none"
    BY DEF OpInv
  <2>2. Quiet(a)'
    BY <2>1 DEF StreamInv, Stream, Quiet
  <2>3. Stream(a)'
    BY <2>1, <2>2 DEF StreamInv, Stream, Quiet
  <2>4. \A b \in Agent \ {a} : Stream(b)'
    BY StreamKept DEF StreamInv, Awaits, TypeOK
  <2>. QED
    BY <2>3, <2>4 DEF StreamInv
<1>6. NoStrayMachine'
  BY DEF NoStrayMachine, Alive, OpInv, MachineInv, TypeOK, Returns
<1>. QED
  BY <1>1, <1>2, <1>3, <1>4, <1>5, <1>6

\* A spawn that fails before there is a process leaves nothing.
LEMMA SpawnFailsKeeps ==
  ASSUME IInv, NEW a \in Agent, SpawnFails(a)
  PROVE  IInv'
<1> USE SandboxAssumption DEF IInv, SpawnFails
<1>1. TypeOK'
  BY DEF TypeOK, Operation, Returns, Reported, Response
<1>2. OpInv'
  BY DEF OpInv, MachineInv, TypeOK, Returns, Reported
<1>3. MachineInv'
  BY DEF OpInv, MachineInv, TypeOK
<1>4. RunInv'
  BY DEF OpInv, RunInv, TypeOK, Returns, Reported
<1>5. StreamInv'
  BY StreamKept DEF StreamInv, OpInv, Awaits, TypeOK, Returns
<1>6. NoStrayMachine'
  BY DEF NoStrayMachine, Alive, OpInv, MachineInv, TypeOK, Returns
<1>. QED
  BY <1>1, <1>2, <1>3, <1>4, <1>5, <1>6

\* The machine gets its entry.
LEMMA ConnectsKeeps ==
  ASSUME IInv, NEW a \in Agent, Connects(a)
  PROVE  IInv'
<1> USE SandboxAssumption DEF IInv, Connects
<1>1. TypeOK'
  BY DEF TypeOK, Operation, Returns, Reported, Response
<1>2. OpInv'
  BY DEF OpInv, MachineInv, TypeOK, Returns, Reported
<1>3. MachineInv'
  BY DEF OpInv, MachineInv, TypeOK
<1>4. RunInv'
  BY DEF OpInv, RunInv, TypeOK, Returns, Reported
<1>5. StreamInv'
  BY StreamKept DEF StreamInv, OpInv, Awaits, TypeOK, Returns
<1>6. NoStrayMachine'
  BY DEF NoStrayMachine, Alive, OpInv, MachineInv, TypeOK, Returns
<1>. QED
  BY <1>1, <1>2, <1>3, <1>4, <1>5, <1>6

\* The machine is given up.
LEMMA BootTimesOutKeeps ==
  ASSUME IInv, NEW a \in Agent, BootTimesOut(a)
  PROVE  IInv'
<1> USE SandboxAssumption DEF IInv, BootTimesOut
<1>1. TypeOK'
  BY DEF TypeOK, Operation, Returns, Reported, Response
<1>2. OpInv'
  BY DEF OpInv, MachineInv, TypeOK, Returns, Reported
<1>3. MachineInv'
  BY DEF OpInv, MachineInv, TypeOK
<1>4. RunInv'
  BY DEF OpInv, RunInv, TypeOK, Returns, Reported
<1>5. StreamInv'
  BY StreamKept DEF StreamInv, OpInv, Awaits, TypeOK, Returns
<1>6. NoStrayMachine'
  BY DEF NoStrayMachine, Alive, OpInv, MachineInv, TypeOK, Returns
<1>. QED
  BY <1>1, <1>2, <1>3, <1>4, <1>5, <1>6

\* The call is submitted, and the stream is as the last call left it.
LEMMA BeginExecuteKeeps ==
  ASSUME IInv, NEW c \in Call, BeginExecute(c)
  PROVE  IInv'
<1> USE SandboxAssumption DEF IInv, BeginExecute
<1>1. TypeOK'
  BY DEF TypeOK, Operation, Returns, Reported, Response
<1>2. OpInv'
  BY DEF OpInv, MachineInv, TypeOK, Returns, Reported
<1>3. MachineInv'
  BY DEF OpInv, MachineInv, TypeOK
<1>4. RunInv'
  BY DEF OpInv, RunInv, TypeOK, Returns, Reported
<1>5. StreamInv'
  BY StreamKept DEF StreamInv, OpInv, Awaits, TypeOK, Returns
<1>6. NoStrayMachine'
  BY DEF NoStrayMachine, Alive, OpInv, MachineInv, TypeOK, Returns
<1>. QED
  BY <1>1, <1>2, <1>3, <1>4, <1>5, <1>6

\* A call without a sandbox is answered at once.
LEMMA NotFoundKeeps ==
  ASSUME IInv, NEW c \in Call, NotFound(c)
  PROVE  IInv'
<1> USE SandboxAssumption DEF IInv, NotFound
<1>1. TypeOK'
  BY DEF TypeOK, Operation, Returns, Reported, Response
<1>2. OpInv'
  BY DEF OpInv, MachineInv, TypeOK, Returns, Reported
<1>3. MachineInv'
  BY DEF OpInv, MachineInv, TypeOK
<1>4. RunInv'
  BY DEF OpInv, RunInv, TypeOK, Returns, Reported
<1>5. StreamInv'
  BY StreamKept DEF StreamInv, OpInv, Awaits, TypeOK, Returns
<1>6. NoStrayMachine'
  BY DEF NoStrayMachine, Alive, OpInv, MachineInv, TypeOK, Returns
<1>. QED
  BY <1>1, <1>2, <1>3, <1>4, <1>5, <1>6

\* The mock backend runs the call it was handed.
LEMMA MockRunsKeeps ==
  ASSUME IInv, NEW c \in Call, MockRuns(c)
  PROVE  IInv'
<1> USE SandboxAssumption DEF IInv, MockRuns
<1>1. TypeOK'
  BY DEF TypeOK, Operation, Returns, Reported, Response
<1>2. OpInv'
  BY DEF OpInv, MachineInv, TypeOK, Returns, Reported
<1>3. MachineInv'
  BY DEF OpInv, MachineInv, TypeOK
<1>4. RunInv'
  BY DEF OpInv, RunInv, TypeOK, Returns, Reported
<1>5. StreamInv'
  BY StreamKept DEF StreamInv, OpInv, Awaits, TypeOK, Returns
<1>6. NoStrayMachine'
  BY DEF NoStrayMachine, Alive, OpInv, MachineInv, TypeOK, Returns
<1>. QED
  BY <1>1, <1>2, <1>3, <1>4, <1>5, <1>6

\* It reports the call it ran.
LEMMA MockReturnsKeeps ==
  ASSUME IInv, NEW c \in Call, MockReturns(c)
  PROVE  IInv'
<1> USE SandboxAssumption DEF IInv, MockReturns
<1>1. TypeOK'
  BY DEF TypeOK, Operation, Returns, Reported, Response
<1>2. OpInv'
  BY DEF OpInv, MachineInv, TypeOK, Returns, Reported
<1>3. MachineInv'
  BY DEF OpInv, MachineInv, TypeOK
<1>4. RunInv'
  BY DEF OpInv, RunInv, TypeOK, Returns, Reported
<1>5. StreamInv'
  BY StreamKept DEF StreamInv, OpInv, Awaits, TypeOK, Returns
<1>6. NoStrayMachine'
  BY DEF NoStrayMachine, Alive, OpInv, MachineInv, TypeOK, Returns
<1>. QED
  BY <1>1, <1>2, <1>3, <1>4, <1>5, <1>6

\* It gives up a command that has not ended.
LEMMA MockTimesOutKeeps ==
  ASSUME IInv, NEW c \in Call, MockTimesOut(c)
  PROVE  IInv'
<1> USE SandboxAssumption DEF IInv, MockTimesOut
<1>1. TypeOK'
  BY DEF TypeOK, Operation, Returns, Reported, Response
<1>2. OpInv'
  BY DEF OpInv, MachineInv, TypeOK, Returns, Reported
<1>3. MachineInv'
  BY DEF OpInv, MachineInv, TypeOK
<1>4. RunInv'
  BY DEF OpInv, RunInv, TypeOK, Returns, Reported
<1>5. StreamInv'
  BY StreamKept DEF StreamInv, OpInv, Awaits, TypeOK, Returns
<1>6. NoStrayMachine'
  BY DEF NoStrayMachine, Alive, OpInv, MachineInv, TypeOK, Returns
<1>. QED
  BY <1>1, <1>2, <1>3, <1>4, <1>5, <1>6

\* Such a command may end at any time.
LEMMA ForgottenCommandEndsKeeps ==
  ASSUME IInv, NEW c \in Call, ForgottenCommandEnds(c)
  PROVE  IInv'
<1> USE SandboxAssumption DEF IInv, ForgottenCommandEnds
<1>1. TypeOK'
  BY DEF TypeOK, Operation, Returns, Reported, Response
<1>2. OpInv'
  BY DEF OpInv, MachineInv, TypeOK, Returns, Reported
<1>3. MachineInv'
  BY DEF OpInv, MachineInv, TypeOK
<1>4. RunInv'
  BY DEF OpInv, RunInv, TypeOK, Returns, Reported
<1>5. StreamInv'
  BY StreamKept DEF StreamInv, OpInv, Awaits, TypeOK, Returns
<1>6. NoStrayMachine'
  BY DEF NoStrayMachine, Alive, OpInv, MachineInv, TypeOK, Returns
<1>. QED
  BY <1>1, <1>2, <1>3, <1>4, <1>5, <1>6

\* The host reads the end of the stream.
LEMMA RecvFailsKeeps ==
  ASSUME IInv, NEW c \in Call, RecvFails(c)
  PROVE  IInv'
<1> USE SandboxAssumption DEF IInv, RecvFails
<1>1. TypeOK'
  BY DEF TypeOK, Operation, Returns, Reported, Response
<1>2. OpInv'
  BY DEF OpInv, MachineInv, TypeOK, Returns, Reported
<1>3. MachineInv'
  BY DEF OpInv, MachineInv, TypeOK
<1>4. RunInv'
  BY DEF OpInv, RunInv, TypeOK, Returns, Reported
<1>5. StreamInv'
  <2>1. Quiet(Owner[c])'
    BY DeadStream DEF StreamInv, Quiet
  <2>2. Stream(Owner[c])'
    BY <2>1 DEF StreamInv, Stream, Quiet
  <2>3. \A a \in Agent \ {Owner[c]} : Stream(a)'
    BY StreamKept DEF StreamInv, Awaits, Returns
  <2>. QED
    BY <2>2, <2>3 DEF StreamInv
<1>6. NoStrayMachine'
  BY DEF NoStrayMachine, Alive, OpInv, MachineInv, TypeOK, Returns
<1>. QED
  BY <1>1, <1>2, <1>3, <1>4, <1>5, <1>6

\* The entry goes; the operation answers for the machine from here.
LEMMA BeginDestroyKeeps ==
  ASSUME IInv, NEW a \in Agent, BeginDestroy(a)
  PROVE  IInv'
<1> USE SandboxAssumption DEF IInv, BeginDestroy
<1>1. TypeOK'
  BY DEF TypeOK, Operation, Returns, Reported, Response
<1>2. OpInv'
  BY DEF OpInv, MachineInv, TypeOK, Returns, Reported
<1>3. MachineInv'
  BY DEF OpInv, MachineInv, TypeOK
<1>4. RunInv'
  BY DEF OpInv, RunInv, TypeOK, Returns, Reported
<1>5. StreamInv'
  BY StreamKept DEF StreamInv, OpInv, Awaits, TypeOK, Returns
<1>6. NoStrayMachine'
  BY DEF NoStrayMachine, Alive, OpInv, MachineInv, TypeOK, Returns
<1>. QED
  BY <1>1, <1>2, <1>3, <1>4, <1>5, <1>6

\* The operation ends after the machine did.
LEMMA MachineEndedKeeps ==
  ASSUME IInv, NEW a \in Agent, MachineEnded(a)
  PROVE  IInv'
<1> USE SandboxAssumption DEF IInv, MachineEnded
<1>1. TypeOK'
  BY DEF TypeOK, Operation, Returns, Reported, Response
<1>2. OpInv'
  BY DEF OpInv, MachineInv, TypeOK, Returns, Reported
<1>3. MachineInv'
  BY DEF OpInv, MachineInv, TypeOK
<1>4. RunInv'
  BY DEF OpInv, RunInv, TypeOK, Returns, Reported
<1>5. StreamInv'
  <2>1. guest[a] = Waiting /\ toGuest[a] = <<>> /\ Stream(a)
    BY DEF StreamInv, Stream, Alive, TypeOK
  <2>2. toHost[a] = <<>> \/ Spoilt(a)
    BY <2>1, HeadOfStream DEF Awaits
  <2>3. (Quiet(a) \/ Spoilt(a))'
    BY <2>1, <2>2 DEF Quiet, Spoilt
  <2>4. Stream(a)'
    BY <2>1, <2>3 DEF Stream
  <2>5. \A b \in Agent \ {a} : Stream(b)'
    BY StreamKept DEF StreamInv, Awaits
  <2>. QED
    BY <2>4, <2>5 DEF StreamInv
<1>6. NoStrayMachine'
  BY DEF NoStrayMachine, Alive, OpInv, MachineInv, TypeOK, Returns
<1>. QED
  BY <1>1, <1>2, <1>3, <1>4, <1>5, <1>6

\* A machine boots, perhaps one nobody waits for.
LEMMA GuestListensKeeps ==
  ASSUME IInv, NEW a \in Agent, GuestListens(a)
  PROVE  IInv'
<1> USE SandboxAssumption DEF IInv, GuestListens
<1>1. TypeOK'
  BY DEF TypeOK, Operation, Returns, Reported, Response
<1>2. OpInv'
  BY DEF OpInv, MachineInv, TypeOK, Returns, Reported
<1>3. MachineInv'
  BY DEF OpInv, MachineInv, TypeOK
<1>4. RunInv'
  BY DEF OpInv, RunInv, TypeOK, Returns, Reported
<1>5. StreamInv'
  <2>1. vm[a] = "booting"
    BY DEF OpInv
  <2>2. Quiet(a)'
    BY <2>1 DEF StreamInv, Stream, Quiet
  <2>3. Stream(a)'
    BY <2>1, <2>2 DEF StreamInv, Stream, Quiet
  <2>4. \A b \in Agent \ {a} : Stream(b)'
    BY StreamKept DEF StreamInv, Awaits, TypeOK
  <2>. QED
    BY <2>3, <2>4 DEF StreamInv
<1>6. NoStrayMachine'
  BY DEF NoStrayMachine, Alive, OpInv, MachineInv, TypeOK, Returns
<1>. QED
  BY <1>1, <1>2, <1>3, <1>4, <1>5, <1>6

\* The request enters a stream that is quiet or spoilt.
LEMMA SendFrameKeeps ==
  ASSUME IInv, NEW c \in Call, SendFrame(c)
  PROVE  IInv'
<1> USE SandboxAssumption DEF IInv, SendFrame
<1>1. TypeOK'
  <2>1. Request(c) \in Frame /\ Owner[c] \in Agent
    BY DEF Frame
  <2>2. Append(toGuest[Owner[c]], Request(c)) \in Seq(Frame)
    BY <2>1 DEF TypeOK
  <2>3. toGuest' \in [Agent -> Seq(Frame)]
    <3>1. \/ toGuest' = toGuest
          \/ toGuest' = [toGuest EXCEPT ![Owner[c]] = Append(toGuest[Owner[c]], Request(c))]
      OBVIOUS
    <3>2. toGuest \in [Agent -> Seq(Frame)]
      BY DEF TypeOK
    <3>. QED
      BY <2>1, <2>2, <3>1, <3>2
  <2>4. op' \in Operation /\ result' \in [Call -> {"none", "submitted", "ok", "error", "lost", "expired"}]
    <3>1. \/ op' = <<"await", c>> /\ result' = result
          \/ Returns(c, "lost")
      OBVIOUS
    <3>2. <<"await", c>> \in Operation /\ Idle \in Operation
      BY DEF Operation
    <3>. QED
      BY <3>1, <3>2 DEF TypeOK, Returns
  <2>. QED
    BY <2>3, <2>4 DEF TypeOK
<1>2. OpInv'
  BY DEF OpInv, MachineInv, TypeOK, Returns, Reported
<1>3. MachineInv'
  BY DEF OpInv, MachineInv, TypeOK
<1>4. RunInv'
  BY DEF OpInv, RunInv, TypeOK, Returns, Reported
<1>5. StreamInv'
  <2> DEFINE a == Owner[c]
  <2>1. CASE ~Alive(a)
    BY <2>1, StreamKept DEF StreamInv, Awaits, Returns
  <2>2. CASE Alive(a)
    <3>1. vm[a] = "up" /\ a \in Agent
      BY <2>2 DEF Alive, OpInv, MachineInv, TypeOK
    <3>2. Quiet(a) \/ Spoilt(a)
      BY <3>1 DEF StreamInv, Stream, Awaits, Closing
    <3>3. /\ toGuest'[a] = Append(toGuest[a], Request(c)) /\ op' = <<"await", c>>
          /\ UNCHANGED <<guest, toHost, vm, ran>>
      BY <2>2 DEF TypeOK
    <3>4. Quiet(a) => Awaits(a, c)' /\ InHand(a, c)'
      BY <3>3 DEF Quiet, Awaits, InHand, RunInv
    <3>5. Spoilt(a) => Spoilt(a)'
      BY <3>3 DEF Spoilt
    <3>6. Stream(a)'
      BY <3>1, <3>2, <3>3, <3>4, <3>5 DEF Stream
    <3>7. \A b \in Agent \ {a} : Stream(b)'
      BY <2>2, StreamKept DEF StreamInv, Awaits, TypeOK
    <3>. QED
      BY <3>6, <3>7 DEF StreamInv
  <2>. QED
    BY <2>1, <2>2
<1>6. NoStrayMachine'
  BY DEF NoStrayMachine, Alive, OpInv, MachineInv, TypeOK, Returns
<1>. QED
  BY <1>1, <1>2, <1>3, <1>4, <1>5, <1>6

\* The response read is the one to the call, and the stream is quiet again.
LEMMA RecvFrameKeeps ==
  ASSUME IInv, NEW c \in Call, RecvFrame(c)
  PROVE  IInv'
<1> USE SandboxAssumption DEF IInv, RecvFrame
<1>0. Stream(Owner[c]) /\ Owner[c] \in Agent
  BY DEF StreamInv
<1>9. /\ toHost[Owner[c]] = <<Response(c, ran[c])>> /\ ran[c] # "no"
      /\ guest[Owner[c]] = Waiting /\ toGuest[Owner[c]] = <<>>
  <2>1. toHost[Owner[c]] # <<>> /\ ~TooLarge(Head(toHost[Owner[c]]))
    OBVIOUS
  <2>2. toHost[Owner[c]] # <<Rest>>
    BY <2>1 DEF TooLarge
  <2>3. PICK d \in Call :
          /\ Awaits(Owner[c], d)
          /\ toHost[Owner[c]] = <<Response(d, ran[d])>> /\ ran[d] # "no"
          /\ toGuest[Owner[c]] = <<>>
          /\ guest[Owner[c]] = IF TooLarge(Response(d, ran[d])) /\ vm[Owner[c]] = "up"
                               THEN <<"stuck", d>> ELSE Waiting
    BY <1>0, <2>1, <2>2, HeadOfStream
  <2>4. d = c
    BY <2>3 DEF Awaits
  <2>5. ~TooLarge(Response(c, ran[c]))
    BY <2>1, <2>3, <2>4
  <2>. QED
    BY <2>3, <2>4, <2>5
<1>1. TypeOK'
  <2>1. Tail(toHost[Owner[c]]) \in Seq(Answer)
    BY <1>0 DEF TypeOK
  <2>2. toHost' \in [Agent -> Seq(Answer)]
    BY <1>0, <2>1 DEF TypeOK
  <2>3. op' \in Operation /\ result' \in [Call -> {"none", "submitted", "ok", "error", "lost", "expired"}]
    BY DEF TypeOK, Operation, Returns, Reported
  <2>. QED
    BY <2>2, <2>3 DEF TypeOK
<1>2. OpInv'
  BY DEF OpInv, MachineInv, TypeOK, Returns, Reported
<1>3. MachineInv'
  BY DEF OpInv, MachineInv, TypeOK
<1>4. RunInv'
  BY DEF OpInv, RunInv, TypeOK, Returns, Reported
<1>5. StreamInv'
  <2> DEFINE a == Owner[c]
  <2>1. Quiet(a)'
    BY <1>0, <1>9 DEF Quiet, TypeOK
  <2>7. Stream(a)'
    BY <1>0, <2>1 DEF Stream, Quiet
  <2>8. \A b \in Agent \ {a} : Stream(b)'
    BY StreamKept DEF StreamInv, Awaits, Returns, TypeOK
  <2>. QED
    BY <2>7, <2>8 DEF StreamInv
<1>6. NoStrayMachine'
  BY DEF NoStrayMachine, Alive, OpInv, MachineInv, TypeOK, Returns
<1>. QED
  BY <1>1, <1>2, <1>3, <1>4, <1>5, <1>6

\* The body of the response stays, and the guest is stuck behind it.
LEMMA RecvTooLargeKeeps ==
  ASSUME IInv, NEW c \in Call, RecvTooLarge(c)
  PROVE  IInv'
<1> USE SandboxAssumption DEF IInv, RecvTooLarge
<1>0. Stream(Owner[c]) /\ Owner[c] \in Agent
  BY DEF StreamInv
<1>9. /\ toHost'[Owner[c]] = <<Rest>>
      /\ vm[Owner[c]] = "up" => guest[Owner[c]][1] = "stuck"
  <2>1. \/ toHost[Owner[c]] = <<Rest>> /\ Spoilt(Owner[c])
        \/ /\ toHost[Owner[c]] = <<Response(c, ran[c])>>
           /\ guest[Owner[c]] = IF TooLarge(Response(c, ran[c])) /\ vm[Owner[c]] = "up"
                                THEN <<"stuck", c>> ELSE Waiting
    BY <1>0, HeadOfStream DEF Awaits
  <2>2. toHost'[Owner[c]] = <<Rest>> \o Tail(toHost[Owner[c]])
    BY <1>0 DEF TypeOK
  <2>3. toHost'[Owner[c]] = <<Rest>>
    <3>1. \A x : <<Rest>> \o Tail(<<x>>) = <<Rest>>
      OBVIOUS
    <3>. QED
      BY <2>1, <2>2, <3>1
  <2>4. vm[Owner[c]] = "up" => guest[Owner[c]][1] = "stuck"
    <3>1. CASE toHost[Owner[c]] = <<Rest>> /\ Spoilt(Owner[c])
      BY <3>1 DEF Spoilt
    <3>2. CASE /\ toHost[Owner[c]] = <<Response(c, ran[c])>>
               /\ guest[Owner[c]] = IF TooLarge(Response(c, ran[c])) /\ vm[Owner[c]] = "up"
                                    THEN <<"stuck", c>> ELSE Waiting
      <4>1. TooLarge(Response(c, ran[c]))
        <5>1. Head(toHost[Owner[c]]) = Response(c, ran[c])
          BY <3>2
        <5>. QED
          BY <5>1
      <4>. QED
        BY <3>2, <4>1
    <3>. QED
      BY <2>1, <3>1, <3>2
  <2>. QED
    BY <2>3, <2>4
<1>1. TypeOK'
  <2>1. Tail(toHost[Owner[c]]) \in Seq(Answer)
    BY <1>0 DEF TypeOK
  <2>4. <<Rest>> \o Tail(toHost[Owner[c]]) \in Seq(Answer)
    BY <2>1 DEF Answer
  <2>2. toHost' \in [Agent -> Seq(Answer)]
    BY <1>0, <2>4 DEF TypeOK
  <2>3. op' \in Operation /\ result' \in [Call -> {"none", "submitted", "ok", "error", "lost", "expired"}]
    BY DEF TypeOK, Operation, Returns, Reported
  <2>. QED
    BY <2>2, <2>3 DEF TypeOK
<1>2. OpInv'
  BY DEF OpInv, MachineInv, TypeOK, Returns, Reported
<1>3. MachineInv'
  BY DEF OpInv, MachineInv, TypeOK
<1>4. RunInv'
  BY DEF OpInv, RunInv, TypeOK, Returns, Reported
<1>5. StreamInv'
  <2> DEFINE a == Owner[c]
  <2>1. Spoilt(a)'
    BY <1>9 DEF Spoilt
  <2>7. Stream(a)'
    BY <1>0, <1>9, <2>1 DEF Stream, TypeOK
  <2>8. \A b \in Agent \ {a} : Stream(b)'
    BY StreamKept DEF StreamInv, Awaits, Returns, TypeOK
  <2>. QED
    BY <2>7, <2>8 DEF StreamInv
<1>6. NoStrayMachine'
  BY DEF NoStrayMachine, Alive, OpInv, MachineInv, TypeOK, Returns
<1>. QED
  BY <1>1, <1>2, <1>3, <1>4, <1>5, <1>6

\* The request to exit enters a stream that is quiet or spoilt.
LEMMA StopMachineKeeps ==
  ASSUME IInv, NEW a \in Agent, StopMachine(a)
  PROVE  IInv'
<1> USE SandboxAssumption DEF IInv, StopMachine
<1>1. TypeOK'
  <2>1. Append(toGuest[a], Shutdown) \in Seq(Frame)
    BY DEF TypeOK, Frame
  <2>2. toGuest' \in [Agent -> Seq(Frame)]
    BY <2>1 DEF TypeOK
  <2>3. op' \in Operation
    BY DEF Operation
  <2>. QED
    BY <2>2, <2>3 DEF TypeOK
<1>2. OpInv'
  BY DEF OpInv, MachineInv, TypeOK, Returns, Reported
<1>3. MachineInv'
  BY DEF OpInv, MachineInv, TypeOK
<1>4. RunInv'
  BY DEF OpInv, RunInv, TypeOK, Returns, Reported
<1>5. StreamInv'
  <2>1. (Quiet(a) \/ Spoilt(a)) /\ Stream(a) /\ vm[a] \in {"up", "dead"}
    BY DEF StreamInv, Stream, Awaits, Closing, OpInv
  <2>2. vm[a] = "up" => Stream(a)'
    <3> HAVE vm[a] = "up"
    <3>1. toGuest'[a] = Append(toGuest[a], Shutdown)
      BY DEF Alive, TypeOK
    <3>2. Quiet(a) => Closing(a)'
      BY <3>1 DEF Quiet, Closing
    <3>3. Spoilt(a) => Spoilt(a)'
      BY DEF Spoilt
    <3>. QED
      BY <2>1, <3>2, <3>3 DEF Stream, Quiet, Spoilt, Closing
  <2>3. vm[a] = "dead" => Stream(a)'
    <3> HAVE vm[a] = "dead"
    <3>1. toGuest' = toGuest
      BY DEF Alive
    <3>. QED
      BY <2>1, <3>1 DEF Stream, Quiet, Spoilt
  <2>7. Stream(a)'
    BY <2>1, <2>2, <2>3
  <2>8. \A b \in Agent \ {a} : Stream(b)'
    BY StreamKept DEF StreamInv, Awaits, Returns, TypeOK
  <2>. QED
    BY <2>7, <2>8 DEF StreamInv
<1>6. NoStrayMachine'
  BY DEF NoStrayMachine, Alive, OpInv, MachineInv, TypeOK, Returns
<1>. QED
  BY <1>1, <1>2, <1>3, <1>4, <1>5, <1>6


\* A machine that ends, killed or not, clears what was on its way to the guest;
\* what it had sent may be lost.
LEMMA MachineGoesKeeps ==
  ASSUME IInv, NEW a \in Agent, Alive(a), MachineGoes(a)
  PROVE  IInv'
<1> USE SandboxAssumption DEF IInv, MachineGoes
<1>1. TypeOK'
  <2>1. toHost' \in [Agent -> Seq(Answer)]
    <3>1. <<>> \in Seq(Answer) /\ toHost \in [Agent -> Seq(Answer)]
      BY DEF TypeOK
    <3>2. [toHost EXCEPT ![a] = <<>>] \in [Agent -> Seq(Answer)]
      BY <3>1
    <3>. QED
      BY <3>1, <3>2
  <2>2. guest' \in [Agent -> Activity] /\ toGuest' \in [Agent -> Seq(Frame)]
    BY DEF TypeOK, Activity
  <2>3. vm' \in [Agent -> {"none", "booting", "up", "dead"}]
    BY DEF TypeOK
  <2>. QED
    BY <2>1, <2>2, <2>3 DEF TypeOK
<1>2. OpInv'
  BY DEF OpInv, MachineInv, TypeOK, Alive
<1>3. MachineInv'
  BY DEF OpInv, MachineInv, TypeOK, Alive
<1>4. RunInv'
  BY DEF OpInv, RunInv, TypeOK
<1>5. StreamInv'
  <2>1. /\ vm'[a] = "dead" /\ guest'[a] = Waiting /\ toGuest'[a] = <<>>
        /\ toHost'[a] \in {toHost[a], <<>>}
        /\ UNCHANGED <<op, ran>>
    <3>1. toHost' = toHost \/ toHost' = [toHost EXCEPT ![a] = <<>>]
      OBVIOUS
    <3>2. toHost'[a] \in {toHost[a], <<>>}
      BY <3>1 DEF TypeOK
    <3>. QED
      BY <3>2 DEF TypeOK
  <2>2. toHost'[a] = <<>> => Stream(a)'
    BY <2>1 DEF Stream, Quiet
  <2>3. ASSUME toHost[a] # <<>>, toHost'[a] = toHost[a]
        PROVE  Stream(a)'
    <3>1. Stream(a)
      BY DEF StreamInv
    <3>2. CASE toHost[a] = <<Rest>>
      BY <2>1, <2>3, <3>2 DEF Stream, Spoilt
    <3>3. ASSUME NEW c \in Call, Awaits(a, c),
                 toHost[a] = <<Response(c, ran[c])>>, ran[c] # "no"
          PROVE  Stream(a)'
      <4>1. Awaits(a, c)'
        BY <2>1, <3>3 DEF Awaits
      <4>2. InHand(a, c)'
        BY <2>1, <2>3, <3>3 DEF InHand
      <4>. QED
        BY <2>1, <4>1, <4>2 DEF Stream
    <3>. QED
      BY <2>3, <3>1, <3>2, <3>3, HeadOfStream
  <2>7. Stream(a)'
    BY <2>1, <2>2, <2>3
  <2>8. \A b \in Agent \ {a} : Stream(b)'
    BY StreamKept DEF StreamInv, TypeOK
  <2>. QED
    BY <2>7, <2>8 DEF StreamInv
<1>6. NoStrayMachine'
  BY DEF NoStrayMachine, Alive, TypeOK
<1>. QED
  BY <1>1, <1>2, <1>3, <1>4, <1>5, <1>6

\* What a busy guest is doing is the call the host waits for.
LEMMA GuestAtWork ==
  ASSUME NEW a \in Agent, Stream(a), guest[a][1] \in {"run", "reply"}
  PROVE  \E c \in Call :
           /\ Awaits(a, c) /\ vm[a] = "up"
           /\ toGuest[a] = <<>> /\ toHost[a] = <<>>
           /\ \/ guest[a] = <<"run", c>> /\ ran[c] = "no"
              \/ guest[a] = <<"reply", c>> /\ ran[c] # "no"
<1>1. vm[a] = "up" /\ guest[a] # Waiting /\ ~Quiet(a) /\ ~Closing(a) /\ ~Spoilt(a)
  BY DEF Stream, Quiet, Closing, Spoilt
<1>2. PICK c \in Call : Awaits(a, c) /\ InHand(a, c)
  BY <1>1 DEF Stream
<1>. QED
  BY <1>1, <1>2 DEF InHand

\* A guest that waits reads the request the host sent, or is told to exit.
LEMMA GuestReadsKeeps ==
  ASSUME IInv, NEW a \in Agent, GuestReads(a)
  PROVE  IInv'
<1>1. CASE Head(toGuest[a]) = Shutdown
  BY <1>1, MachineGoesKeeps DEF GuestReads, Alive
<1>2. CASE Head(toGuest[a]) # Shutdown
  <2> USE SandboxAssumption DEF IInv
  <2>1. /\ guest' = [guest EXCEPT ![a] = <<"run", Head(toGuest[a])[2]>>]
        /\ toGuest' = [toGuest EXCEPT ![a] = Tail(@)]
        /\ UNCHANGED <<backend, managerVars, vm, signalled, toHost, ran>>
        /\ vm[a] = "up" /\ guest[a] = Waiting /\ toGuest[a] # <<>>
    BY <1>2 DEF GuestReads
  <2>2. PICK c \in Call : Awaits(a, c) /\ InHand(a, c)
    BY <1>2, <2>1 DEF StreamInv, Stream, Quiet, Spoilt, Closing
  <2>3. toGuest[a] = <<Request(c)>> /\ toHost[a] = <<>> /\ ran[c] = "no"
    BY <2>1, <2>2 DEF InHand
  <2>4. toGuest'[a] = <<>> /\ guest'[a] = <<"run", c>>
    BY <2>1, <2>3 DEF TypeOK
  <2>5. TypeOK'
    BY <2>1, <2>3 DEF TypeOK, Activity
  <2>6. OpInv' /\ MachineInv' /\ RunInv' /\ NoStrayMachine'
    BY <2>1 DEF OpInv, MachineInv, RunInv, NoStrayMachine, Alive
  <2>7. Stream(a)'
    <3>1. Awaits(a, c)' /\ InHand(a, c)'
      BY <2>1, <2>2, <2>3, <2>4 DEF Awaits, InHand
    <3>. QED
      BY <2>1, <3>1 DEF Stream
  <2>8. \A b \in Agent \ {a} : Stream(b)'
    BY <2>1, StreamKept DEF StreamInv, TypeOK
  <2>. QED
    BY <2>5, <2>6, <2>7, <2>8 DEF StreamInv
<1>. QED
  BY <1>1, <1>2

\* The run is that of the call in progress, and its first.
LEMMA GuestRunsKeeps ==
  ASSUME IInv, NEW a \in Agent, GuestRuns(a)
  PROVE  IInv'
<1> USE SandboxAssumption DEF IInv
<1>1. PICK c \in Call :
        /\ Awaits(a, c) /\ vm[a] = "up"
        /\ toGuest[a] = <<>> /\ toHost[a] = <<>>
        /\ guest[a] = <<"run", c>> /\ ran[c] = "no"
  <2>1. guest[a][1] = "run" /\ Stream(a)
    BY DEF GuestRuns, StreamInv
  <2>2. PICK c \in Call :
          /\ Awaits(a, c) /\ vm[a] = "up"
          /\ toGuest[a] = <<>> /\ toHost[a] = <<>>
          /\ \/ guest[a] = <<"run", c>> /\ ran[c] = "no"
             \/ guest[a] = <<"reply", c>> /\ ran[c] # "no"
    BY <2>1, GuestAtWork
  <2>3. guest[a] # <<"reply", c>>
    BY <2>1
  <2>. QED
    BY <2>2, <2>3
<1>2. PICK v \in Verdict : ran' = [ran EXCEPT ![c] = v]
  <2>1. guest[a][2] = c
    BY <1>1
  <2>. QED
    BY <2>1 DEF GuestRuns
<1>3. /\ guest' = [guest EXCEPT ![a] = <<"reply", c>>]
      /\ UNCHANGED <<backend, managerVars, vm, signalled, toGuest, toHost>>
  BY <1>1 DEF GuestRuns
<1>4. TypeOK'
  BY <1>2, <1>3 DEF TypeOK, Activity
<1>5. OpInv' /\ MachineInv' /\ NoStrayMachine'
  BY <1>3 DEF OpInv, MachineInv, NoStrayMachine, Alive
<1>6. RunInv'
  BY <1>1, <1>2, <1>3 DEF RunInv, OpInv, Awaits, TypeOK
<1>7. Stream(a)'
  <2>1. Awaits(a, c)' /\ InHand(a, c)'
    BY <1>1, <1>2, <1>3 DEF Awaits, InHand, TypeOK, Verdict
  <2>. QED
    BY <1>1, <1>3, <2>1 DEF Stream
<1>8. \A b \in Agent \ {a} : Stream(b)'
  <2>1. \A b \in Agent \ {a}, d \in Call : ~Awaits(b, d)
    BY <1>1 DEF Awaits
  <2>. QED
    BY <1>3, <2>1, StreamKept DEF StreamInv, TypeOK
<1>. QED
  BY <1>4, <1>5, <1>6, <1>7, <1>8 DEF StreamInv

\* The response is to the call in progress, and says what its run came to.
LEMMA GuestRepliesKeeps ==
  ASSUME IInv, NEW a \in Agent, GuestReplies(a)
  PROVE  IInv'
<1> USE SandboxAssumption DEF IInv
<1>1. PICK c \in Call :
        /\ Awaits(a, c) /\ vm[a] = "up"
        /\ toGuest[a] = <<>> /\ toHost[a] = <<>>
        /\ guest[a] = <<"reply", c>> /\ ran[c] # "no"
  BY GuestAtWork DEF GuestReplies, StreamInv
<1>2. /\ toHost' = [toHost EXCEPT ![a] = Append(@, Response(c, ran[c]))]
      /\ guest' = [guest EXCEPT ![a] = IF TooLarge(Response(c, ran[c]))
                                       THEN <<"stuck", c>> ELSE Waiting]
      /\ UNCHANGED <<backend, managerVars, vm, signalled, toGuest, ran>>
  BY <1>1 DEF GuestReplies
<1>3. toHost'[a] = <<Response(c, ran[c])>>
  BY <1>1, <1>2 DEF TypeOK
<1>4. TypeOK'
  <2>1. Response(c, ran[c]) \in Answer
    BY <1>1 DEF Answer, TypeOK
  <2>. QED
    BY <1>2, <2>1 DEF TypeOK, Activity
<1>5. OpInv' /\ MachineInv' /\ RunInv' /\ NoStrayMachine'
  BY <1>2 DEF OpInv, MachineInv, RunInv, NoStrayMachine, Alive
<1>7. Stream(a)'
  <2>1. Awaits(a, c)' /\ InHand(a, c)'
    BY <1>1, <1>2, <1>3 DEF Awaits, InHand, TypeOK, TooLarge
  <2>. QED
    BY <1>1, <1>2, <2>1 DEF Stream
<1>8. \A b \in Agent \ {a} : Stream(b)'
  BY <1>2, StreamKept DEF StreamInv, TypeOK
<1>. QED
  BY <1>4, <1>5, <1>7, <1>8 DEF StreamInv

\* Every step keeps the invariant.
LEMMA NextKeeps == IInv /\ [Next]_vars => IInv'
<1> SUFFICES ASSUME IInv, [Next]_vars PROVE IInv'
  OBVIOUS
<1>1. CASE UNCHANGED vars
  <2>1. UNCHANGED <<backend, managerVars, machineVars>>
    BY <1>1 DEF vars
  <2>2. TypeOK' /\ OpInv' /\ MachineInv' /\ RunInv' /\ NoStrayMachine'
    BY <2>1 DEF IInv, TypeOK, OpInv, MachineInv, RunInv, NoStrayMachine, Alive
  <2>3. StreamInv'
    BY <2>1, StreamKept DEF IInv, StreamInv
  <2>. QED
    BY <2>2, <2>3 DEF IInv
<1>2. ASSUME NEW a \in Agent,
             BeginSpawn(a) \/ SpawnStep(a) \/ BeginDestroy(a) \/ DestroyStep(a)
      PROVE  IInv'
  BY <1>2, BeginSpawnKeeps, MockSpawnsKeeps, StartMachineKeeps, SpawnFailsKeeps,
     ConnectsKeeps, BootTimesOutKeeps, BeginDestroyKeeps, StopMachineKeeps,
     MachineEndedKeeps DEF SpawnStep, DestroyStep
<1>3. ASSUME NEW a \in Agent,
             GuestListens(a) \/ GuestStep(a) \/ MachineKilled(a) \/ MachineCrashes(a)
      PROVE  IInv'
  BY <1>3, GuestListensKeeps, GuestReadsKeeps, GuestRunsKeeps, GuestRepliesKeeps,
     MachineGoesKeeps DEF GuestStep, MachineKilled, MachineCrashes
<1>4. ASSUME NEW c \in Call,
             BeginExecute(c) \/ NotFound(c) \/ ExecuteStep(c)
               \/ MockTimesOut(c) \/ ForgottenCommandEnds(c)
      PROVE  IInv'
  BY <1>4, BeginExecuteKeeps, NotFoundKeeps, SendFrameKeeps, RecvFrameKeeps,
     RecvTooLargeKeeps, RecvFailsKeeps, MockRunsKeeps, MockReturnsKeeps,
     MockTimesOutKeeps, ForgottenCommandEndsKeeps DEF ExecuteStep
<1>. QED
  BY <1>1, <1>2, <1>3, <1>4 DEF Next

-----------------------------------------------------------------------------
(* The theorems *)

\* The inductive invariant holds in every reachable state of the backends.
THEOREM InductiveInvariant == Spec => []IInv
BY InitIInv, NextKeeps, PTL DEF Spec

\* Every variable of the backends keeps its type: a frame to the guest is a request
\* or a shutdown, a frame to the host a response or the rest of one.
THEOREM TypeCorrect == Spec => []TypeOK
<1>1. IInv => TypeOK
  BY DEF IInv
<1>. QED
  BY InductiveInvariant, <1>1, PTL

\* A machine without an entry in the map is one being started or stopped, or one
\* given up at the boot deadline: destroy leaves none behind (manager.rs:136).
THEOREM NoMachineStrays == Spec => []NoStrayMachine
<1>1. IInv => NoStrayMachine
  BY DEF IInv
<1>. QED
  BY InductiveInvariant, <1>1, PTL

\* The three steps that run a call.
LEMMA WhoRuns ==
  ASSUME Next, NEW c \in Call, ran'[c] # ran[c]
  PROVE  \/ \E d \in Call : MockRuns(d) \/ ForgottenCommandEnds(d)
         \/ \E a \in Agent : GuestRuns(a)
BY DEF Next, SpawnStep, DestroyStep, ExecuteStep, GuestStep, BeginSpawn, MockSpawns,
   StartMachine, SpawnFails, Connects, BootTimesOut, BeginExecute, NotFound, SendFrame,
   RecvFrame, RecvTooLarge, RecvFails, MockReturns, MockTimesOut, BeginDestroy,
   StopMachine, MachineEnded, GuestListens, MachineGoes, MachineKilled, MachineCrashes,
   GuestReads, GuestReplies

\* A call runs under the operation that executes it, so in a sandbox, or is a
\* command of the mock's that was reported as expired.
LEMMA RunsUnderOperation ==
  ASSUME IInv, Next, NEW c \in Call, ran'[c] # ran[c]
  PROVE  Owner[c] \in sandboxes \/ result[c] = "expired"
<1> USE DEF IInv
<1>1. ASSUME NEW d \in Call, MockRuns(d) PROVE Owner[c] \in sandboxes
  BY <1>1 DEF MockRuns, OpInv, TypeOK
<1>2. ASSUME NEW d \in Call, ForgottenCommandEnds(d) PROVE result[c] = "expired"
  BY <1>2 DEF ForgottenCommandEnds, TypeOK
<1>3. ASSUME NEW a \in Agent, GuestRuns(a) PROVE Owner[c] \in sandboxes
  <2>1. guest[a][1] = "run" /\ Stream(a)
    BY <1>3 DEF GuestRuns, StreamInv
  <2>2. PICK d \in Call : Awaits(a, d) /\ guest[a] \in {<<"run", d>>, <<"reply", d>>}
    BY <2>1, GuestAtWork
  <2>3. guest[a][2] = d
    BY <2>2
  <2>4. c = d
    BY <1>3, <2>3 DEF GuestRuns, TypeOK
  <2>. QED
    BY <2>2, <2>4 DEF Awaits, OpInv
<1>. QED
  BY <1>1, <1>2, <1>3, WhoRuns

\* A tool only ever runs for an agent that has a sandbox at that moment, the
\* commands of expired calls excepted (manager.rs:136, mock.rs:50).
THEOREM ToolsRunInSandbox == Spec => RunsInSandbox
<1>1. IInv /\ [Next]_vars =>
        [\A c \in Call :
           ran'[c] # ran[c] => Owner[c] \in sandboxes \/ result[c] = "expired"]_vars
  BY RunsUnderOperation
<1>. QED
  BY InductiveInvariant, <1>1, PTL DEF Spec, RunsInSandbox

-----------------------------------------------------------------------------
(* The refinement of Executor *)

Steps == [E!Next]_<<result, ran>>

\* The report of what a call's run came to.
LEMMA Reports ==
  ASSUME IInv, NEW c \in Call, NEW k \in Executing, op = <<k, c>>,
         NEW r \in {"ok", "error", "lost", "expired"}, Returns(c, r), ran' = ran,
         r = "ok" => ran[c] = "success",
         r = "error" => ran[c] = "failure",
         r = "expired" => ran[c] = "no"
  PROVE  E!Next
<1>1. result[c] = "submitted"
  BY DEF IInv, OpInv
<1>2. E!Report(c)
  BY <1>1 DEF E!Report, Returns
<1>. QED
  BY <1>2 DEF E!Next

\* Steps of the manager and of the machines that the caller sees nothing of.
LEMMA UnseenSteps ==
  ASSUME NEW a \in Agent,
         \/ BeginSpawn(a) \/ SpawnStep(a) \/ BeginDestroy(a) \/ DestroyStep(a)
         \/ GuestListens(a) \/ GuestReads(a) \/ GuestReplies(a)
         \/ MachineKilled(a) \/ MachineCrashes(a)
  PROVE  UNCHANGED <<result, ran>>
BY DEF SpawnStep, DestroyStep, BeginSpawn, MockSpawns, StartMachine, SpawnFails, Connects,
   BootTimesOut, BeginDestroy, StopMachine, MachineEnded, GuestListens, MachineGoes,
   MachineKilled, MachineCrashes, GuestReads, GuestReplies

\* Each step of a call is a step of the executor, or unseen.
LEMMA CallSteps ==
  ASSUME IInv, NEW c \in Call,
         \/ BeginExecute(c) \/ NotFound(c) \/ ExecuteStep(c)
         \/ MockTimesOut(c) \/ ForgottenCommandEnds(c)
  PROVE  Steps
<1> USE DEF IInv
<1>1. CASE BeginExecute(c)
  <2>1. \A d \in Call : result[d] # "submitted"
    BY <1>1 DEF BeginExecute, OpInv
  <2>2. E!Submit(c)
    BY <1>1, <2>1 DEF BeginExecute, E!Submit
  <2>. QED
    BY <2>2 DEF E!Next, Steps
<1>2. CASE NotFound(c)
  BY <1>2 DEF NotFound, E!Decline, E!Next, Steps
<1>3. CASE SendFrame(c)
  <2>1. UNCHANGED <<result, ran>> \/ (op = <<"send", c>> /\ Returns(c, "lost") /\ ran' = ran)
    BY <1>3 DEF SendFrame
  <2>. QED
    BY <2>1, Reports DEF Steps
<1>4. CASE RecvFrame(c)
  <2>1. /\ op = <<"await", c>> /\ ran' = ran
        /\ Returns(c, Reported(Head(toHost[Owner[c]])))
        /\ toHost[Owner[c]] # <<>> /\ ~TooLarge(Head(toHost[Owner[c]]))
    BY <1>4 DEF RecvFrame
  <2>2. Stream(Owner[c]) /\ Owner[c] \in Agent
    BY SandboxAssumption DEF StreamInv
  <2>3. toHost[Owner[c]] # <<Rest>>
    BY <2>1 DEF TooLarge
  <2>4. PICK d \in Call : /\ Awaits(Owner[c], d)
                          /\ toHost[Owner[c]] = <<Response(d, ran[d])>> /\ ran[d] # "no"
    BY <2>1, <2>2, <2>3, HeadOfStream
  <2>5. d = c
    BY <2>1, <2>4 DEF Awaits
  <2>6. Head(toHost[Owner[c]]) = Response(c, ran[c]) /\ ran[c] \in {"success", "failure"}
    BY <2>4, <2>5 DEF TypeOK, Verdict
  <2>7. Reported(Head(toHost[Owner[c]])) = IF ran[c] = "success" THEN "ok" ELSE "error"
    BY <2>6 DEF Reported
  <2>8. E!Next
    BY <2>1, <2>6, <2>7, Reports
  <2>. QED
    BY <2>8 DEF Steps
<1>5. CASE RecvTooLarge(c) \/ RecvFails(c)
  <2>1. op = <<"await", c>> /\ Returns(c, "lost") /\ ran' = ran
    BY <1>5 DEF RecvTooLarge, RecvFails
  <2>. QED
    BY <2>1, Reports DEF Steps
<1>6. CASE MockRuns(c)
  <2>1. result[c] = "submitted"
    BY <1>6 DEF MockRuns, OpInv
  <2>2. E!Run(c)
    BY <1>6, <2>1 DEF MockRuns, E!Run, Verdict
  <2>. QED
    BY <2>2 DEF E!Next, Steps
<1>7. CASE MockReturns(c)
  <2>1. /\ op = <<"mock", c>> /\ ran' = ran /\ ran[c] # "no"
        /\ Returns(c, Reported(Response(c, ran[c])))
    BY <1>7 DEF MockReturns
  <2>2. Reported(Response(c, ran[c])) = IF ran[c] = "success" THEN "ok" ELSE "error"
    BY DEF Reported
  <2>3. ran[c] \in {"success", "failure"}
    BY <2>1 DEF TypeOK, Verdict
  <2>. QED
    BY <2>1, <2>2, <2>3, Reports DEF Steps
<1>8. CASE MockTimesOut(c)
  <2>1. op = <<"mock", c>> /\ Returns(c, "expired") /\ ran' = ran /\ ran[c] = "no"
    BY <1>8 DEF MockTimesOut
  <2>. QED
    BY <2>1, Reports DEF Steps
<1>9. CASE ForgottenCommandEnds(c)
  <2>1. E!Run(c)
    BY <1>9 DEF ForgottenCommandEnds, E!Run, Verdict
  <2>. QED
    BY <2>1 DEF E!Next, Steps
<1>. QED
  BY <1>1, <1>2, <1>3, <1>4, <1>5, <1>6, <1>7, <1>8, <1>9 DEF ExecuteStep

\* The guest's run is that of the call submitted last.
LEMMA GuestRunsRefines ==
  ASSUME IInv, NEW a \in Agent, GuestRuns(a)
  PROVE  E!Next
<1>1. guest[a][1] = "run" /\ Stream(a)
  BY DEF GuestRuns, IInv, StreamInv
<1>2. PICK c \in Call : /\ Awaits(a, c)
                        /\ \/ guest[a] = <<"run", c>> /\ ran[c] = "no"
                           \/ guest[a] = <<"reply", c>> /\ ran[c] # "no"
  BY <1>1, GuestAtWork
<1>3. guest[a] = <<"run", c>> /\ guest[a][2] = c /\ ran[c] = "no"
  BY <1>1, <1>2
<1>4. result[c] = "submitted"
  BY <1>2 DEF Awaits, IInv, OpInv
<1>5. E!Run(c)
  BY <1>3, <1>4 DEF E!Run, GuestRuns, Verdict
<1>. QED
  BY <1>5 DEF E!Next

\* Both backends implement Executor: one call at a time, each run at most once and
\* before its report, and each report the call's own, even past responses that
\* were too large, machines that crash and operations that time out.
THEOREM BackendsImplementExecutor == Spec => ImplementsExecutor
<1>1. Init => E!Init
  BY DEF Init, E!Init
<1>2. IInv /\ [Next]_vars => [E!Next]_(E!executorVars)
  <2> SUFFICES ASSUME IInv, [Next]_vars PROVE [E!Next]_<<result, ran>>
    BY DEF E!executorVars
  <2>1. CASE UNCHANGED vars
    BY <2>1 DEF vars
  <2>2. CASE Next
    BY <2>2, UnseenSteps, CallSteps, GuestRunsRefines DEF Next, GuestStep, Steps
  <2>. QED
    BY <2>1, <2>2
<1>. QED
  BY InductiveInvariant, <1>1, <1>2, PTL DEF Spec, ImplementsExecutor, E!Spec

=============================================================================
