---------------------------- MODULE SessionProofs ----------------------------
(***************************************************************************)
(* Theorems about a user, the event loop and an agent with every queue     *)
(* between them bounded: for any capacities and however their steps        *)
(* interleave, what the agent is told matches what it asked, an agent is   *)
(* dropped only if the service failed, a line came between a call and its  *)
(* answer or a tool returned anything, no request for approval is lost on  *)
(* its way to the prompt, and lines reach the conversation once and in     *)
(* order.                                                                  *)
(***************************************************************************)
EXTENDS Session, TLAPS

USE DEF agentVars, cliVars, loopVars, Elsewhere

-----------------------------------------------------------------------------
(* The inductive invariant *)

\* Element e is in the sequence at most once.
Once(q, e) == \A i, j \in DOMAIN q : q[i] = e /\ q[j] = e => i = j

Has(q, e) == \E i \in DOMAIN q : q[i] = e

\* The same of an answer to a call, whichever it is.
OnceAnswer(q, c) == \A i, j \in DOMAIN q : q[i] \in Answers(c) /\ q[j] \in Answers(c) => i = j

HasAnswer(q, c) == \E i \in DOMAIN q : q[i] \in Answers(c)

\* The loop is about to answer a call.
Hands(c) == \E a \in Answers(c) : loop = Tell(a)

\* A call that was made is in the conversation.
MadeInv == \A c \in CallIds : c <= calls => Has(conv, Uses(c))

\* A call or its answer is in one place: on the way to the loop, in its channel, at
\* the loop, on the way to the agent or in the conversation; and it was made.
Placed(c) ==
  /\ Once(out, ToolCall(c)) /\ Once(events, FromAgent(ToolCall(c)))
  /\ OnceAnswer(mail, c) /\ OnceAnswer(conv, c)
  /\ Has(out, ToolCall(c)) =>
       /\ c <= calls /\ ~Has(events, FromAgent(ToolCall(c)))
       /\ ~Hands(c) /\ ~HasAnswer(mail, c) /\ ~HasAnswer(conv, c)
  /\ Has(events, FromAgent(ToolCall(c))) =>
       c <= calls /\ ~Hands(c) /\ ~HasAnswer(mail, c) /\ ~HasAnswer(conv, c)
  /\ Hands(c) => c <= calls /\ ~HasAnswer(mail, c) /\ ~HasAnswer(conv, c)
  /\ HasAnswer(mail, c) => c <= calls /\ ~HasAnswer(conv, c)
  /\ HasAnswer(conv, c) => c <= calls

PlaceInv == \A c \in CallIds : Placed(c)

\* The answer to a call comes after the call.
OrderInv ==
  \A c \in CallIds, i \in DOMAIN conv :
    conv[i] \in Answers(c) => \E k \in DOMAIN conv : k < i /\ conv[k] = Uses(c)

\* As long as no line came between, a call has its answer behind it or is the last
\* entry, before the agent's next turn; and an answer has its call before it.
PairsInv ==
  ~Interjected =>
    \A c \in CallIds, i \in DOMAIN conv :
      /\ conv[i] = Uses(c) => \/ i = Len(conv) /\ turn = "idle"
                              \/ i < Len(conv) /\ conv[i + 1] \in Answers(c)
      /\ conv[i] \in Answers(c) => i > 1 /\ conv[i - 1] = Uses(c)

\* An error that is reported has a cause.
CauseInv ==
  ~known \/ Has(out, Failure) \/ Has(events, FromAgent(Failure)) =>
    outage \/ Interjected \/ Returned

\* The thread starts after the handshake.
ThreadInv == main \in {"start", "handshake"} => thread = "off"

\* A line is its place in what was typed, and one that was refused was typed.
LineInv ==
  /\ LinesKept
  /\ \A i \in DOMAIN typed : LineOf(typed[i]) \in {Earlier, i}
  /\ refused \subseteq LinesIn(typed)

\* Before the command line connects, its socket is empty.
LinkInv == main = "start" => link = <<>>

IInv ==
  /\ TypeOK
  /\ MadeInv
  /\ PlaceInv
  /\ OrderInv
  /\ PairsInv
  /\ CauseInv
  /\ ThreadInv
  /\ RequestsKept
  /\ LineInv
  /\ LinkInv

-----------------------------------------------------------------------------
(* Sequences *)

\* Appending adds one element at the end and keeps the others.
LEMMA AppendIs ==
  ASSUME NEW S, NEW q \in Seq(S), NEW e \in S
  PROVE  /\ Append(q, e) \in Seq(S) /\ Len(q) \in Nat /\ Len(Append(q, e)) = Len(q) + 1
         /\ DOMAIN q = 1..Len(q) /\ DOMAIN Append(q, e) = 1..(Len(q) + 1)
         /\ Append(q, e)[Len(q) + 1] = e
         /\ \A i \in DOMAIN q : Append(q, e)[i] = q[i]
OBVIOUS

\* What is left without the first element.
LEMMA TailIs ==
  ASSUME NEW S, NEW q \in Seq(S), q # <<>>
  PROVE  /\ Head(q) \in S /\ Head(q) = q[1] /\ Tail(q) \in Seq(S)
         /\ Len(q) \in Nat \ {0} /\ Len(Tail(q)) = Len(q) - 1
         /\ DOMAIN q = 1..Len(q) /\ DOMAIN Tail(q) = 1..(Len(q) - 1)
         /\ \A i \in DOMAIN Tail(q) : i + 1 \in DOMAIN q /\ Tail(q)[i] = q[i + 1]
OBVIOUS

\* An element of a concatenation is in one of its parts.
LEMMA ConcatIs ==
  ASSUME NEW S, NEW q \in Seq(S), NEW r \in Seq(S)
  PROVE  /\ q \o r \in Seq(S)
         /\ Len(q \o r) = Len(q) + Len(r) /\ DOMAIN (q \o r) = 1..(Len(q) + Len(r))
         /\ \A i \in DOMAIN (q \o r) :
              \/ i \in DOMAIN q /\ (q \o r)[i] = q[i]
              \/ i - Len(q) \in DOMAIN r /\ (q \o r)[i] = r[i - Len(q)] /\ i > Len(q)
OBVIOUS

\* An element that is appended is there; another one is if it was there before.
LEMMA HasAppend ==
  ASSUME NEW S, NEW q \in Seq(S), NEW e \in S, NEW x
  PROVE  /\ Has(Append(q, e), x) <=> Has(q, x) \/ x = e
         /\ Once(q, x) /\ (x = e => ~Has(q, x)) => Once(Append(q, e), x)
<1>1. \A i \in DOMAIN Append(q, e) : i \in DOMAIN q \/ i = Len(q) + 1
  BY AppendIs
<1>2. Len(q) + 1 \in DOMAIN Append(q, e) /\ DOMAIN q \subseteq DOMAIN Append(q, e)
  BY AppendIs
<1>3. Has(Append(q, e), x) <=> Has(q, x) \/ x = e
  BY <1>1, <1>2, AppendIs DEF Has
<1>4. Once(q, x) /\ (x = e => ~Has(q, x)) => Once(Append(q, e), x)
  BY <1>1, AppendIs DEF Has, Once
<1>. QED
  BY <1>3, <1>4

\* An element that is there once is not once it is taken from the front.
LEMMA HasTail ==
  ASSUME NEW S, NEW q \in Seq(S), q # <<>>, NEW x
  PROVE  /\ Has(Tail(q), x) => Has(q, x)
         /\ Has(q, x) => Has(Tail(q), x) \/ x = Head(q)
         /\ Has(q, Head(q))
         /\ Once(q, x) => Once(Tail(q), x) /\ (x = Head(q) => ~Has(Tail(q), x))
<1>a. PICK n, t : n \in Nat /\ n = Len(q) /\ t = Tail(q)
  BY TailIs
<1>b. /\ n \in Nat /\ n # 0 /\ DOMAIN q = 1..n /\ DOMAIN t = 1..(n - 1) /\ Head(q) = q[1]
      /\ \A i \in DOMAIN t : i + 1 \in DOMAIN q /\ t[i] = q[i + 1]
  BY <1>a, TailIs
<1>1. /\ 1 \in DOMAIN q
      /\ \A i \in DOMAIN t : /\ i \in Nat \ {0} /\ i + 1 # 1
                             /\ i + 1 \in DOMAIN q /\ t[i] = q[i + 1]
  BY <1>b
<1>2. ASSUME NEW i \in DOMAIN q, i # 1 PROVE \E k \in DOMAIN t : t[k] = q[i]
  <2>1. i - 1 \in DOMAIN t /\ (i - 1) + 1 = i
    BY <1>2, <1>b
  <2>2. PICK k \in DOMAIN t : k + 1 = i
    BY <2>1
  <2>. QED
    BY <1>1, <2>2
<1>3. /\ Has(t, x) => Has(q, x)
      /\ Has(q, Head(q)) /\ (Has(q, x) => Has(t, x) \/ x = Head(q))
  BY <1>1, <1>2, <1>b DEF Has
<1>4. ASSUME Once(q, x) PROVE Once(t, x) /\ (x = Head(q) => ~Has(t, x))
  <2>1. ASSUME NEW i \in DOMAIN t, NEW j \in DOMAIN t, t[i] = x, t[j] = x
        PROVE  i = j
    <3>1. i + 1 = j + 1
      BY <1>1, <1>4, <2>1 DEF Once
    <3>. QED
      BY <1>1, <3>1
  <2>2. x = Head(q) => ~Has(t, x)
    BY <1>1, <1>4, <1>b DEF Once, Has
  <2>. QED
    BY <2>1, <2>2 DEF Once
<1>. QED
  BY <1>3, <1>4, <1>a

\* The same for the answers to a call.
LEMMA AnswerAppend ==
  ASSUME NEW S, NEW q \in Seq(S), NEW e \in S, NEW c
  PROVE  /\ HasAnswer(Append(q, e), c) <=> HasAnswer(q, c) \/ e \in Answers(c)
         /\ OnceAnswer(q, c) /\ (e \in Answers(c) => ~HasAnswer(q, c)) => OnceAnswer(Append(q, e), c)
<1>1. \A i \in DOMAIN Append(q, e) : i \in DOMAIN q \/ i = Len(q) + 1
  BY AppendIs
<1>2. Len(q) + 1 \in DOMAIN Append(q, e) /\ DOMAIN q \subseteq DOMAIN Append(q, e)
  BY AppendIs
<1>3. HasAnswer(Append(q, e), c) <=> HasAnswer(q, c) \/ e \in Answers(c)
  BY <1>1, <1>2, AppendIs DEF HasAnswer
<1>4. OnceAnswer(q, c) /\ (e \in Answers(c) => ~HasAnswer(q, c)) => OnceAnswer(Append(q, e), c)
  BY <1>1, AppendIs DEF HasAnswer, OnceAnswer
<1>. QED
  BY <1>3, <1>4

LEMMA AnswerTail ==
  ASSUME NEW S, NEW q \in Seq(S), q # <<>>, NEW c
  PROVE  /\ HasAnswer(Tail(q), c) => HasAnswer(q, c)
         /\ Head(q) \in Answers(c) => HasAnswer(q, c)
         /\ OnceAnswer(q, c) =>
              OnceAnswer(Tail(q), c) /\ (Head(q) \in Answers(c) => ~HasAnswer(Tail(q), c))
<1>1. /\ 1 \in DOMAIN q /\ Head(q) = q[1]
      /\ \A i \in DOMAIN Tail(q) : /\ i \in Nat \ {0} /\ i + 1 # 1
                                   /\ i + 1 \in DOMAIN q /\ Tail(q)[i] = q[i + 1]
  BY TailIs
<1>2. /\ HasAnswer(Tail(q), c) => HasAnswer(q, c)
      /\ Head(q) \in Answers(c) => HasAnswer(q, c)
  BY <1>1 DEF HasAnswer
<1>3. ASSUME OnceAnswer(q, c), NEW i \in DOMAIN Tail(q), NEW j \in DOMAIN Tail(q),
             Tail(q)[i] \in Answers(c), Tail(q)[j] \in Answers(c)
      PROVE  i = j
  <2>1. i + 1 = j + 1
    BY <1>1, <1>3 DEF OnceAnswer
  <2>. QED
    BY <1>1, <2>1
<1>4. OnceAnswer(q, c) /\ Head(q) \in Answers(c) => ~HasAnswer(Tail(q), c)
  BY <1>1 DEF OnceAnswer, HasAnswer
<1>. QED
  BY <1>2, <1>3, <1>4 DEF OnceAnswer

-----------------------------------------------------------------------------
(* Types *)

Entry == ToAgent \cup {Said} \cup {Uses(c) : c \in CallIds}
Event == {Connected, Gone} \cup {FromCli(l) : l \in ToServer}
           \cup {FromAgent(msg) : msg \in ToSupervisor}

\* The types of the agent's variables and of the queues with the supervisor.
AgentTypes ==
  /\ conv \in Seq(Entry)
  /\ turn \in {"idle", "silent", "talking"}
  /\ mail \in Seq(ToAgent) /\ Len(mail) <= MailCap
  /\ out \in Seq(ToSupervisor) /\ Len(out) <= OutCap
  /\ calls \in 0..MaxCalls
  /\ chunks \in 0..MaxChunks
  /\ outage \in BOOLEAN

\* The same for the command line, and for the event loop.
CliTypes == CliTypeOK(FromServer) /\ Len(screen) <= ScreenCap

LoopTypes ==
  /\ events \in Seq(Event) /\ Len(events) <= EventCap
  /\ conn \in {"none", "open", "gone"}
  /\ shown \in BOOLEAN
  /\ known \in BOOLEAN
  /\ loop \in {Idle} \cup {Tell(msg) : msg \in ToAgent} \cup {Show(msg) : msg \in FromServer}
  /\ pending \subseteq CallIds
  /\ unheard \subseteq pending
  /\ refused \subseteq Lines

LEMMA TypeParts == TypeOK <=> AgentTypes /\ CliTypes /\ LoopTypes
BY DEF TypeOK, AgentTypeOK, AgentTypes, CliTypes, LoopTypes, ToAgent, Entry, Event

LEMMA TypeParts2 == TypeOK' <=> AgentTypes' /\ CliTypes' /\ LoopTypes'
BY DEF TypeOK, AgentTypeOK, AgentTypes, CliTypes, LoopTypes, ToAgent, Entry, Event

\* What the loop may wait with.
LEMMA LoopIs ==
  ASSUME LoopTypes
  PROVE  \/ loop = Idle
         \/ \E msg \in ToAgent : loop = Tell(msg) /\ loop[1] = "tell" /\ loop[2] = msg
         \/ \E msg \in FromServer : loop = Show(msg) /\ loop[1] = "show" /\ loop[2] = msg
BY DEF LoopTypes, Tell, Show

LEMMA InitTypes == Init => TypeOK
<1> SUFFICES ASSUME Init PROVE AgentTypes /\ CliTypes /\ LoopTypes
  BY TypeParts
<1> USE DEF Init
<1>1. AgentTypes
  <2>1. mail \in Seq(ToAgent) /\ Len(mail) <= MailCap
    <3>1. MailCap \in Nat /\ 0 <= MailCap /\ 1 <= MailCap
      BY SessionAssumption
    <3>2. CASE AgentInit(<<>>)
      BY <3>1, <3>2 DEF AgentInit
    <3>3. CASE AgentInit(<<User(Earlier)>>)
      <4>1. User(Earlier) \in ToAgent
        BY DEF ToAgent, Texts
      <4>. QED
        BY <3>1, <3>3, <4>1 DEF AgentInit
    <3>. QED
      BY <3>2, <3>3
  <2>2. conv = <<>> /\ turn = "idle" /\ out = <<>> /\ calls = 0 /\ chunks = 0 /\ outage = FALSE
    BY DEF AgentInit
  <2>3. conv \in Seq(Entry) /\ out \in Seq(ToSupervisor) /\ Len(out) = 0
    BY <2>2
  <2>4. 0 \in 0..MaxCalls /\ 0 \in 0..MaxChunks /\ 0 <= OutCap
    BY AgentLoopAssumption
  <2>. QED
    BY <2>1, <2>2, <2>3, <2>4 DEF AgentTypes
<1>2. CliTypes
  <2>1. /\ typed = <<>> /\ input = <<>> /\ asks = <<>> /\ screen = <<>> /\ link = <<>>
        /\ main = "start" /\ thread = "off" /\ prompt = NoPrompt
        /\ locked = FALSE /\ stopped = FALSE
    BY DEF CliInit
  <2>2. /\ typed \in Seq(Typed) /\ input \in Seq(Typed) /\ link \in Seq(ToServer)
        /\ asks \in Seq(FromServer) /\ screen \in Seq(FromServer)
        /\ Len(typed) = 0 /\ Len(input) = 0 /\ Len(link) = 0 /\ Len(screen) = 0
    BY <2>1
  <2>3. 0 <= MaxTyped /\ 0 <= InputCap /\ 0 <= LinkCap /\ 0 <= ScreenCap
    BY CliAssumption, SessionAssumption
  <2>. QED
    BY <2>1, <2>2, <2>3 DEF CliTypes, CliTypeOK
<1>3. LoopTypes
  <2>1. events \in Seq(Event) /\ Len(events) <= EventCap
    BY SessionAssumption
  <2>. QED
    BY <2>1 DEF LoopTypes
<1>. QED
  BY <1>1, <1>2, <1>3

\* The agent's steps.
LEMMA AgentTypesKept ==
  ASSUME AgentTypes, AgentStep
  PROVE  AgentTypes'
<1> USE DEF AgentTypes
<1>1. OutCap \in Nat \ {0} /\ MaxCalls \in Nat /\ MaxChunks \in Nat
  BY AgentLoopAssumption
<1>2. ASSUME Drained, NEW msg \in ToSupervisor, out' = Append(out, msg)
      PROVE  out' \in Seq(ToSupervisor) /\ Len(out') <= OutCap
  BY <1>1, <1>2, AppendIs DEF Drained
<1>3. CASE ReadMessage
  <2>1. /\ mail # <<>> /\ conv' = Append(conv, Head(mail)) /\ mail' = Tail(mail)
        /\ turn' = "silent" /\ UNCHANGED <<out, calls, chunks, outage>>
    BY <1>3 DEF ReadMessage
  <2>2. /\ Head(mail) \in ToAgent /\ mail' \in Seq(ToAgent) /\ Len(mail) \in Nat
        /\ Len(mail') = Len(mail) - 1
    BY <2>1, TailIs
  <2>3. conv' \in Seq(Entry)
    BY <2>1, <2>2, AppendIs DEF Entry
  <2>. QED
    BY <2>1, <2>2, <2>3, SessionAssumption
<1>4. CASE StreamText
  <2>1. /\ Drained /\ chunks < MaxChunks /\ chunks' = chunks + 1 /\ turn' = "talking"
        /\ out' = Append(out, Chunk) /\ UNCHANGED <<conv, mail, calls, outage>>
    BY <1>4 DEF StreamText, Streaming
  <2>2. out' \in Seq(ToSupervisor) /\ Len(out') <= OutCap
    BY <1>2, <2>1 DEF ToSupervisor
  <2>3. chunks' \in 0..MaxChunks
    BY <1>1, <2>1
  <2>. QED
    BY <2>1, <2>2, <2>3
<1>5. CASE UseTool
  <2>1. /\ Drained /\ calls < MaxCalls /\ calls' = calls + 1 /\ turn' = "idle"
        /\ conv' = Append(conv, Uses(calls + 1))
        /\ out' = Append(out, ToolCall(calls + 1)) /\ UNCHANGED <<mail, chunks, outage>>
    BY <1>5 DEF UseTool, Streaming
  <2>2. calls + 1 \in CallIds /\ calls' \in 0..MaxCalls
    BY <1>1, <2>1 DEF CallIds
  <2>3. out' \in Seq(ToSupervisor) /\ Len(out') <= OutCap
    BY <1>2, <2>1, <2>2 DEF ToSupervisor
  <2>4. conv' \in Seq(Entry)
    BY <2>1, <2>2, AppendIs DEF Entry
  <2>. QED
    BY <2>1, <2>2, <2>3, <2>4
<1>6. CASE EndTurn
  <2>1. /\ Drained /\ conv' = (IF turn = "talking" THEN Append(conv, Said) ELSE conv)
        /\ turn' = "idle" /\ out' = Append(out, Done)
        /\ UNCHANGED <<mail, calls, chunks, outage>>
    BY <1>6 DEF EndTurn, Streaming
  <2>2. out' \in Seq(ToSupervisor) /\ Len(out') <= OutCap
    BY <1>2, <2>1 DEF ToSupervisor
  <2>3. conv' \in Seq(Entry)
    BY <2>1, AppendIs DEF Entry
  <2>. QED
    BY <2>1, <2>2, <2>3
<1>7. CASE ModelFails
  <2>1. /\ Drained /\ turn' = "idle" /\ out' = Append(out, Failure)
        /\ UNCHANGED <<conv, mail, calls, chunks>>
    BY <1>7 DEF ModelFails, Streaming
  <2>2. outage' \in BOOLEAN
    BY <1>7 DEF ModelFails
  <2>3. out' \in Seq(ToSupervisor) /\ Len(out') <= OutCap
    BY <1>2, <2>1 DEF ToSupervisor
  <2>. QED
    BY <2>1, <2>2, <2>3
<1>. QED
  BY <1>3, <1>4, <1>5, <1>6, <1>7 DEF AgentStep

\* The process of the command line ends.
LEMMA ExitTypes ==
  ASSUME CliTypes, Exit, UNCHANGED <<typed, link>>
  PROVE  CliTypes'
<1>1. /\ input' = <<>> /\ asks' = <<>> /\ screen' = <<>> /\ main' = "exited" /\ thread' = "off"
      /\ locked' = FALSE /\ stopped' = FALSE /\ prompt' = NoPrompt
  BY DEF Exit
<1>2. /\ input' \in Seq(Typed) /\ asks' \in Seq(FromServer) /\ screen' \in Seq(FromServer)
      /\ Len(input') = 0 /\ Len(screen') = 0
  BY <1>1
<1>3. 0 <= InputCap /\ 0 <= ScreenCap
  BY CliAssumption, SessionAssumption
<1>. QED
  BY <1>1, <1>2, <1>3 DEF CliTypes, CliTypeOK

\* The command line's steps.
LEMMA CliTypesKept ==
  ASSUME CliTypes, CliStep
  PROVE  CliTypes'
<1> USE DEF CliTypes, CliTypeOK
<1>1. /\ InputCap \in Nat \ {0} /\ LinkCap \in Nat \ {0} /\ MaxTyped \in Nat
      /\ ScreenCap \in Nat \ {0}
  BY CliAssumption, SessionAssumption
<1>2. ASSUME screen # <<>>, screen' = Tail(screen)
      PROVE  screen' \in Seq(FromServer) /\ Len(screen') <= ScreenCap /\ Head(screen) \in FromServer
  BY <1>1, <1>2, TailIs
<1>3. CASE Connect
  <2>1. <<Auth>> \in Seq(ToServer) /\ Len(<<Auth>>) = 1
    BY DEF ToServer
  <2>. QED
    BY <1>1, <1>3, <2>1 DEF Connect
<1>4. CASE Interrupt
  BY <1>4, ExitTypes DEF Interrupt
<1>5. CASE Handshake
  <2>1. CASE Exit
    BY <1>5, <2>1, ExitTypes DEF Handshake
  <2>2. CASE ~Exit
    BY <1>2, <1>5, <2>2 DEF Handshake
  <2>. QED
    BY <2>1, <2>2
<1>6. CASE MainTakes
  <2>1. /\ input # <<>> /\ Head(input) # Quit /\ Len(link) < LinkCap
        /\ link' = Append(link, Head(input)) /\ input' = Tail(input)
        /\ UNCHANGED <<main, thread, locked, prompt, typed, asks, screen, stopped>>
    BY <1>6 DEF MainTakes
  <2>2. Head(input) \in Typed /\ input' \in Seq(Typed) /\ Len(input') <= InputCap
    BY <1>1, <2>1, TailIs
  <2>3. Head(input) \in ToServer
    BY <2>1, <2>2 DEF Typed, ToServer
  <2>4. link' \in Seq(ToServer) /\ Len(link') <= LinkCap
    BY <1>1, <2>1, <2>3, AppendIs
  <2>. QED
    BY <2>1, <2>2, <2>4
<1>7. CASE MainQuits
  BY <1>7, ExitTypes DEF MainQuits
<1>8. CASE TakePrompt
  <2>1. Head(asks) \in FromServer /\ Tail(asks) \in Seq(FromServer)
    BY <1>8, TailIs DEF TakePrompt
  <2>. QED
    BY <1>8, <2>1 DEF TakePrompt
<1>9. CASE AwaitLine
  BY <1>9 DEF AwaitLine
<1>10. CASE UserTypes
  <2>1. /\ Len(typed) < MaxTyped /\ Len(input) < InputCap /\ thread' = "loop"
        /\ UNCHANGED <<main, locked, prompt, asks, screen, link, stopped>>
    BY <1>10 DEF UserTypes
  <2>2. PICK l \in {Say(Len(typed) + 1), Agents, Quit} :
          typed' = Append(typed, l) /\ input' = Append(input, l)
    BY <1>10 DEF UserTypes
  <2>3. l \in Typed
    <3>1. Len(typed) + 1 \in Lines
      BY <1>1, <2>1 DEF Lines
    <3>. QED
      BY <2>2, <3>1 DEF Typed
  <2>4. typed' \in Seq(Typed) /\ Len(typed') <= MaxTyped
    BY <1>1, <2>1, <2>2, <2>3, AppendIs
  <2>5. input' \in Seq(Typed) /\ Len(input') <= InputCap
    BY <1>1, <2>1, <2>2, <2>3, AppendIs
  <2>. QED
    BY <2>1, <2>4, <2>5
<1>11. CASE EndOfInput
  BY <1>11 DEF EndOfInput
<1>12. CASE Prints
  <2>1. Head(screen) \in FromServer /\ screen' \in Seq(FromServer) /\ Len(screen') <= ScreenCap
    BY <1>2, <1>12 DEF Prints
  <2>2. asks' \in Seq(FromServer)
    BY <1>12, <2>1, AppendIs DEF Prints
  <2>. QED
    BY <1>12, <2>1, <2>2 DEF Prints
<1>13. CASE StopTerminal
  BY <1>13 DEF StopTerminal
<1>. QED
  BY <1>3, <1>4, <1>5, <1>6, <1>7, <1>8, <1>9, <1>10, <1>11, <1>12, <1>13 DEF CliStep

\* What the handler of an event does: it takes the event, tells the agent of a line
\* or of the answer to the call that the event is, or has something to show; it
\* drops the agent when the event is its failure.
LEMMA Handles ==
  ASSUME LoopHandles
  PROVE  /\ loop = Idle /\ events # <<>> /\ events' = Tail(events)
         /\ UNCHANGED <<agentVars, cliVars, conn, pending, unheard>>
         /\ \/ loop' = Idle
            \/ \E m \in Lines : loop' = Tell(User(m))
            \/ \E c \in CallIds : Head(events) = FromAgent(ToolCall(c)) /\ Hands(c)'
            \/ \E msg \in FromServer : loop' = Show(msg)
         /\ refused' = refused \/ \E m \in Lines : refused' = refused \cup {m}
<1> USE DEF Take
<1>1. CASE OnFrontendConnected \/ OnFrontendGone
  BY <1>1 DEF OnFrontendConnected, OnFrontendGone
<1>2. CASE OnAuth \/ OnListAgents
  <2>1. Granted \in FromServer /\ AgentList \in FromServer
    BY DEF FromServer
  <2>. QED
    BY <1>2, <2>1 DEF OnAuth, OnListAgents
<1>3. ASSUME NEW m \in Lines, OnSay(m)
      PROVE  /\ loop = Idle /\ events # <<>> /\ events' = Tail(events)
             /\ UNCHANGED <<agentVars, cliVars, conn, pending, unheard>>
             /\ loop' = Tell(User(m)) \/ \E msg \in FromServer : loop' = Show(msg)
             /\ refused' = refused \/ refused' = refused \cup {m}
  <2>1. NoAgents \in FromServer
    BY DEF FromServer
  <2>. QED
    BY <1>3, <2>1 DEF OnSay
<1>4. CASE OnResponse
  <2>1. Chunk \in FromServer /\ Done \in FromServer
    BY DEF FromServer
  <2>. QED
    BY <1>4, <2>1 DEF OnResponse
<1>5. CASE OnAgentError
  <2>1. Dead \in FromServer
    BY DEF FromServer
  <2>. QED
    BY <1>5, <2>1 DEF OnAgentError
<1>6. ASSUME NEW c \in CallIds, OnCallDecided(c) \/ OnCallAsked(c)
      PROVE  /\ loop = Idle /\ events # <<>> /\ events' = Tail(events)
             /\ UNCHANGED <<agentVars, cliVars, conn, pending, unheard, refused>>
             /\ Head(events) = FromAgent(ToolCall(c))
             /\ \/ loop' = Idle \/ Hands(c)'
                \/ \E msg \in FromServer : loop' = Show(msg)
  <2>1. Ask(c) \in FromServer
    BY DEF FromServer
  <2>. QED
    BY <1>6, <2>1 DEF OnCallDecided, OnCallAsked, Hands, Answers
<1>. QED
  BY <1>1, <1>2, <1>3, <1>4, <1>5, <1>6 DEF LoopHandles

\* The agent is dropped when the event is its failure.
LEMMA Drops ==
  ASSUME LoopHandles, known' # known
  PROVE  known' = FALSE /\ Head(events) = FromAgent(Failure)
<1>1. OnAgentError => Head(events) = FromAgent(Failure)
  BY DEF OnAgentError, Take
<1>6. OnAgentError => known' = FALSE
  BY Zenon DEF OnAgentError
<1>2. \A m \in Lines : OnSay(m) => known' = known
  BY Zenon DEF OnSay
<1>3. \A c \in CallIds : OnCallDecided(c) \/ OnCallAsked(c) => known' = known
  BY Zenon DEF OnCallDecided, OnCallAsked
<1>4. OnFrontendConnected \/ OnFrontendGone \/ OnAuth \/ OnListAgents \/ OnResponse
        => known' = known
  BY Zenon DEF OnFrontendConnected, OnFrontendGone, OnAuth, OnListAgents, OnResponse
<1>5. OnAgentError
  BY <1>2, <1>3, <1>4 DEF LoopHandles
<1>. QED
  BY Zenon, <1>1, <1>5, <1>6

LEMMA Registers ==
  ASSUME LoopHandles
  PROVE  shown' = shown \/ shown' = TRUE \/ shown' = FALSE
BY Zenon DEF LoopHandles, OnFrontendConnected, OnFrontendGone, OnAuth, OnListAgents,
   OnSay, OnResponse, OnAgentError, OnCallDecided, OnCallAsked

\* What the loop does with what it waits with.
LEMMA Delivers ==
  ASSUME LoopTypes, Telling \/ Showing
  PROVE  /\ loop' = Idle
         /\ UNCHANGED <<conv, turn, out, calls, chunks, outage, events, conn, shown, known, refused>>
         /\ UNCHANGED <<main, thread, locked, prompt, typed, input, asks, link, stopped>>
         /\ \/ \E msg \in ToAgent : /\ loop = Tell(msg) /\ Len(mail) < MailCap
                                    /\ mail' = Append(mail, msg)
                                    /\ UNCHANGED <<screen, pending, unheard>>
            \/ \E msg \in FromServer :
                 /\ loop = Show(msg) /\ mail' = mail
                 /\ \/ Hears /\ Len(screen) < ScreenCap /\ screen' = Append(screen, msg)
                    \/ ~Hears /\ screen' = screen
                 /\ pending' = pending \cup {c \in CallIds : msg = Ask(c)}
                 /\ unheard' = IF Hears THEN unheard
                                        ELSE unheard \cup {c \in CallIds : msg = Ask(c)}
<1>1. CASE Telling
  <2>1. /\ loop # Idle /\ loop[1] = "tell" /\ Len(mail) < MailCap
        /\ mail' = Append(mail, loop[2]) /\ loop' = Idle
        /\ UNCHANGED <<conv, turn, out, calls, chunks, outage, cliVars, events, conn,
                       shown, known, pending, unheard, refused>>
    BY <1>1 DEF Telling
  <2>2. \E msg \in ToAgent : loop = Tell(msg) /\ loop[2] = msg
    BY <2>1, LoopIs
  <2>. QED
    BY <2>1, <2>2
<1>2. CASE Showing
  <2>1. /\ loop # Idle /\ loop[1] = "show" /\ (Hears => Len(screen) < ScreenCap)
        /\ screen' = (IF Hears THEN Append(screen, loop[2]) ELSE screen)
        /\ pending' = pending \cup {c \in CallIds : loop[2] = Ask(c)}
        /\ unheard' = (IF Hears THEN unheard
                                ELSE unheard \cup {c \in CallIds : loop[2] = Ask(c)})
        /\ loop' = Idle
        /\ UNCHANGED <<agentVars, main, thread, locked, prompt, typed, input, asks, link, stopped,
                       events, conn, shown, known, refused>>
    BY <1>2 DEF Showing
  <2>2. PICK msg \in FromServer : loop = Show(msg) /\ loop[2] = msg
    BY <2>1, LoopIs
  <2>3. /\ Hears => Len(screen) < ScreenCap /\ screen' = Append(screen, msg)
        /\ ~Hears => screen' = screen
    BY <2>1, <2>2
  <2>. QED
    BY <2>1, <2>2, <2>3
<1>. QED
  BY <1>1, <1>2

\* What a connection task posts, it takes from its socket.
LEMMA Posts ==
  ASSUME ConnectionStep \/ PostFromAgent
  PROVE  /\ Len(events) < EventCap
         /\ UNCHANGED <<conv, turn, mail, calls, chunks, outage, loopVars>>
         /\ UNCHANGED <<main, thread, locked, prompt, typed, input, asks, screen, stopped>>
         /\ \/ /\ \E e \in {Connected, Gone} : events' = Append(events, e)
               /\ UNCHANGED <<out, link>> /\ conn' \in {"open", "gone"}
            \/ /\ link # <<>> /\ events' = Append(events, FromCli(Head(link)))
               /\ link' = Tail(link) /\ UNCHANGED <<out, conn>>
            \/ /\ out # <<>> /\ events' = Append(events, FromAgent(Head(out)))
               /\ out' = Tail(out) /\ UNCHANGED <<link, conn>>
BY DEF ConnectionStep, PostConnected, PostLine, PostGone, PostFromAgent, Post

\* The steps of the connection tasks.
LEMMA PostsTypes ==
  ASSUME AgentTypes, CliTypes, LoopTypes, ConnectionStep \/ PostFromAgent
  PROVE  AgentTypes' /\ CliTypes' /\ LoopTypes'
<1>1. EventCap \in Nat /\ OutCap \in Nat /\ LinkCap \in Nat
  BY SessionAssumption, AgentLoopAssumption, CliAssumption
<1>2. /\ Len(events) < EventCap
      /\ UNCHANGED <<conv, turn, mail, calls, chunks, outage, loopVars>>
      /\ UNCHANGED <<main, thread, locked, prompt, typed, input, asks, screen, stopped>>
  BY Posts
<1>3. ASSUME NEW e \in Event, events' = Append(events, e)
      PROVE  events' \in Seq(Event) /\ Len(events') <= EventCap
  BY <1>1, <1>2, <1>3, AppendIs DEF LoopTypes
<1>4. CASE /\ \E e \in {Connected, Gone} : events' = Append(events, e)
           /\ UNCHANGED <<out, link>> /\ conn' \in {"open", "gone"}
  <2>1. events' \in Seq(Event) /\ Len(events') <= EventCap
    BY <1>3, <1>4 DEF Event
  <2>. QED
    BY <1>2, <1>4, <2>1 DEF LoopTypes, AgentTypes, CliTypes, CliTypeOK
<1>5. CASE /\ link # <<>> /\ events' = Append(events, FromCli(Head(link)))
           /\ link' = Tail(link) /\ UNCHANGED <<out, conn>>
  <2>1. Head(link) \in ToServer /\ link' \in Seq(ToServer) /\ Len(link') <= LinkCap
    BY <1>1, <1>5, TailIs DEF CliTypes, CliTypeOK
  <2>2. FromCli(Head(link)) \in Event
    BY <2>1 DEF Event
  <2>3. events' \in Seq(Event) /\ Len(events') <= EventCap
    BY <1>3, <1>5, <2>2
  <2>. QED
    BY <1>2, <1>5, <2>1, <2>3 DEF LoopTypes, AgentTypes, CliTypes, CliTypeOK
<1>6. CASE /\ out # <<>> /\ events' = Append(events, FromAgent(Head(out)))
           /\ out' = Tail(out) /\ UNCHANGED <<link, conn>>
  <2>1. Head(out) \in ToSupervisor /\ out' \in Seq(ToSupervisor) /\ Len(out') <= OutCap
    BY <1>1, <1>6, TailIs DEF AgentTypes
  <2>2. FromAgent(Head(out)) \in Event
    BY <2>1 DEF Event
  <2>3. events' \in Seq(Event) /\ Len(events') <= EventCap
    BY <1>3, <1>6, <2>2
  <2>. QED
    BY <1>2, <1>6, <2>1, <2>3 DEF LoopTypes, AgentTypes, CliTypes, CliTypeOK
<1>. QED
  BY <1>4, <1>5, <1>6, Posts

\* The steps of the event loop.
LEMMA LoopStepTypes ==
  ASSUME AgentTypes, CliTypes, LoopTypes, LoopHandles \/ Telling \/ Showing
  PROVE  AgentTypes' /\ CliTypes' /\ LoopTypes'
<1>1. EventCap \in Nat /\ MailCap \in Nat /\ ScreenCap \in Nat
  BY SessionAssumption
<1>2. CASE LoopHandles
  <2>1. events' \in Seq(Event) /\ Len(events') <= EventCap
    <3>1. events \in Seq(Event) /\ Len(events) <= EventCap
      BY DEF LoopTypes
    <3>2. events # <<>> /\ events' = Tail(events)
      BY <1>2, Handles
    <3>. QED
      BY <1>1, <3>1, <3>2, TailIs
  <2>2. AgentTypes' /\ CliTypes'
    BY <1>2, Handles DEF AgentTypes, CliTypes, CliTypeOK
  <2>3. loop' \in {Idle} \cup {Tell(msg) : msg \in ToAgent} \cup {Show(msg) : msg \in FromServer}
    <3>1. \A m \in Lines : User(m) \in ToAgent
      BY DEF ToAgent, Texts
    <3>2. \A c \in CallIds : Answers(c) \subseteq ToAgent
      BY DEF ToAgent
    <3>. QED
      BY <1>2, <3>1, <3>2, Handles DEF Hands
  <2>4. known' \in BOOLEAN /\ shown' \in BOOLEAN
    <3>1. known \in BOOLEAN /\ shown \in BOOLEAN
      BY DEF LoopTypes
    <3>2. known' \in BOOLEAN
      <4>1. CASE known' = known
        BY <3>1, <4>1
      <4>2. CASE known' # known
        BY Zenon, <1>2, <4>2, Drops
      <4>. QED
        BY <4>1, <4>2
    <3>3. shown' \in BOOLEAN
      BY Zenon, <1>2, <3>1, Registers
    <3>. QED
      BY <3>2, <3>3
  <2>5. refused' \subseteq Lines
    BY <1>2, Handles DEF LoopTypes
  <2>6. UNCHANGED <<conn, pending, unheard>>
    BY <1>2, Handles
  <2>. QED
    BY <2>1, <2>2, <2>3, <2>4, <2>5, <2>6 DEF LoopTypes
<1>3. CASE Telling \/ Showing
  <2>1. mail' \in Seq(ToAgent) /\ Len(mail') <= MailCap
    <3>1. mail \in Seq(ToAgent) /\ Len(mail) <= MailCap
      BY DEF AgentTypes
    <3>2. \/ mail' = mail
          \/ \E msg \in ToAgent : Len(mail) < MailCap /\ mail' = Append(mail, msg)
      BY <1>3, Delivers
    <3>. QED
      BY <1>1, <3>1, <3>2, AppendIs
  <2>2. screen' \in Seq(FromServer) /\ Len(screen') <= ScreenCap
    <3>1. screen \in Seq(FromServer) /\ Len(screen) <= ScreenCap
      BY DEF CliTypes, CliTypeOK
    <3>2. \/ screen' = screen
          \/ \E msg \in FromServer : Len(screen) < ScreenCap /\ screen' = Append(screen, msg)
      BY <1>3, Delivers
    <3>. QED
      BY <1>1, <3>1, <3>2, AppendIs
  <2>3. pending' \subseteq CallIds /\ unheard' \subseteq pending'
    BY <1>3, Delivers DEF LoopTypes
  <2>4. AgentTypes'
    BY <1>3, <2>1, Delivers DEF AgentTypes
  <2>5. CliTypes'
    BY <1>3, <2>2, Delivers DEF CliTypes, CliTypeOK
  <2>6. LoopTypes'
    BY <1>3, <2>3, Delivers DEF LoopTypes
  <2>. QED
    BY <2>4, <2>5, <2>6
<1>. QED
  BY <1>2, <1>3

LEMMA TypesKept == TypeOK /\ [Next]_vars => TypeOK'
<1> SUFFICES ASSUME TypeOK, [Next]_vars PROVE AgentTypes' /\ CliTypes' /\ LoopTypes'
  BY TypeParts2
<1>1. AgentTypes /\ CliTypes /\ LoopTypes
  BY TypeParts
<1>2. UNCHANGED agentVars => AgentTypes'
  BY <1>1 DEF AgentTypes
<1>3. UNCHANGED cliVars => CliTypes'
  BY <1>1 DEF CliTypes, CliTypeOK
<1>4. UNCHANGED <<events, conn, loopVars>> => LoopTypes'
  BY <1>1 DEF LoopTypes
<1>5. CASE UNCHANGED vars
  BY <1>2, <1>3, <1>4, <1>5 DEF vars
<1>6. CASE AgentStep /\ UNCHANGED <<cliVars, Elsewhere>>
  BY <1>1, <1>3, <1>4, <1>6, AgentTypesKept
<1>7. CASE CliStep /\ UNCHANGED <<agentVars, Elsewhere>>
  BY <1>1, <1>2, <1>4, <1>7, CliTypesKept
<1>8. CASE SupervisorStep
  BY <1>1, <1>8, PostsTypes, LoopStepTypes DEF SupervisorStep
<1>. QED
  BY <1>5, <1>6, <1>7, <1>8 DEF Next

-----------------------------------------------------------------------------
(* Requests *)

\* A request on its way to the prompt, or past the point where one can come.
Kept(c) ==
  \/ Over \/ thread = "ended"
  \/ Has(screen, Ask(c)) \/ Has(asks, Ask(c))
  \/ thread = "prompting" /\ prompt = Ask(c)

\* The command line loses no request that it got.
LEMMA CliKeepsRequests ==
  ASSUME TypeOK, ThreadInv, CliStep, NEW c \in CallIds, Kept(c)
  PROVE  Kept(c)'
<1> USE DEF Kept, Over
<1>1. screen \in Seq(FromServer) /\ asks \in Seq(FromServer)
  BY TypeParts DEF CliTypes, CliTypeOK
<1>2. CASE Exit
  BY <1>2 DEF Exit
<1>3. CASE Connect \/ MainTakes \/ AwaitLine \/ StopTerminal \/ UserTypes \/ EndOfInput
  BY <1>3 DEF Connect, MainTakes, AwaitLine, StopTerminal, UserTypes, EndOfInput, Has
<1>4. CASE Handshake /\ ~Exit
  <2>1. /\ main = "handshake" /\ thread = "off" /\ screen # <<>>
        /\ Head(screen) = Granted /\ screen' = Tail(screen) /\ asks' = asks
    BY <1>4 DEF Handshake, ThreadInv
  <2>2. Ask(c) # Head(screen)
    BY <2>1 DEF Ask, Granted
  <2>3. Has(screen, Ask(c)) => Has(screen', Ask(c))
    BY <1>1, <2>1, <2>2, HasTail
  <2>4. Has(asks, Ask(c)) => Has(asks', Ask(c))
    BY <2>1
  <2>. QED
    BY <2>1, <2>3, <2>4
<1>5. CASE TakePrompt
  <2>1. /\ thread = "loop" /\ thread' = "prompting" /\ asks # <<>> /\ asks' = Tail(asks)
        /\ prompt' = Head(asks) /\ screen' = screen /\ main' = main
    BY <1>5 DEF TakePrompt
  <2>2. Has(asks, Ask(c)) => Has(asks', Ask(c)) \/ prompt' = Ask(c)
    BY <1>1, <2>1, HasTail
  <2>3. Has(screen, Ask(c)) => Has(screen', Ask(c))
    BY <2>1
  <2>. QED
    BY <2>1, <2>2, <2>3
<1>6. CASE Prints
  <2>1. /\ screen # <<>> /\ screen' = Tail(screen)
        /\ asks' = (IF IsAsk(Head(screen)) /\ thread # "ended"
                    THEN Append(asks, Head(screen)) ELSE asks)
        /\ UNCHANGED <<main, thread, prompt>>
    BY <1>6 DEF Prints
  <2>2. Head(screen) \in FromServer
    BY <1>1, <2>1, TailIs
  <2>3. Has(asks, Ask(c)) => Has(asks', Ask(c))
    BY <1>1, <2>1, <2>2, HasAppend
  <2>4. CASE Head(screen) = Ask(c)
    <3>1. IsAsk(Head(screen))
      BY <2>4 DEF IsAsk, Ask
    <3>2. thread = "ended" \/ Has(asks', Ask(c))
      BY <1>1, <2>1, <2>2, <2>4, <3>1, HasAppend
    <3>. QED
      BY <2>1, <3>2
  <2>5. CASE Head(screen) # Ask(c)
    <3>1. Has(screen, Ask(c)) => Has(screen', Ask(c))
      BY <1>1, <2>1, <2>5, HasTail
    <3>. QED
      BY <2>1, <2>3, <3>1
  <2>. QED
    BY <2>4, <2>5
<1>. QED
  BY <1>2, <1>3, <1>4, <1>5, <1>6 DEF CliStep, Interrupt, MainQuits

\* RequestsKept in terms of Kept.
LEMMA RequestsKeptIs == TypeOK => (RequestsKept <=> \A c \in pending \ unheard : Kept(c))
<1> SUFFICES ASSUME TypeOK
             PROVE  RequestsKept <=> \A c \in pending \ unheard : Kept(c)
  OBVIOUS
<1>1. screen \in Seq(FromServer) /\ asks \in Seq(FromServer)
  BY TypeParts DEF CliTypes, CliTypeOK
<1>2. \A x : (Contains(screen, x) <=> Has(screen, x)) /\ (Contains(asks, x) <=> Has(asks, x))
  BY <1>1 DEF Contains, Has
<1>. QED
  BY <1>2 DEF RequestsKept, Kept

\* A step after which a thread may be there and no request was lost.
LEMMA RequestsStay ==
  ASSUME TypeOK, TypeOK', ThreadInv, RequestsKept, [Next]_vars
  PROVE  ThreadInv' /\ RequestsKept'
<1>1. (\A c \in pending' \ unheard' : Kept(c)') => RequestsKept'
  <2>1. screen' \in Seq(FromServer) /\ asks' \in Seq(FromServer)
    BY TypeParts2 DEF CliTypes, CliTypeOK
  <2>2. \A x : /\ Contains(screen', x) <=> Has(screen', x)
               /\ Contains(asks', x) <=> Has(asks', x)
    BY <2>1 DEF Contains, Has
  <2>. QED
    BY <2>2 DEF RequestsKept, Kept
<1>2. \A c \in pending \ unheard : Kept(c)
  BY RequestsKeptIs
<1>3. CASE UNCHANGED <<cliVars, pending, unheard>>
  <2>1. \A c : Kept(c)' <=> Kept(c)
    BY <1>3 DEF Kept, Over, Has
  <2>. QED
    BY <1>1, <1>2, <1>3, <2>1 DEF ThreadInv
<1>4. CASE CliStep /\ UNCHANGED <<pending, unheard>>
  <2>1. ThreadInv'
    BY <1>4 DEF ThreadInv, CliStep, Connect, Interrupt, Handshake, MainTakes, MainQuits,
       TakePrompt, AwaitLine, UserTypes, EndOfInput, Prints, StopTerminal, Exit
  <2>2. pending \subseteq CallIds
    BY TypeParts DEF LoopTypes
  <2>3. \A c \in pending \ unheard : Kept(c)'
    BY <1>2, <1>4, <2>2, CliKeepsRequests
  <2>. QED
    BY <1>1, <1>4, <2>1, <2>3
<1>5. CASE ConnectionStep \/ PostFromAgent
  <2>1. UNCHANGED <<main, thread, prompt, asks, screen, pending, unheard>>
    BY <1>5, Posts
  <2>2. \A c : Kept(c)' <=> Kept(c)
    BY <2>1 DEF Kept, Over, Has
  <2>. QED
    BY <1>1, <1>2, <2>1, <2>2 DEF ThreadInv
<1>6. CASE LoopHandles
  BY <1>3, <1>6, Handles
<1>7. CASE Telling \/ Showing
  <2>1. LoopTypes /\ screen \in Seq(FromServer)
    BY TypeParts DEF CliTypes, CliTypeOK
  <2>2. UNCHANGED <<main, thread, prompt, asks>>
    BY <1>7, <2>1, Delivers
  <2>3. ASSUME NEW msg \in FromServer, screen' = Append(screen, msg)
        PROVE  \A x : Has(screen', x) <=> Has(screen, x) \/ x = msg
    BY <2>1, <2>3, HasAppend
  <2>4. \/ UNCHANGED <<screen, pending, unheard>>
        \/ \E msg \in FromServer :
             /\ pending' = pending \cup {c \in CallIds : msg = Ask(c)}
             /\ \/ screen' = Append(screen, msg) /\ unheard' = unheard
                \/ /\ screen' = screen
                   /\ unheard' = unheard \cup {c \in CallIds : msg = Ask(c)}
    BY <1>7, <2>1, Delivers
  <2>5. CASE UNCHANGED <<screen, pending, unheard>>
    <3>1. \A c : Kept(c)' <=> Kept(c)
      BY <2>2, <2>5 DEF Kept, Over, Has
    <3>. QED
      BY <1>1, <1>2, <2>2, <2>5, <3>1 DEF ThreadInv
  <2>6. ASSUME NEW msg \in FromServer,
               pending' = pending \cup {c \in CallIds : msg = Ask(c)},
               \/ screen' = Append(screen, msg) /\ unheard' = unheard
               \/ /\ screen' = screen
                  /\ unheard' = unheard \cup {c \in CallIds : msg = Ask(c)}
        PROVE  \A c \in pending' \ unheard' : Kept(c)'
    <3>1. ASSUME NEW c, Kept(c), Has(screen, Ask(c)) => Has(screen', Ask(c))
          PROVE  Kept(c)'
      <4>1. Has(asks, Ask(c)) => Has(asks', Ask(c))
        BY <2>2
      <4>. QED
        BY <2>2, <3>1, <4>1 DEF Kept, Over
    <3>2. CASE screen' = screen /\ unheard' = unheard \cup {c \in CallIds : msg = Ask(c)}
      BY <1>2, <2>6, <3>1, <3>2
    <3>3. CASE screen' = Append(screen, msg) /\ unheard' = unheard
      <4>1. \A c : msg = Ask(c) => Kept(c)'
        BY <2>3, <3>3 DEF Kept
      <4>. QED
        BY <1>2, <2>3, <2>6, <3>1, <3>3, <4>1
    <3>. QED
      BY <2>6, <3>2, <3>3
  <2>. QED
    BY <1>1, <2>2, <2>4, <2>5, <2>6 DEF ThreadInv
<1>. QED
  BY <1>3, <1>4, <1>5, <1>6, <1>7 DEF Next, SupervisorStep, vars

-----------------------------------------------------------------------------
(* Calls and their answers *)

\* A turn of the agent: it reads a message, ends or goes on without a tool use, or
\* makes a call.
LEMMA AgentDoes ==
  ASSUME AgentTypes, AgentStep
  PROVE  \/ /\ turn = "idle" /\ mail # <<>> /\ Head(mail) \in ToAgent
            /\ conv' = Append(conv, Head(mail)) /\ mail' = Tail(mail)
            /\ UNCHANGED <<out, calls, outage>>
         \/ /\ turn # "idle" /\ (conv' = conv \/ conv' = Append(conv, Said))
            /\ \E msg \in {Chunk, Done, Failure} : out' = Append(out, msg)
            /\ UNCHANGED <<mail, calls>>
         \/ /\ turn # "idle" /\ turn' = "idle" /\ calls' = calls + 1 /\ calls' \in CallIds
            /\ conv' = Append(conv, Uses(calls'))
            /\ out' = Append(out, ToolCall(calls')) /\ UNCHANGED <<mail, outage>>
<1>1. CASE ReadMessage
  <2>1. Head(mail) \in ToAgent
    BY <1>1, TailIs DEF ReadMessage, AgentTypes
  <2>. QED
    BY <1>1, <2>1 DEF ReadMessage
<1>2. CASE StreamText \/ EndTurn \/ ModelFails
  BY <1>2 DEF StreamText, EndTurn, ModelFails, Streaming
<1>3. CASE UseTool
  <2>1. calls + 1 \in CallIds
    BY <1>3, AgentLoopAssumption DEF UseTool, AgentTypes, CallIds
  <2>. QED
    BY <1>3, <2>1 DEF UseTool, Streaming
<1>. QED
  BY <1>1, <1>2, <1>3 DEF AgentStep

\* The messages about a call are told from the others and from those about others.
LEMMA Distinct ==
  ASSUME NEW c, NEW d
  PROVE  /\ \A a \in Answers(c) : a \in Answers(d) <=> c = d
         /\ ToolCall(c) = ToolCall(d) <=> c = d
         /\ Uses(c) = Uses(d) <=> c = d
         /\ Uses(c) \notin Answers(d) /\ Uses(c) # User(d) /\ User(d) \notin Answers(c)
         /\ Said \notin Answers(c) /\ Said # Uses(c) /\ Said # User(c)
         /\ ToolCall(c) \notin {Chunk, Done, Failure}
         /\ \A x, y : FromAgent(x) = FromAgent(y) <=> x = y
         /\ \A x, y : Tell(x) = Tell(y) <=> x = y
         /\ \A x, y : FromAgent(x) # FromCli(y) /\ FromAgent(x) \notin {Connected, Gone}
         /\ \A x, y : Tell(x) # Show(y) /\ Tell(x) # Idle /\ Show(x) # Idle
BY DEF Answers, Result, Denied, ToolCall, Uses, User, Said, Chunk, Done, Failure, FromAgent, FromCli,
   Connected, Gone, Tell, Show, Idle

\* What a step of the agent does to the place of a call.
LEMMA AgentPlaces ==
  ASSUME TypeOK, PlaceInv, AgentStep, UNCHANGED <<events, loop>>
  PROVE  PlaceInv'
<1> SUFFICES ASSUME NEW c \in CallIds PROVE Placed(c)'
  BY DEF PlaceInv
<1>1. /\ AgentTypes /\ conv \in Seq(Entry) /\ mail \in Seq(ToAgent) /\ out \in Seq(ToSupervisor)
      /\ calls \in Nat /\ c \in Nat /\ Placed(c)
  BY TypeParts, AgentLoopAssumption DEF AgentTypes, CallIds, PlaceInv
<1>2. CASE /\ mail # <<>> /\ Head(mail) \in ToAgent
           /\ conv' = Append(conv, Head(mail)) /\ mail' = Tail(mail)
           /\ UNCHANGED <<out, calls>>
  <2>1. Head(mail) \in Entry
    BY <1>2 DEF Entry
  <2>2. /\ HasAnswer(conv', c) <=> HasAnswer(conv, c) \/ Head(mail) \in Answers(c)
        /\ OnceAnswer(conv, c) /\ (Head(mail) \in Answers(c) => ~HasAnswer(conv, c))
             => OnceAnswer(conv', c)
    BY <1>1, <1>2, <2>1, AnswerAppend
  <2>3. /\ HasAnswer(mail', c) => HasAnswer(mail, c)
        /\ Head(mail) \in Answers(c) => HasAnswer(mail, c)
        /\ OnceAnswer(mail, c) => /\ OnceAnswer(mail', c)
                                  /\ Head(mail) \in Answers(c) => ~HasAnswer(mail', c)
    BY <1>1, <1>2, AnswerTail
  <2>4. Hands(c)' <=> Hands(c)
    BY DEF Hands
  <2>. QED
    BY <1>1, <1>2, <2>2, <2>3, <2>4 DEF Placed
<1>3. CASE /\ conv' = conv \/ conv' = Append(conv, Said)
           /\ \E msg \in {Chunk, Done, Failure} : out' = Append(out, msg)
           /\ UNCHANGED <<mail, calls>>
  <2>1. Said \in Entry /\ Said \notin Answers(c)
    BY Distinct DEF Entry
  <2>2. /\ HasAnswer(conv', c) <=> HasAnswer(conv, c)
        /\ OnceAnswer(conv, c) => OnceAnswer(conv', c)
    <3>1. CASE conv' = conv
      BY <3>1
    <3>2. CASE conv' = Append(conv, Said)
      BY <1>1, <2>1, <3>2, AnswerAppend
    <3>. QED
      BY <1>3, <3>1, <3>2
  <2>3. PICK msg \in {Chunk, Done, Failure} : out' = Append(out, msg)
    BY <1>3
  <2>4. msg \in ToSupervisor /\ msg # ToolCall(c)
    BY <2>3, Distinct DEF ToSupervisor
  <2>5. /\ Has(out', ToolCall(c)) <=> Has(out, ToolCall(c))
        /\ Once(out, ToolCall(c)) => Once(out', ToolCall(c))
    BY <1>1, <2>3, <2>4, HasAppend
  <2>. QED
    BY <1>1, <1>3, <2>2, <2>5 DEF Placed, Hands
<1>4. CASE /\ calls' = calls + 1 /\ calls' \in CallIds
           /\ conv' = Append(conv, Uses(calls'))
           /\ out' = Append(out, ToolCall(calls')) /\ UNCHANGED mail
  <2>1. PICK n \in CallIds : n = calls + 1
    BY <1>4
  <2>2. Uses(n) \in Entry /\ Uses(n) \notin Answers(c) /\ ToolCall(n) \in ToSupervisor
    BY Distinct DEF Entry, ToSupervisor
  <2>3. /\ HasAnswer(conv', c) <=> HasAnswer(conv, c)
        /\ OnceAnswer(conv, c) => OnceAnswer(conv', c)
    BY <1>1, <1>4, <2>1, <2>2, AnswerAppend
  <2>4. /\ Has(out', ToolCall(c)) <=> Has(out, ToolCall(c)) \/ ToolCall(c) = ToolCall(n)
        /\ Once(out, ToolCall(c)) /\ (ToolCall(c) = ToolCall(n) => ~Has(out, ToolCall(c)))
             => Once(out', ToolCall(c))
    BY <1>1, <1>4, <2>1, <2>2, HasAppend
  <2>5. ToolCall(c) = ToolCall(n) <=> c = n
    BY Distinct
  <2>6. c <= calls => c <= calls'
    BY <1>1, <1>4
  <2>7. c = n => ~(c <= calls) /\ c <= calls'
    BY <1>1, <1>4, <2>1
  <2>. QED
    BY <1>1, <1>4, <2>3, <2>4, <2>5, <2>6, <2>7 DEF Placed, Hands
<1>. QED
  BY <1>1, <1>2, <1>3, <1>4, AgentDoes

\* A message about a call moves on.
LEMMA SupervisorPlaces ==
  ASSUME TypeOK, PlaceInv, SupervisorStep
  PROVE  PlaceInv'
<1> SUFFICES ASSUME NEW c \in CallIds PROVE Placed(c)'
  BY DEF PlaceInv
<1>1. /\ LoopTypes /\ events \in Seq(Event) /\ out \in Seq(ToSupervisor) /\ mail \in Seq(ToAgent)
      /\ link \in Seq(ToServer) /\ Placed(c)
  BY TypeParts DEF AgentTypes, CliTypes, CliTypeOK, LoopTypes, PlaceInv
<1>2. CASE ConnectionStep \/ PostFromAgent
  <2>1. UNCHANGED <<conv, mail, calls, loop>>
    BY <1>2, Posts
  <2>2. ASSUME NEW e \in Event, events' = Append(events, e)
        PROVE  /\ Has(events', FromAgent(ToolCall(c)))
                    <=> Has(events, FromAgent(ToolCall(c))) \/ FromAgent(ToolCall(c)) = e
               /\ /\ Once(events, FromAgent(ToolCall(c)))
                  /\ FromAgent(ToolCall(c)) = e => ~Has(events, FromAgent(ToolCall(c)))
                  => Once(events', FromAgent(ToolCall(c)))
    BY <1>1, <2>2, HasAppend
  <2>3. CASE /\ \E e \in {Connected, Gone} : events' = Append(events, e)
             /\ UNCHANGED out
    <3>1. PICK e \in {Connected, Gone} : events' = Append(events, e)
      BY <2>3
    <3>2. e \in Event /\ FromAgent(ToolCall(c)) # e
      BY <3>1, Distinct DEF Event
    <3>. QED
      BY <1>1, <2>1, <2>2, <2>3, <3>1, <3>2 DEF Placed, Hands
  <2>4. CASE /\ link # <<>> /\ events' = Append(events, FromCli(Head(link)))
             /\ UNCHANGED out
    <3>1. Head(link) \in ToServer
      BY <1>1, <2>4, TailIs
    <3>2. FromCli(Head(link)) \in Event /\ FromAgent(ToolCall(c)) # FromCli(Head(link))
      BY <3>1, Distinct DEF Event
    <3>. QED
      BY <1>1, <2>1, <2>2, <2>4, <3>2 DEF Placed, Hands
  <2>5. CASE /\ out # <<>> /\ events' = Append(events, FromAgent(Head(out)))
             /\ out' = Tail(out)
    <3>1. Head(out) \in ToSupervisor
      BY <1>1, <2>5, TailIs
    <3>2. FromAgent(Head(out)) \in Event
      BY <3>1 DEF Event
    <3>3. FromAgent(ToolCall(c)) = FromAgent(Head(out)) <=> ToolCall(c) = Head(out)
      BY Distinct
    <3>4. /\ Has(out', ToolCall(c)) => Has(out, ToolCall(c))
          /\ ToolCall(c) = Head(out) => Has(out, ToolCall(c))
          /\ Once(out, ToolCall(c)) => /\ Once(out', ToolCall(c))
                                       /\ ToolCall(c) = Head(out) => ~Has(out', ToolCall(c))
      BY <1>1, <2>5, HasTail
    <3>. QED
      BY <1>1, <2>1, <2>2, <2>5, <3>2, <3>3, <3>4 DEF Placed, Hands
  <2>. QED
    BY <1>2, <2>3, <2>4, <2>5, Posts
<1>3. CASE LoopHandles
  <2>1. /\ loop = Idle /\ events # <<>> /\ events' = Tail(events)
        /\ UNCHANGED <<conv, mail, out, calls>>
    BY <1>3, Handles
  <2>2. Hands(c)' => Head(events) = FromAgent(ToolCall(c))
    <3>1. /\ Hands(c)' => loop' # Idle /\ \A msg : loop' # Show(msg)
          /\ \A m : Hands(c)' => loop' # Tell(User(m))
          /\ \A d : Hands(c)' /\ Hands(d)' => c = d
      BY Distinct DEF Hands
    <3>. QED
      BY <1>3, <3>1, Handles
  <2>3. /\ Has(events', FromAgent(ToolCall(c))) => Has(events, FromAgent(ToolCall(c)))
        /\ FromAgent(ToolCall(c)) = Head(events) => Has(events, FromAgent(ToolCall(c)))
        /\ Once(events, FromAgent(ToolCall(c))) =>
             /\ Once(events', FromAgent(ToolCall(c)))
             /\ FromAgent(ToolCall(c)) = Head(events) => ~Has(events', FromAgent(ToolCall(c)))
    BY <1>1, <2>1, HasTail
  <2>. QED
    BY <1>1, <2>1, <2>2, <2>3 DEF Placed
<1>4. CASE Telling \/ Showing
  <2>1. loop' = Idle /\ UNCHANGED <<conv, out, calls, events>>
    BY <1>1, <1>4, Delivers
  <2>2. ~Hands(c)'
    BY <2>1, Distinct DEF Hands
  <2>3. ASSUME NEW msg \in ToAgent, loop = Tell(msg), mail' = Append(mail, msg)
        PROVE  Placed(c)'
    <3>1. /\ HasAnswer(mail', c) <=> HasAnswer(mail, c) \/ msg \in Answers(c)
          /\ OnceAnswer(mail, c) /\ (msg \in Answers(c) => ~HasAnswer(mail, c))
               => OnceAnswer(mail', c)
      BY <1>1, <2>3, AnswerAppend
    <3>2. Hands(c) <=> msg \in Answers(c)
      BY <2>3, Distinct DEF Hands
    <3>. QED
      BY <1>1, <2>1, <2>2, <3>1, <3>2 DEF Placed
  <2>4. CASE mail' = mail
    BY <1>1, <2>1, <2>2, <2>4 DEF Placed
  <2>. QED
    BY <1>1, <1>4, <2>3, <2>4, Delivers
<1>. QED
  BY <1>2, <1>3, <1>4 DEF SupervisorStep

-----------------------------------------------------------------------------
(* The conversation *)

\* A line that came between stays where it is.
LEMMA InterjectedStays ==
  ASSUME AgentTypes, NEW e \in Entry, conv' = Append(conv, e)
  PROVE  /\ Interjected => Interjected'
         /\ ~Interjected' => \A c, m : conv # <<>> /\ conv[Len(conv)] = Uses(c) => e # User(m)
<1>1. PICK n \in Nat : n = Len(conv)
  BY DEF AgentTypes
<1>2. /\ DOMAIN conv = 1..n /\ DOMAIN conv' = 1..(n + 1) /\ Len(conv') = n + 1
      /\ conv'[n + 1] = e /\ \A i \in DOMAIN conv : conv'[i] = conv[i]
  BY <1>1, AppendIs DEF AgentTypes
<1>3. Interjected => Interjected'
  <2> SUFFICES ASSUME Interjected PROVE Interjected'
    OBVIOUS
  <2>1. PICK i \in DOMAIN conv : conv[i][1] = "uses" /\ i < n /\ conv[i + 1][1] = "user"
    BY <1>1 DEF Interjected, Entries
  <2>2. i + 1 \in DOMAIN conv /\ i \in DOMAIN conv' /\ i < n + 1
    BY <1>2, <2>1
  <2>3. conv'[i] = conv[i] /\ conv'[i + 1] = conv[i + 1]
    BY <1>2, <2>2
  <2>. QED
    BY <1>2, <2>1, <2>2, <2>3 DEF Interjected, Entries
<1>4. ASSUME NEW c, NEW m, conv # <<>>, conv[Len(conv)] = Uses(c), e = User(m)
      PROVE  Interjected'
  <2>1. n \in DOMAIN conv /\ n \in DOMAIN conv' /\ n < n + 1
    BY <1>1, <1>2, <1>4 DEF AgentTypes
  <2>2. conv'[n][1] = "uses" /\ conv'[n + 1][1] = "user"
    BY <1>1, <1>2, <1>4, <2>1 DEF Uses, User
  <2>. QED
    BY <1>2, <2>1, <2>2 DEF Interjected, Entries
<1>. QED
  BY <1>3, <1>4

\* Every call that was made stays in the conversation, before its answer.
LEMMA AgentOrder ==
  ASSUME TypeOK, MadeInv, PlaceInv, OrderInv, AgentStep
  PROVE  MadeInv' /\ OrderInv'
<1>1. /\ AgentTypes /\ conv \in Seq(Entry) /\ mail \in Seq(ToAgent) /\ calls \in Nat
      /\ \A c \in CallIds : c \in Nat
  BY TypeParts, AgentLoopAssumption DEF AgentTypes, CallIds
<1>2. ASSUME NEW e \in Entry, conv' = Append(conv, e),
             \A c \in CallIds : c <= calls' => c <= calls \/ e = Uses(c),
             \A c \in CallIds : e \in Answers(c) => Has(conv, Uses(c))
      PROVE  MadeInv' /\ OrderInv'
  <2>1. MadeInv'
    BY <1>1, <1>2, HasAppend DEF MadeInv
  <2>2. PICK n \in Nat : n = Len(conv)
    BY <1>1
  <2>3. /\ DOMAIN conv = 1..n /\ DOMAIN conv' = 1..(n + 1)
        /\ conv'[n + 1] = e /\ \A i \in DOMAIN conv : conv'[i] = conv[i]
    BY <1>1, <1>2, <2>2, AppendIs
  <2>4. ASSUME NEW c \in CallIds, NEW i \in DOMAIN conv', conv'[i] \in Answers(c)
        PROVE  \E k \in DOMAIN conv' : k < i /\ conv'[k] = Uses(c)
    <3>1. CASE i \in DOMAIN conv
      BY <2>3, <2>4, <3>1 DEF OrderInv
    <3>2. CASE i = n + 1
      <4>1. PICK k \in DOMAIN conv : conv[k] = Uses(c)
        BY <1>2, <2>3, <2>4, <3>2 DEF Has
      <4>. QED
        BY <2>3, <3>2, <4>1
    <3>. QED
      BY <2>3, <3>1, <3>2
  <2>. QED
    BY <2>1, <2>4 DEF OrderInv
<1>3. CASE conv' = conv /\ calls' = calls
  BY <1>3 DEF MadeInv, OrderInv, Has
<1>4. CASE /\ mail # <<>> /\ Head(mail) \in ToAgent
           /\ conv' = Append(conv, Head(mail)) /\ UNCHANGED calls
  <2>1. Head(mail) \in Entry
    BY <1>4 DEF Entry
  <2>2. ASSUME NEW c \in CallIds, Head(mail) \in Answers(c) PROVE Has(conv, Uses(c))
    <3>1. HasAnswer(mail, c)
      BY <1>1, <1>4, <2>2, AnswerTail
    <3>. QED
      BY <3>1 DEF PlaceInv, Placed, MadeInv
  <2>. QED
    BY <1>2, <1>4, <2>1, <2>2
<1>5. CASE conv' = Append(conv, Said) /\ UNCHANGED calls
  <2>1. Said \in Entry /\ \A c : Said \notin Answers(c)
    BY Distinct DEF Entry
  <2>. QED
    BY <1>2, <1>5, <2>1
<1>6. CASE /\ calls' = calls + 1 /\ calls' \in CallIds /\ conv' = Append(conv, Uses(calls'))
  <2>1. PICK n \in CallIds : n = calls + 1
    BY <1>6
  <2>2. Uses(n) \in Entry /\ \A c : Uses(n) \notin Answers(c)
    BY Distinct DEF Entry
  <2>3. \A c \in CallIds : c <= n => c <= calls \/ c = n
    BY <1>1, <2>1
  <2>. QED
    BY <1>2, <1>6, <2>1, <2>2, <2>3
<1>. QED
  BY <1>1, <1>3, <1>4, <1>5, <1>6, AgentDoes

\* A call that waits for its answer is the last entry, as long as no line came
\* between.
LEMMA AnswerFits ==
  ASSUME TypeOK, MadeInv, PlaceInv, PairsInv, ~Interjected,
         NEW c \in CallIds, HasAnswer(mail, c)
  PROVE  conv # <<>> /\ conv[Len(conv)] = Uses(c)
<1>1. PICK k \in DOMAIN conv : conv[k] = Uses(c)
  BY DEF MadeInv, PlaceInv, Placed, Has
<1>2. ~(k < Len(conv) /\ conv[k + 1] \in Answers(c))
  <2>1. k < Len(conv) => k + 1 \in DOMAIN conv
    BY TypeParts DEF AgentTypes
  <2>. QED
    BY <2>1 DEF PlaceInv, Placed, HasAnswer
<1>3. k = Len(conv)
  BY <1>1, <1>2 DEF PairsInv
<1>. QED
  BY <1>1, <1>3

\* The pairs of calls and answers.
LEMMA AgentPairs ==
  ASSUME TypeOK, MadeInv, PlaceInv, PairsInv, AgentStep
  PROVE  PairsInv' /\ (Interjected => Interjected')
<1>1. /\ AgentTypes /\ conv \in Seq(Entry) /\ mail \in Seq(ToAgent)
      /\ \A c \in CallIds : c \in Nat
  BY TypeParts, AgentLoopAssumption DEF AgentTypes, CallIds
<1>2. PICK n \in Nat : n = Len(conv) /\ DOMAIN conv = 1..n
  BY <1>1
<1>3. ASSUME NEW e \in Entry, conv' = Append(conv, e)
      PROVE  /\ DOMAIN conv' = 1..(n + 1) /\ Len(conv') = n + 1
             /\ conv'[n + 1] = e /\ \A i \in DOMAIN conv : conv'[i] = conv[i]
             /\ \A i \in DOMAIN conv' : i \in DOMAIN conv \/ i = n + 1
             /\ \A i \in DOMAIN conv : i # n => i < n /\ i + 1 \in DOMAIN conv /\ i + 1 < n + 2
             /\ \A i \in DOMAIN conv : i > 1 => i - 1 \in DOMAIN conv
  BY <1>1, <1>2, <1>3, AppendIs
<1>4. CASE turn # "idle" /\ conv' = conv
  <2>1. Interjected' <=> Interjected
    BY <1>4 DEF Interjected, Entries
  <2>. QED
    BY <1>4, <2>1 DEF PairsInv
<1>5. ASSUME turn # "idle", NEW e \in Entry, conv' = Append(conv, e),
             \A c \in CallIds : e \notin Answers(c) /\ (e = Uses(c) => turn' = "idle")
      PROVE  PairsInv' /\ (Interjected => Interjected')
  <2>1. Interjected => Interjected'
    BY <1>1, <1>5, InterjectedStays
  <2>2. ASSUME ~Interjected, NEW c \in CallIds, NEW i \in DOMAIN conv', conv'[i] = Uses(c)
        PROVE  \/ i = Len(conv') /\ turn' = "idle"
               \/ i < Len(conv') /\ conv'[i + 1] \in Answers(c)
    <3>1. CASE i = n + 1
      BY <1>3, <1>5, <2>2, <3>1
    <3>2. CASE i \in DOMAIN conv
      <4>1. i < n /\ conv[i + 1] \in Answers(c)
        BY <1>2, <1>3, <1>5, <2>2, <3>2 DEF PairsInv
      <4>2. i + 1 \in DOMAIN conv
        BY <1>2, <3>2, <4>1
      <4>. QED
        BY <1>2, <1>3, <1>5, <4>1, <4>2
    <3>. QED
      BY <1>3, <1>5, <3>1, <3>2
  <2>3. ASSUME ~Interjected, NEW c \in CallIds, NEW i \in DOMAIN conv', conv'[i] \in Answers(c)
        PROVE  i > 1 /\ conv'[i - 1] = Uses(c)
    <3>1. i \in DOMAIN conv
      BY <1>3, <1>5, <2>3
    <3>2. i > 1 /\ conv[i - 1] = Uses(c)
      BY <1>3, <1>5, <2>3, <3>1 DEF PairsInv
    <3>. QED
      BY <1>3, <1>5, <3>1, <3>2
  <2>. QED
    BY <2>1, <2>2, <2>3 DEF PairsInv
<1>6. CASE /\ turn = "idle" /\ mail # <<>> /\ Head(mail) \in ToAgent
           /\ conv' = Append(conv, Head(mail))
  <2>1. PICK e \in Entry : e = Head(mail)
    BY <1>6 DEF Entry
  <2>2. /\ Interjected => Interjected'
        /\ ~Interjected' => \A c, m : conv # <<>> /\ conv[Len(conv)] = Uses(c) => e # User(m)
    BY <1>1, <1>6, <2>1, InterjectedStays
  <2>3. ASSUME ~Interjected, NEW c \in CallIds, e \in Answers(c)
        PROVE  conv # <<>> /\ conv[n] = Uses(c)
    <3>1. HasAnswer(mail, c)
      BY <1>1, <1>6, <2>1, <2>3, AnswerTail
    <3>. QED
      BY <1>2, <2>3, <3>1, AnswerFits
  <2>4. ASSUME ~Interjected', NEW c \in CallIds, NEW i \in DOMAIN conv', conv'[i] = Uses(c)
        PROVE  i < Len(conv') /\ conv'[i + 1] \in Answers(c)
    <3>1. i # n + 1
      <4>1. e # Uses(c)
        BY <1>6, <2>1 DEF ToAgent, User, Answers, Result, Denied, Uses
      <4>. QED
        BY <1>3, <1>6, <2>1, <2>4, <4>1
    <3>2. i \in DOMAIN conv /\ conv[i] = Uses(c)
      BY <1>3, <1>6, <2>1, <2>4, <3>1
    <3>3. CASE i = n
      <4>1. conv # <<>> /\ conv[n] = Uses(c)
        BY <1>2, <3>2, <3>3
      <4>2. PICK d \in CallIds : e \in Answers(d)
        BY <1>2, <1>6, <2>1, <2>2, <2>4, <4>1 DEF ToAgent
      <4>3. d = c
        BY <2>2, <2>3, <2>4, <4>1, <4>2, Distinct
      <4>. QED
        BY <1>3, <1>6, <2>1, <3>3, <4>2, <4>3
    <3>4. CASE i # n
      <4>1. i < n /\ conv[i + 1] \in Answers(c) /\ i + 1 \in DOMAIN conv
        BY <1>2, <1>3, <1>6, <2>1, <2>2, <2>4, <3>2, <3>4 DEF PairsInv
      <4>. QED
        BY <1>2, <1>3, <1>6, <2>1, <3>2, <4>1
    <3>. QED
      BY <3>3, <3>4
  <2>5. ASSUME ~Interjected', NEW c \in CallIds, NEW i \in DOMAIN conv', conv'[i] \in Answers(c)
        PROVE  i > 1 /\ conv'[i - 1] = Uses(c)
    <3>1. CASE i = n + 1
      <4>1. e \in Answers(c)
        BY <1>3, <1>6, <2>1, <2>5, <3>1
      <4>2. conv # <<>> /\ conv[n] = Uses(c)
        BY <2>2, <2>3, <2>5, <4>1
      <4>3. n \in DOMAIN conv /\ i - 1 = n /\ i > 1
        BY <1>1, <1>2, <3>1, <4>2
      <4>. QED
        BY <1>3, <1>6, <2>1, <4>2, <4>3
    <3>2. CASE i \in DOMAIN conv
      <4>1. conv[i] \in Answers(c)
        BY <1>3, <1>6, <2>1, <2>5, <3>2
      <4>2. i > 1 /\ conv[i - 1] = Uses(c)
        BY <2>2, <2>5, <3>2, <4>1 DEF PairsInv
      <4>. QED
        BY <1>3, <1>6, <2>1, <3>2, <4>2
    <3>. QED
      BY <1>3, <1>6, <2>1, <3>1, <3>2
  <2>. QED
    BY <2>2, <2>4, <2>5 DEF PairsInv
<1>7. CASE turn # "idle" /\ conv' = Append(conv, Said)
  <2>1. Said \in Entry /\ \A c : Said \notin Answers(c) /\ Said # Uses(c)
    BY Distinct DEF Entry
  <2>. QED
    BY <1>5, <1>7, <2>1
<1>8. CASE /\ turn # "idle" /\ turn' = "idle" /\ calls' \in CallIds
           /\ conv' = Append(conv, Uses(calls'))
  <2>1. Uses(calls') \in Entry /\ \A c : Uses(calls') \notin Answers(c)
    BY <1>8, Distinct DEF Entry
  <2>. QED
    BY <1>5, <1>8, <2>1
<1>. QED
  BY <1>1, <1>4, <1>6, <1>7, <1>8, AgentDoes

\* Only the agent changes the conversation, its turn, the number of calls and what the
\* service has done.
LEMMA OthersLeave ==
  ASSUME TypeOK,
         \/ (CliStep /\ UNCHANGED <<agentVars, Elsewhere>>)
         \/ SupervisorStep
         \/ UNCHANGED vars
  PROVE  UNCHANGED <<conv, turn, calls, outage>>
<1>1. ASSUME SupervisorStep PROVE UNCHANGED <<conv, turn, calls, outage>>
  <2>1. CASE ConnectionStep \/ PostFromAgent
    BY <2>1, Posts
  <2>2. CASE LoopHandles
    BY <2>2, Handles
  <2>3. CASE Telling \/ Showing
    BY <2>3, TypeParts, Delivers
  <2>. QED
    BY <1>1, <2>1, <2>2, <2>3 DEF SupervisorStep
<1>. QED
  BY <1>1 DEF vars

\* Calls and their answers, whoever steps.
LEMMA CallsKept ==
  ASSUME TypeOK, MadeInv, PlaceInv, OrderInv, PairsInv, [Next]_vars
  PROVE  MadeInv' /\ PlaceInv' /\ OrderInv' /\ PairsInv' /\ (Interjected => Interjected')
<1>1. CASE AgentStep /\ UNCHANGED <<cliVars, Elsewhere>>
  <2>1. MadeInv' /\ OrderInv'
    BY <1>1, AgentOrder
  <2>2. PlaceInv'
    BY <1>1, AgentPlaces
  <2>3. PairsInv' /\ (Interjected => Interjected')
    BY <1>1, AgentPairs
  <2>. QED
    BY <2>1, <2>2, <2>3
<1>2. ASSUME UNCHANGED <<conv, turn, calls>>
      PROVE  MadeInv' /\ OrderInv' /\ PairsInv' /\ (Interjected => Interjected')
  <2>1. MadeInv' /\ OrderInv'
    BY <1>2 DEF MadeInv, OrderInv, Has
  <2>2. Interjected' <=> Interjected
    BY <1>2 DEF Interjected, Entries
  <2>3. PairsInv'
    BY <1>2, <2>2 DEF PairsInv
  <2>. QED
    BY <2>1, <2>2, <2>3
<1>3. CASE SupervisorStep
  <2>1. UNCHANGED <<conv, turn, calls>>
    BY <1>3, OthersLeave
  <2>2. PlaceInv'
    BY <1>3, SupervisorPlaces
  <2>. QED
    BY <1>2, <2>1, <2>2
<1>4. CASE (CliStep /\ UNCHANGED <<agentVars, Elsewhere>>) \/ UNCHANGED vars
  <2>1. UNCHANGED <<conv, turn, calls, mail, out, events, loop>>
    BY <1>4 DEF vars
  <2>2. PlaceInv'
    BY <2>1 DEF PlaceInv, Placed, Has, Once, HasAnswer, OnceAnswer, Hands
  <2>. QED
    BY <1>2, <2>1, <2>2
<1>. QED
  BY <1>1, <1>3, <1>4 DEF Next

-----------------------------------------------------------------------------
(* Why an agent is dropped *)

\* In the middle of a turn the service accepts a conversation into which no line
\* came and no result.
LEMMA AcceptedOtherwise ==
  ASSUME TypeOK, PairsInv, turn # "idle", ~Interjected, ~Returned
  PROVE  Acceptable(conv)
<1>1. DOMAIN conv = 1..Len(conv)
  BY TypeParts DEF AgentTypes
<1>2. \A c \in CallIds, i \in DOMAIN conv : conv[i] # Result(c)
  BY DEF Returned, Entries, Result
<1>. QED
  BY <1>1, <1>2 DEF PairsInv, Acceptable

\* What the agent was given stays in its conversation.
LEMMA ReturnedStays ==
  ASSUME TypeOK, [Next]_vars, Returned
  PROVE  Returned'
<1>1. PICK i \in DOMAIN conv : conv[i][1] = "result"
  BY DEF Returned, Entries
<1>2. conv \in Seq(Entry)
  BY TypeParts DEF AgentTypes
<1>3. CASE conv' = conv
  BY <1>1, <1>3 DEF Returned, Entries
<1>4. ASSUME NEW e \in Entry, conv' = Append(conv, e) PROVE Returned'
  <2>1. i \in DOMAIN conv' /\ conv'[i] = conv[i]
    BY <1>2, <1>4, AppendIs
  <2>. QED
    BY <1>1, <2>1 DEF Returned, Entries
<1>5. CASE AgentStep
  <2>1. ToAgent \subseteq Entry /\ Said \in Entry /\ \A c \in CallIds : Uses(c) \in Entry
    BY DEF Entry
  <2>. QED
    BY <1>3, <1>4, <1>5, <2>1, TypeParts, AgentDoes
<1>6. CASE ~AgentStep
  <2>1. UNCHANGED conv
    BY <1>6, OthersLeave DEF Next
  <2>. QED
    BY <1>3, <2>1
<1>. QED
  BY <1>5, <1>6

\* The agent reports an error only when the service has failed it.
LEMMA AgentFails ==
  ASSUME TypeOK, AgentStep
  PROVE  /\ outage => outage'
         /\ Has(out', Failure) /\ ~Has(out, Failure) =>
              turn # "idle" /\ (Acceptable(conv) => outage')
<1>1. out \in Seq(ToSupervisor)
  BY TypeParts DEF AgentTypes
<1>2. ASSUME NEW msg \in ToSupervisor, out' = Append(out, msg), msg # Failure
      PROVE  Has(out', Failure) => Has(out, Failure)
  BY <1>1, <1>2, HasAppend
<1>3. Chunk # Failure /\ Done # Failure /\ \A c : ToolCall(c) # Failure
  BY DEF Chunk, Done, Failure, ToolCall
<1>4. CASE ReadMessage
  BY <1>4 DEF ReadMessage
<1>5. CASE StreamText \/ EndTurn
  <2>1. outage' = outage /\ \E msg \in {Chunk, Done} : out' = Append(out, msg)
    BY <1>5 DEF StreamText, EndTurn
  <2>. QED
    BY <1>2, <1>3, <2>1 DEF ToSupervisor
<1>6. CASE UseTool
  <2>1. outage' = outage /\ out' = Append(out, ToolCall(calls')) /\ calls' \in CallIds
    BY <1>6, AgentLoopAssumption, TypeParts DEF UseTool, AgentTypes, CallIds
  <2>. QED
    BY <1>2, <1>3, <2>1 DEF ToSupervisor
<1>7. CASE ModelFails
  BY <1>7 DEF ModelFails, Streaming
<1>. QED
  BY <1>4, <1>5, <1>6, <1>7 DEF AgentStep

\* What makes an error appear anywhere between the agent and its handle is a step of
\* the agent.
LEMMA FailureMoves ==
  ASSUME TypeOK, SupervisorStep
  PROVE  ~known' \/ Has(out', Failure) \/ Has(events', FromAgent(Failure))
           => ~known \/ Has(out, Failure) \/ Has(events, FromAgent(Failure))
<1>1. /\ LoopTypes /\ events \in Seq(Event) /\ out \in Seq(ToSupervisor)
      /\ link \in Seq(ToServer)
  BY TypeParts DEF AgentTypes, CliTypes, CliTypeOK, LoopTypes
<1>2. CASE ConnectionStep \/ PostFromAgent
  <2>1. known' = known
    BY <1>2, Posts
  <2>2. ASSUME NEW e \in Event, events' = Append(events, e)
        PROVE  Has(events', FromAgent(Failure))
                 <=> Has(events, FromAgent(Failure)) \/ FromAgent(Failure) = e
    BY <1>1, <2>2, HasAppend
  <2>3. CASE (\E e \in {Connected, Gone} : events' = Append(events, e)) /\ UNCHANGED out
    <3>1. PICK e \in {Connected, Gone} : events' = Append(events, e)
      BY <2>3
    <3>2. e \in Event /\ FromAgent(Failure) # e
      BY <3>1 DEF Event, FromAgent, Connected, Gone
    <3>. QED
      BY <2>1, <2>2, <2>3, <3>1, <3>2
  <2>4. CASE link # <<>> /\ events' = Append(events, FromCli(Head(link))) /\ UNCHANGED out
    <3>1. Head(link) \in ToServer
      BY <1>1, <2>4, TailIs
    <3>2. FromCli(Head(link)) \in Event /\ FromAgent(Failure) # FromCli(Head(link))
      BY <3>1 DEF Event, FromAgent, FromCli
    <3>. QED
      BY <2>1, <2>2, <2>4, <3>2
  <2>5. CASE out # <<>> /\ events' = Append(events, FromAgent(Head(out))) /\ out' = Tail(out)
    <3>1. Head(out) \in ToSupervisor
      BY <1>1, <2>5, TailIs
    <3>2. FromAgent(Head(out)) \in Event
      BY <3>1 DEF Event
    <3>3. FromAgent(Failure) = FromAgent(Head(out)) => Failure = Head(out)
      BY DEF FromAgent
    <3>4. /\ Has(out', Failure) => Has(out, Failure)
          /\ Has(out, Head(out))
      BY <1>1, <2>5, HasTail
    <3>. QED
      BY <2>1, <2>2, <2>5, <3>2, <3>3, <3>4
  <2>. QED
    BY <1>2, <2>3, <2>4, <2>5, Posts
<1>3. CASE LoopHandles
  <2>1. events # <<>> /\ events' = Tail(events) /\ UNCHANGED out
    BY <1>3, Handles
  <2>2. Has(events', FromAgent(Failure)) => Has(events, FromAgent(Failure))
    BY <1>1, <2>1, HasTail
  <2>3. known' # known => Has(events, FromAgent(Failure))
    <3>1. known' # known => Head(events) = FromAgent(Failure)
      BY <1>3, Drops
    <3>2. Has(events, Head(events))
      BY <1>1, <2>1, HasTail
    <3>. QED
      BY <3>1, <3>2
  <2>. QED
    BY <2>1, <2>2, <2>3
<1>4. CASE Telling \/ Showing
  BY <1>1, <1>4, Delivers
<1>. QED
  BY <1>2, <1>3, <1>4 DEF SupervisorStep

LEMMA CauseKept ==
  ASSUME TypeOK, PairsInv, CauseInv, Interjected => Interjected', [Next]_vars
  PROVE  CauseInv'
<1>0. Returned => Returned'
  BY ReturnedStays
<1>1. CASE AgentStep /\ UNCHANGED <<cliVars, Elsewhere>>
  <2>1. known' = known /\ events' = events
    BY <1>1
  <2>2. /\ outage => outage'
        /\ Has(out', Failure) /\ ~Has(out, Failure) =>
             turn # "idle" /\ (Acceptable(conv) => outage')
    BY <1>1, AgentFails
  <2>3. turn # "idle" => Acceptable(conv) \/ Interjected \/ Returned
    BY AcceptedOtherwise
  <2>. QED
    BY <1>0, <2>1, <2>2, <2>3 DEF CauseInv
<1>2. CASE SupervisorStep
  <2>1. outage' = outage
    BY <1>2, OthersLeave
  <2>. QED
    BY <1>0, <1>2, <2>1, FailureMoves DEF CauseInv
<1>3. CASE (CliStep /\ UNCHANGED <<agentVars, Elsewhere>>) \/ UNCHANGED vars
  <2>1. UNCHANGED <<known, out, events, outage>>
    BY <1>3 DEF vars
  <2>. QED
    BY <1>0, <2>1 DEF CauseInv, Has
<1>. QED
  BY <1>1, <1>2, <1>3 DEF Next

-----------------------------------------------------------------------------
(* Lines *)

\* The lines that each queue of the way holds; those of an earlier queue are older.
Held == [s \in 1..6 |-> LinesIn(Way[s])]
Apart(H) == \A s, t \in 1..6 : s < t => \A m \in H[s], k \in H[t] : m < k
All(H) == UNION {H[s] : s \in 1..6}
AllKept(H, due, gone) ==
  All(H) \subseteq due /\ \A m \in due \ All(H) : gone /\ \A k \in All(H) : k < m

LEMMA LinesKeptIs ==
  /\ LinesKept <=> /\ \A s \in 1..6 : Ascending(Way[s])
                   /\ Apart(Held) /\ AllKept(Held, LinesIn(typed) \ refused, Over)
  /\ LinesKept' <=> /\ \A s \in 1..6 : Ascending(Way[s])'
                    /\ Apart(Held') /\ AllKept(Held', LinesIn(typed)' \ refused', Over')
<1>1. DOMAIN Way = 1..6 /\ DOMAIN Way' = 1..6
  BY DEF Way
<1>2. UNION {LinesIn(Way[s]) : s \in 1..6} = All(Held)
  BY DEF All, Held
<1>3. UNION {LinesIn(Way[s])' : s \in 1..6} = All(Held')
  BY DEF All, Held
<1>4. /\ Apart(Held) <=> \A s, t \in 1..6 :
           s < t => \A m \in LinesIn(Way[s]), k \in LinesIn(Way[t]) : m < k
      /\ Apart(Held') <=> \A s, t \in 1..6 :
           s < t => \A m \in LinesIn(Way[s])', k \in LinesIn(Way[t])' : m < k
  BY DEF Apart, Held
<1>. QED
  BY <1>1, <1>2, <1>3, <1>4 DEF LinesKept, AllKept

\* The line of a message of any kind is a number.
LEMMA LineIsNat ==
  /\ \A e \in Entry \cup ToServer \cup Typed \cup Event : LineOf(e) \in Nat
  /\ \A m \in Nat : LineOf(Say(m)) = m /\ LineOf(User(m)) = m /\ LineOf(FromCli(Say(m))) = m
  /\ \A c : LineOf(Uses(c)) = Earlier /\ \A a \in Answers(c) : LineOf(a) = Earlier
  /\ \A msg : LineOf(FromAgent(msg)) = Earlier
  /\ \A e \in {Said, Agents, Quit, Connected, Gone} : LineOf(e) = Earlier
<1> USE DEF LineOf, Earlier
<1>1. \A m \in Nat : LineOf(Say(m)) = m /\ LineOf(User(m)) = m /\ LineOf(FromCli(Say(m))) = m
  BY DEF Say, User, FromCli
<1>2. \A c : /\ LineOf(Uses(c)) = Earlier /\ LineOf(FromAgent(c)) = Earlier
            /\ \A a \in Answers(c) : LineOf(a) = Earlier
  BY DEF Uses, Answers, Result, Denied, FromAgent
<1>3. \A e \in {Said, Agents, Quit, Auth, Connected, Gone} : LineOf(e) = Earlier
  BY DEF Said, Agents, Quit, Auth, Connected, Gone
<1>4. LineOf(FromCli(Agents)) = Earlier /\ LineOf(FromCli(Auth)) = Earlier
  BY DEF FromCli, Agents, Auth
<1>5. Lines \subseteq Nat /\ Texts \subseteq Nat /\ Earlier \in Nat
  BY CliAssumption DEF Lines, Texts
<1>6. \A e \in ToServer : LineOf(e) \in Nat /\ LineOf(FromCli(e)) \in Nat
  BY <1>1, <1>3, <1>4, <1>5 DEF ToServer
<1>7. \A e \in Typed : LineOf(e) \in Nat
  BY <1>1, <1>3, <1>5 DEF Typed
<1>8. \A e \in Entry : LineOf(e) \in Nat
  BY <1>1, <1>2, <1>3, <1>5 DEF Entry, ToAgent
<1>9. \A e \in Event : LineOf(e) \in Nat
  BY <1>2, <1>3, <1>5, <1>6 DEF Event
<1>. QED
  BY <1>1, <1>2, <1>3, <1>6, <1>7, <1>8, <1>9

\* The lines of a queue to which a message is appended.
LEMMA LinesAppend ==
  ASSUME NEW S, NEW q \in Seq(S), NEW e \in S
  PROVE  /\ LinesIn(Append(q, e)) = LinesIn(q) \cup ({LineOf(e)} \ {Earlier})
         /\ Ascending(q) /\ (LineOf(e) # Earlier => \A m \in LinesIn(q) : m < LineOf(e))
              => Ascending(Append(q, e))
<1>a. PICK n, r : n \in Nat /\ n = Len(q) /\ r = Append(q, e)
  BY AppendIs
<1>1. /\ DOMAIN q = 1..n /\ DOMAIN r = 1..(n + 1) /\ r[n + 1] = e
      /\ \A i \in DOMAIN q : r[i] = q[i]
  BY <1>a, AppendIs
<1>2. DOMAIN r = DOMAIN q \cup {n + 1} /\ \A i \in DOMAIN q : i < n + 1 /\ ~(n + 1 < i)
  BY <1>1, <1>a
<1>3. LinesIn(r) = LinesIn(q) \cup ({LineOf(e)} \ {Earlier})
  BY <1>1, <1>2 DEF LinesIn
<1>4. ASSUME Ascending(q), LineOf(e) # Earlier => \A m \in LinesIn(q) : m < LineOf(e)
      PROVE  Ascending(r)
  <2> SUFFICES ASSUME NEW i \in DOMAIN r, NEW j \in DOMAIN r, i < j,
                      LineOf(r[i]) # Earlier, LineOf(r[j]) # Earlier
               PROVE  LineOf(r[i]) < LineOf(r[j])
    BY DEF Ascending
  <2>1. i \in DOMAIN q
    <3>1. i \in Nat /\ j \in Nat /\ j <= n + 1
      BY <1>1, <1>a
    <3>. QED
      BY <1>1, <1>a, <3>1
  <2>2. CASE j \in DOMAIN q
    BY <1>1, <1>4, <2>1, <2>2 DEF Ascending
  <2>3. CASE j = n + 1
    <3>1. LineOf(q[i]) \in LinesIn(q)
      BY <1>1, <2>1 DEF LinesIn
    <3>. QED
      BY <1>1, <1>4, <2>1, <2>3, <3>1
  <2>. QED
    BY <1>2, <2>2, <2>3
<1>. QED
  BY <1>3, <1>4, <1>a

\* The lines of a queue from which the first message is taken.
LEMMA LinesTail ==
  ASSUME NEW S, NEW q \in Seq(S), q # <<>>, \A e \in S : LineOf(e) \in Nat, Ascending(q)
  PROVE  /\ LinesIn(Tail(q)) = LinesIn(q) \ {LineOf(Head(q))} /\ Ascending(Tail(q))
         /\ LineOf(Head(q)) # Earlier =>
              LineOf(Head(q)) \in LinesIn(q) /\ \A m \in LinesIn(q) : LineOf(Head(q)) <= m
<1>a. PICK n, r, h : n \in Nat \ {0} /\ n = Len(q) /\ r = Tail(q) /\ h = LineOf(Head(q))
  BY TailIs
<1>1. /\ DOMAIN q = 1..n /\ DOMAIN r = 1..(n - 1) /\ h = LineOf(q[1])
      /\ \A i \in DOMAIN r : i + 1 \in DOMAIN q /\ r[i] = q[i + 1]
  BY <1>a, TailIs
<1>2. 1 \in DOMAIN q /\ h \in Nat /\ \A i \in DOMAIN q : i \in Nat /\ LineOf(q[i]) \in Nat
  BY <1>1, <1>a
<1>3. ASSUME NEW i \in DOMAIN q, i # 1
      PROVE  1 < i /\ i - 1 \in DOMAIN r /\ r[i - 1] = q[i]
  <2>1. i \in Nat /\ 1 < i /\ i - 1 \in DOMAIN r /\ (i - 1) + 1 = i
    BY <1>1, <1>3, <1>a
  <2>. QED
    BY <1>1, <2>1
<1>4. \A i \in DOMAIN q : i # 1 /\ LineOf(q[i]) # Earlier /\ h # Earlier => h < LineOf(q[i])
  BY <1>1, <1>2, <1>3 DEF Ascending
<1>5. LinesIn(r) = LinesIn(q) \ {h}
  <2>1. ASSUME NEW i \in DOMAIN r, LineOf(r[i]) # Earlier
        PROVE  LineOf(r[i]) \in LinesIn(q) /\ LineOf(r[i]) # h
    <3>1. i + 1 \in DOMAIN q /\ i + 1 # 1 /\ r[i] = q[i + 1]
      BY <1>1, <1>a
    <3>. QED
      BY <1>2, <1>4, <2>1, <3>1 DEF LinesIn
  <2>2. ASSUME NEW i \in DOMAIN q, LineOf(q[i]) # Earlier, LineOf(q[i]) # h
        PROVE  LineOf(q[i]) \in LinesIn(r)
    <3>1. i - 1 \in DOMAIN r /\ r[i - 1] = q[i]
      BY <1>1, <1>3, <2>2
    <3>2. LineOf(r[i - 1]) = LineOf(q[i])
      BY <3>1
    <3>. QED
      BY <2>2, <3>1, <3>2 DEF LinesIn
  <2>. QED
    BY <2>1, <2>2 DEF LinesIn
<1>6. Ascending(r)
  <2> SUFFICES ASSUME NEW i \in DOMAIN r, NEW j \in DOMAIN r, i < j,
                      LineOf(r[i]) # Earlier, LineOf(r[j]) # Earlier
               PROVE  LineOf(r[i]) < LineOf(r[j])
    BY DEF Ascending
  <2>1. i \in Nat /\ j \in Nat /\ i + 1 < j + 1
    BY <1>1, <1>a
  <2>2. PICK k \in DOMAIN q, l \in DOMAIN q : k < l /\ r[i] = q[k] /\ r[j] = q[l]
    BY <1>1, <2>1
  <2>. QED
    BY <2>2 DEF Ascending
<1>7. h # Earlier => h \in LinesIn(q) /\ \A m \in LinesIn(q) : h <= m
  <2> SUFFICES ASSUME h # Earlier PROVE h \in LinesIn(q) /\ \A m \in LinesIn(q) : h <= m
    OBVIOUS
  <2>1. h \in LinesIn(q)
    BY <1>1, <1>2 DEF LinesIn
  <2>2. \A i \in DOMAIN q : LineOf(q[i]) # Earlier => h <= LineOf(q[i])
    BY <1>1, <1>2, <1>4
  <2>. QED
    BY <2>1, <2>2 DEF LinesIn
<1>. QED
  BY <1>5, <1>6, <1>7, <1>a

\* The queues of the way hold messages, and hold numbered lines.
Message == Entry \cup ToServer \cup Typed \cup Event

LEMMA HandIs ==
  /\ loop = Idle => Hand = <<>>
  /\ \A msg : /\ loop = Tell(msg) => Hand = <<msg>>
              /\ loop = Show(msg) => Hand = <<>>
  /\ loop' = Idle => Hand' = <<>>
  /\ \A msg : /\ loop' = Tell(msg) => Hand' = <<msg>>
              /\ loop' = Show(msg) => Hand' = <<>>
BY Distinct DEF Hand, Tell, Show

LEMMA WayIs ==
  ASSUME TypeOK
  PROVE  /\ \A s \in 1..6 : Way[s] \in Seq(Message)
         /\ Held \in [1..6 -> SUBSET Nat] /\ \A s \in 1..6 : Earlier \notin Held[s]
         /\ Held[1] = LinesIn(conv) /\ Held[2] = LinesIn(mail) /\ Held[3] = LinesIn(Hand)
         /\ Held[4] = LinesIn(events) /\ Held[5] = LinesIn(link) /\ Held[6] = LinesIn(input)
<1>1. /\ conv \in Seq(Entry) /\ mail \in Seq(ToAgent) /\ events \in Seq(Event)
      /\ link \in Seq(ToServer) /\ input \in Seq(Typed) /\ LoopTypes
  BY TypeParts DEF AgentTypes, CliTypes, CliTypeOK, LoopTypes
<1>2. /\ Entry \subseteq Message /\ ToAgent \subseteq Message /\ Event \subseteq Message
      /\ ToServer \subseteq Message /\ Typed \subseteq Message
  BY DEF Message, Entry
<1>3. Hand \in Seq(Message)
  <2>1. <<>> \in Seq(Message) /\ \A msg \in Message : <<msg>> \in Seq(Message)
    OBVIOUS
  <2>. QED
    BY <1>1, <1>2, <2>1, LoopIs, HandIs
<1>4. /\ conv \in Seq(Message) /\ mail \in Seq(Message) /\ events \in Seq(Message)
      /\ link \in Seq(Message) /\ input \in Seq(Message)
  BY <1>1, <1>2
<1>5. ASSUME NEW s \in 1..6 PROVE Way[s] \in Seq(Message)
  <2>1. s = 1 \/ s = 2 \/ s = 3 \/ s = 4 \/ s = 5 \/ s = 6
    OBVIOUS
  <2>. QED
    BY <1>3, <1>4, <2>1 DEF Way
<1>6. ASSUME NEW q \in Seq(Message) PROVE LinesIn(q) \in SUBSET Nat /\ Earlier \notin LinesIn(q)
  BY LineIsNat DEF LinesIn, Message
<1>7. Held \in [1..6 -> SUBSET Nat] /\ \A s \in 1..6 : Earlier \notin Held[s]
  BY <1>5, <1>6 DEF Held
<1>8. /\ Held[1] = LinesIn(conv) /\ Held[2] = LinesIn(mail) /\ Held[3] = LinesIn(Hand)
      /\ Held[4] = LinesIn(events) /\ Held[5] = LinesIn(link) /\ Held[6] = LinesIn(input)
  BY DEF Held, Way
<1>. QED
  BY <1>5, <1>7, <1>8

\* The oldest line of a place moves on to the next place.
LEMMA SetsMove ==
  ASSUME NEW H \in [1..6 -> SUBSET Nat], NEW G \in [1..6 -> SUBSET Nat], Apart(H),
         NEW s \in 2..6, NEW m, Earlier \notin H[s],
         m # Earlier => m \in H[s] /\ \A k \in H[s] : m <= k,
         G[s] = H[s] \ {m}, G[s - 1] = H[s - 1] \cup ({m} \ {Earlier}),
         \A t \in 1..6 : t # s /\ t # s - 1 => G[t] = H[t]
  PROVE  Apart(G) /\ All(G) = All(H) /\ (m # Earlier => \A k \in H[s - 1] : k < m)
<1>1. s \in 1..6 /\ s - 1 \in 1..6 /\ s - 1 < s
  OBVIOUS
<1>2. m # Earlier => \A k \in H[s - 1] : k < m
  BY <1>1 DEF Apart
<1>3. ASSUME NEW t \in 1..6, NEW u \in 1..6, t < u, NEW x \in G[t], NEW y \in G[u]
      PROVE  x < y
  <2>0. ASSUME NEW v \in 1..6, NEW z \in G[v]
        PROVE  z \in H[v] \/ (z = m /\ m # Earlier /\ v = s - 1)
    <3>1. CASE v = s
      BY <2>0, <3>1
    <3>2. CASE v = s - 1
      BY <2>0, <3>2
    <3>3. CASE v # s /\ v # s - 1
      BY <2>0, <3>3
    <3>. QED
      BY <3>1, <3>2, <3>3
  <2>1. x \in H[t] \/ (x = m /\ m # Earlier /\ t = s - 1)
    BY <1>3, <2>0
  <2>2. y \in H[u] \/ (y = m /\ m # Earlier /\ u = s - 1)
    BY <1>3, <2>0
  <2>3. CASE x \in H[t] /\ y \in H[u]
    BY <1>3, <2>3 DEF Apart
  <2>4. CASE x = m /\ m # Earlier /\ t = s - 1 /\ y \in H[u]
    <3>1. CASE u = s
      <4>1. y # m /\ m <= y /\ m \in Nat /\ y \in Nat
        BY <1>1, <1>3, <2>4, <3>1
      <4>. QED
        BY <2>4, <4>1
    <3>2. CASE u # s
      <4>1. s < u
        BY <1>3, <2>4, <3>2
      <4>. QED
        BY <1>1, <2>4, <4>1 DEF Apart
    <3>. QED
      BY <3>1, <3>2
  <2>5. CASE x \in H[t] /\ y = m /\ m # Earlier /\ u = s - 1
    <3>1. t < s
      BY <1>3, <2>5
    <3>. QED
      BY <1>1, <2>5, <3>1 DEF Apart
  <2>. QED
    BY <1>3, <2>1, <2>2, <2>3, <2>4, <2>5
<1>4. All(G) = All(H)
  <2>1. ASSUME NEW t \in 1..6 PROVE G[t] \subseteq All(H)
    <3>1. H[t] \subseteq All(H) /\ H[s] \subseteq All(H)
      BY <1>1 DEF All
    <3>2. G[t] \subseteq H[t] \cup ({m} \ {Earlier})
      BY <1>1
    <3>. QED
      BY <3>1, <3>2
  <2>2. ASSUME NEW t \in 1..6 PROVE H[t] \subseteq All(G)
    <3>1. G[t] \subseteq All(G) /\ G[s - 1] \subseteq All(G)
      BY <1>1 DEF All
    <3>2. H[t] \subseteq G[t] \cup ({m} \ {Earlier})
      BY <1>1
    <3>3. {m} \ {Earlier} \subseteq All(G)
      BY <3>1
    <3>. QED
      BY <3>1, <3>2, <3>3
  <2>. QED
    BY <2>1, <2>2 DEF All
<1>. QED
  BY <1>2, <1>3, <1>4 DEF Apart

\* No queue gains or loses a line.
LEMMA Quiet ==
  ASSUME LineInv, UNCHANGED <<typed, refused>>, Over' = Over,
         \A s \in 1..6 : LinesIn(Way[s])' = LinesIn(Way[s]) /\ Ascending(Way[s])'
  PROVE  LineInv'
<1>1. Held' = Held
  BY DEF Held
<1>2. LinesIn(typed)' = LinesIn(typed)
  BY DEF LinesIn
<1>. QED
  BY <1>1, <1>2, LinesKeptIs DEF LineInv

\* A queue as it was, and one that gains or loses a message that is no line.
LEMMA QuietQueue ==
  ASSUME NEW q \in Seq(Message), Ascending(q), NEW r,
         \/ r = q
         \/ \E e \in Message : LineOf(e) = Earlier /\ r = Append(q, e)
         \/ q # <<>> /\ r = Tail(q) /\ LineOf(Head(q)) = Earlier
  PROVE  LinesIn(r) = LinesIn(q) /\ Ascending(r)
<1>1. CASE r = q
  BY <1>1
<1>2. ASSUME NEW e \in Message, LineOf(e) = Earlier, r = Append(q, e)
      PROVE  LinesIn(r) = LinesIn(q) /\ Ascending(r)
  <2>1. /\ LinesIn(Append(q, e)) = LinesIn(q) \cup ({LineOf(e)} \ {Earlier})
        /\ Ascending(Append(q, e))
    BY <1>2, LinesAppend
  <2>. QED
    BY <1>2, <2>1
<1>3. CASE q # <<>> /\ r = Tail(q) /\ LineOf(Head(q)) = Earlier
  <2>1. \A e \in Message : LineOf(e) \in Nat
    BY LineIsNat DEF Message
  <2>2. LinesIn(r) = LinesIn(q) \ {Earlier} /\ Ascending(r)
    BY <1>3, <2>1, LinesTail
  <2>. QED
    BY <2>2 DEF LinesIn
<1>. QED
  BY <1>1, <1>2, <1>3

\* A message moves on, and with it the line that it carries.
LEMMA LineMoves ==
  ASSUME TypeOK, LineInv, NEW s \in 2..6, Way[s] # <<>>, Way'[s] = Tail(Way[s]),
         NEW e \in Message, LineOf(e) = LineOf(Head(Way[s])),
         Way'[s - 1] = Append(Way[s - 1], e),
         \A t \in 1..6 : t # s /\ t # s - 1 => Way'[t] = Way[t],
         UNCHANGED <<typed, refused>>, Over' = Over
  PROVE  LineInv'
<1>1. s \in 1..6 /\ s - 1 \in 1..6 /\ s - 1 # s
  OBVIOUS
<1>2. PICK q, r, m : q = Way[s] /\ r = Way[s - 1] /\ m = LineOf(e)
  OBVIOUS
<1>3. /\ q \in Seq(Message) /\ r \in Seq(Message) /\ q # <<>>
      /\ Way'[s] = Tail(q) /\ Way'[s - 1] = Append(r, e) /\ m = LineOf(Head(q))
  BY <1>1, <1>2, WayIs
<1>4. \A t \in 1..6 : Ascending(Way[t])
  BY LinesKeptIs DEF LineInv
<1>5. \A x \in Message : LineOf(x) \in Nat
  BY LineIsNat DEF Message
<1>6. /\ LinesIn(Tail(q)) = LinesIn(q) \ {m} /\ Ascending(Tail(q))
      /\ m # Earlier => m \in LinesIn(q) /\ \A k \in LinesIn(q) : m <= k
  BY <1>1, <1>2, <1>3, <1>4, <1>5, LinesTail
<1>7. /\ LinesIn(Append(r, e)) = LinesIn(r) \cup ({m} \ {Earlier})
      /\ (m # Earlier => \A k \in LinesIn(r) : k < m) => Ascending(Append(r, e))
  BY <1>1, <1>2, <1>3, <1>4, LinesAppend
<1>8. PICK H, G : H = Held /\ G = Held'
  OBVIOUS
<1>9. /\ H \in [1..6 -> SUBSET Nat] /\ Apart(H) /\ Earlier \notin H[s]
      /\ H[s] = LinesIn(q) /\ H[s - 1] = LinesIn(r)
  BY <1>1, <1>2, <1>8, WayIs, LinesKeptIs DEF LineInv, Held
<1>10. /\ G[s] = LinesIn(Tail(q)) /\ G[s - 1] = LinesIn(Append(r, e))
       /\ \A t \in 1..6 : t # s /\ t # s - 1 => G[t] = H[t]
  BY <1>1, <1>3, <1>8 DEF Held
<1>11. G \in [1..6 -> SUBSET Nat]
  <2>1. G = [t \in 1..6 |-> G[t]]
    BY <1>8 DEF Held
  <2>2. ASSUME NEW t \in 1..6 PROVE G[t] \in SUBSET Nat
    <3>1. H[t] \in SUBSET Nat /\ H[s] \in SUBSET Nat /\ H[s - 1] \in SUBSET Nat /\ m \in Nat
      BY <1>1, <1>2, <1>5, <1>9
    <3>. QED
      BY <1>6, <1>7, <1>9, <1>10, <3>1
  <2>. QED
    BY <2>1, <2>2
<1>12. Apart(G) /\ All(G) = All(H) /\ (m # Earlier => \A k \in H[s - 1] : k < m)
  BY <1>6, <1>7, <1>9, <1>10, <1>11, SetsMove
<1>13. ASSUME NEW t \in 1..6 PROVE Ascending(Way[t])'
  <2>1. CASE t = s
    BY <1>3, <1>6, <2>1
  <2>2. CASE t = s - 1
    BY <1>3, <1>7, <1>9, <1>12, <2>2
  <2>3. CASE t # s /\ t # s - 1
    BY <1>4, <2>3
  <2>. QED
    BY <2>1, <2>2, <2>3
<1>14. LinesIn(typed)' = LinesIn(typed)
  BY DEF LinesIn
<1>. QED
  BY <1>8, <1>12, <1>13, <1>14, LinesKeptIs DEF LineInv, AllKept

\* The agent reads what waits for it, and the rest of a conversation holds no line.
LEMMA AgentLines ==
  ASSUME TypeOK, LineInv, AgentStep, UNCHANGED <<cliVars, Elsewhere>>
  PROVE  LineInv'
<1>1. /\ AgentTypes /\ \A s \in 1..6 : Way[s] \in Seq(Message) /\ Ascending(Way[s])
      /\ conv \in Seq(Message)
  <2>1. \A s \in 1..6 : Way[s] \in Seq(Message) /\ Ascending(Way[s])
    BY WayIs, LinesKeptIs DEF LineInv
  <2>2. Way[1] = conv
    BY DEF Way
  <2>. QED
    BY <2>1, <2>2, TypeParts
<1>2. Hand' = Hand /\ Over' = Over /\ UNCHANGED <<typed, refused>>
  BY DEF Hand, Over
<1>3. CASE /\ mail # <<>> /\ Head(mail) \in ToAgent
           /\ conv' = Append(conv, Head(mail)) /\ mail' = Tail(mail)
  <2>1. Head(mail) \in Message
    BY <1>3 DEF Message, Entry
  <2>2. /\ 2 \in 2..6 /\ Way[2] = mail /\ Way'[2] = Tail(Way[2])
        /\ Way'[2 - 1] = Append(Way[2 - 1], Head(mail))
        /\ \A t \in 1..6 : t # 2 /\ t # 2 - 1 => Way'[t] = Way[t]
    BY <1>2, <1>3 DEF Way
  <2>. QED
    BY <1>2, <1>3, <2>1, <2>2, LineMoves
<1>4. ASSUME NEW e \in Message, LineOf(e) = Earlier, conv' = conv \/ conv' = Append(conv, e),
             mail' = mail
      PROVE  LineInv'
  <2>1. LinesIn(conv') = LinesIn(conv) /\ Ascending(conv')
    <3>1. Ascending(conv)
      BY <1>1 DEF Way
    <3>. QED
      BY <1>1, <1>4, <3>1, QuietQueue
  <2>2. /\ Way'[1] = conv' /\ Way[1] = conv
        /\ \A t \in 1..6 : t # 1 => Way'[t] = Way[t]
    BY <1>2, <1>4 DEF Way
  <2>3. \A s \in 1..6 : LinesIn(Way[s])' = LinesIn(Way[s]) /\ Ascending(Way[s])'
    BY <1>1, <2>1, <2>2
  <2>. QED
    BY <1>2, <2>3, Quiet
<1>5. Said \in Message /\ LineOf(Said) = Earlier
  BY LineIsNat DEF Message, Entry
<1>6. \A c \in CallIds : Uses(c) \in Message /\ LineOf(Uses(c)) = Earlier
  BY LineIsNat DEF Message, Entry
<1>. QED
  BY <1>1, <1>3, <1>4, <1>5, <1>6, AgentDoes

\* What the handling of an event does to lines: one that is told or refused was the
\* event, and no other event is a line.
LEMMA HandlesLines ==
  ASSUME TypeOK, LoopHandles
  PROVE  \/ \E m \in Lines :
              /\ Head(events) = FromCli(Say(m))
              /\ \/ loop' = Tell(User(m)) /\ refused' = refused
                 \/ loop' = Show(NoAgents) /\ refused' = refused \cup {m}
         \/ /\ LineOf(Head(events)) = Earlier /\ refused' = refused
            /\ \/ loop' = Idle
               \/ \E c \in CallIds : \E a \in Answers(c) : loop' = Tell(a)
               \/ \E msg \in FromServer : loop' = Show(msg)
<1>1. CASE \E m \in Lines : OnSay(m)
  BY <1>1 DEF OnSay, Take
<1>2. CASE OnFrontendConnected \/ OnFrontendGone
  BY <1>2, LineIsNat, Handles DEF OnFrontendConnected, OnFrontendGone, Take
<1>3. CASE OnAuth \/ OnListAgents
  <2>1. LineOf(FromCli(Auth)) = Earlier /\ LineOf(FromCli(Agents)) = Earlier
    BY DEF LineOf, FromCli, Auth, Agents
  <2>2. Granted \in FromServer /\ AgentList \in FromServer
    BY DEF FromServer
  <2>. QED
    BY <1>3, <2>1, <2>2 DEF OnAuth, OnListAgents, Take
<1>4. CASE OnResponse \/ OnAgentError
  <2>1. Chunk \in FromServer /\ Done \in FromServer /\ Dead \in FromServer
    BY DEF FromServer
  <2>. QED
    BY <1>4, <2>1, LineIsNat DEF OnResponse, OnAgentError, Take
<1>5. CASE \E c \in CallIds : OnCallDecided(c) \/ OnCallAsked(c)
  <2>1. \A c \in CallIds : Ask(c) \in FromServer
    BY DEF FromServer
  <2>. QED
    BY <1>5, <2>1, LineIsNat DEF OnCallDecided, OnCallAsked, Take, Answers
<1>. QED
  BY <1>1, <1>2, <1>3, <1>4, <1>5 DEF LoopHandles

\* A command line that has gone takes the newest lines with it.
LEMMA ExitLines ==
  ASSUME TypeOK, LineInv, ~Over, Exit, UNCHANGED <<typed, link, agentVars, Elsewhere>>
  PROVE  LineInv'
<1>1. /\ UNCHANGED <<refused, typed>> /\ Over' /\ LinesIn(typed)' = LinesIn(typed)
      /\ input' = <<>> /\ LinesIn(<<>>) = {} /\ Ascending(<<>>)
  BY DEF Exit, Over, LinesIn, Ascending
<1>2. /\ Way'[6] = <<>>
      /\ \A t \in 1..6 : t # 6 => Way'[t] = Way[t]
  BY <1>1 DEF Way, Hand
<1>3. PICK H, G : H = Held /\ G = Held'
  OBVIOUS
<1>4. /\ H \in [1..6 -> SUBSET Nat] /\ Apart(H) /\ AllKept(H, LinesIn(typed) \ refused, FALSE)
      /\ \A t \in 1..6 : Ascending(Way[t])
  BY <1>3, WayIs, LinesKeptIs DEF LineInv, AllKept
<1>5. G[6] = {} /\ \A t \in 1..6 : t # 6 => G[t] = H[t]
  BY <1>1, <1>2, <1>3 DEF Held
<1>6. Apart(G)
  BY <1>4, <1>5 DEF Apart
<1>7. \A t \in 1..6 : Ascending(Way[t])'
  BY <1>1, <1>2, <1>4
<1>8. All(G) \subseteq All(H) /\ All(H) \subseteq All(G) \cup H[6]
  BY <1>5 DEF All
<1>9. \A m \in H[6], k \in All(G) : k < m
  <2>1. \A k \in All(G) : \E t \in 1..6 : t < 6 /\ k \in H[t]
    <3>1. ASSUME NEW t \in 1..6, NEW k \in G[t] PROVE t < 6 /\ k \in H[t]
      <4>1. t # 6
        BY <1>5, <3>1
      <4>2. t < 6
        BY <4>1
      <4>. QED
        BY <1>5, <3>1, <4>1, <4>2
    <3>. QED
      BY <3>1 DEF All
  <2>. QED
    BY <1>4, <2>1 DEF Apart
<1>10. AllKept(G, LinesIn(typed) \ refused, TRUE)
  BY <1>4, <1>8, <1>9 DEF AllKept
<1>. QED
  BY <1>1, <1>3, <1>6, <1>7, <1>10, LinesKeptIs DEF LineInv

\* A line that is typed is newer than all others.
LEMMA TypedLines ==
  ASSUME TypeOK, LineInv, UserTypes, UNCHANGED <<agentVars, Elsewhere>>
  PROVE  LineInv'
<1>1. typed \in Seq(Typed) /\ input \in Seq(Typed) /\ Len(typed) \in Nat
  BY TypeParts DEF CliTypes, CliTypeOK
<1>2. PICK n, l : /\ n = Len(typed) + 1 /\ l \in {Say(n), Agents, Quit}
                  /\ typed' = Append(typed, l) /\ input' = Append(input, l)
  BY DEF UserTypes
<1>3. UNCHANGED <<refused, main, link>> /\ Over' = Over
  BY DEF UserTypes, Over
<1>4. /\ n \in Nat \ {0} /\ l \in Typed /\ LineOf(l) \in {Earlier, n}
  <2>1. n \in Lines /\ n \in Nat \ {0}
    BY <1>1, <1>2, CliAssumption DEF UserTypes, Lines
  <2>. QED
    BY <1>2, <2>1, LineIsNat DEF Typed
<1>5. /\ LinesIn(typed') = LinesIn(typed) \cup ({LineOf(l)} \ {Earlier})
      /\ LinesIn(input') = LinesIn(input) \cup ({LineOf(l)} \ {Earlier})
      /\ Ascending(input) /\ (LineOf(l) # Earlier => \A m \in LinesIn(input) : m < LineOf(l))
           => Ascending(input')
  BY <1>1, <1>2, <1>4, LinesAppend
<1>6. \A i \in DOMAIN typed' : LineOf(typed'[i]) \in {Earlier, i}
  <2>1. /\ DOMAIN typed' = DOMAIN typed \cup {n} /\ typed'[n] = l
        /\ \A i \in DOMAIN typed : typed'[i] = typed[i]
    BY <1>1, <1>2, <1>4, AppendIs
  <2>. QED
    BY <1>4, <2>1 DEF LineInv
<1>7. \A m \in LinesIn(typed) : m < n
  <2>1. \A i \in DOMAIN typed : i < n
    BY <1>1, <1>2
  <2>. QED
    BY <2>1 DEF LinesIn, LineInv
<1>8. PICK H, G, due : H = Held /\ G = Held' /\ due = LinesIn(typed) \ refused
  OBVIOUS
<1>9. /\ H \in [1..6 -> SUBSET Nat] /\ Apart(H) /\ AllKept(H, due, Over)
      /\ H[6] = LinesIn(input) /\ \A t \in 1..6 : Ascending(Way[t])
  BY <1>8, WayIs, LinesKeptIs DEF LineInv
<1>10. /\ Way'[6] = input' /\ Way[6] = input
       /\ \A t \in 1..6 : t # 6 => Way'[t] = Way[t]
  BY <1>3 DEF Way, Hand
<1>11. /\ G[6] = H[6] \cup ({LineOf(l)} \ {Earlier})
       /\ \A t \in 1..6 : t # 6 => G[t] = H[t]
  BY <1>5, <1>8, <1>9, <1>10 DEF Held
<1>12. \A t \in 1..6 : \A m \in H[t] : m < n
  BY <1>7, <1>8, <1>9 DEF AllKept, All
<1>13. Apart(G)
  <2>1. ASSUME NEW t \in 1..6, NEW u \in 1..6, t < u, NEW x \in G[t], NEW y \in G[u]
        PROVE  x < y
    <3>1. t # 6 /\ x \in H[t]
      BY <1>11, <2>1
    <3>2. y \in H[u] \/ y = n
      BY <1>4, <1>11
    <3>. QED
      BY <1>9, <1>12, <2>1, <3>1, <3>2 DEF Apart
  <2>. QED
    BY <2>1 DEF Apart
<1>14. \A t \in 1..6 : Ascending(Way[t])'
  <2>1. Ascending(input')
    BY <1>4, <1>5, <1>9, <1>10, <1>12
  <2>. QED
    BY <1>9, <1>10, <2>1
<1>15. All(G) = All(H) \cup ({LineOf(l)} \ {Earlier})
  BY <1>11 DEF All
<1>16. refused' \subseteq LinesIn(typed') /\ n \notin refused /\ refused' = refused
  BY <1>3, <1>4, <1>5, <1>7 DEF LineInv
<1>17. LinesIn(typed') \ refused' = due \cup ({LineOf(l)} \ {Earlier})
  BY <1>4, <1>5, <1>8, <1>16
<1>18. \A k \in All(H) : k < n
  BY <1>12 DEF All
<1>19. ~Over
  BY DEF UserTypes, Over
<1>20. AllKept(G, LinesIn(typed') \ refused', Over')
  BY <1>3, <1>9, <1>15, <1>17, <1>19 DEF AllKept
<1>. QED
  BY <1>6, <1>8, <1>13, <1>14, <1>16, <1>20, LinesKeptIs DEF LineInv

LEMMA CliLines ==
  ASSUME TypeOK, LineInv, LinkInv, CliStep, UNCHANGED <<agentVars, Elsewhere>>
  PROVE  LineInv'
<1>1. Hand' = Hand /\ UNCHANGED <<conv, mail, events, refused>>
  BY DEF Hand
<1>2. /\ link \in Seq(ToServer) /\ input \in Seq(Typed)
      /\ \A s \in 1..6 : Way[s] \in Seq(Message) /\ Ascending(Way[s])
  BY TypeParts, WayIs, LinesKeptIs DEF CliTypes, CliTypeOK, LineInv
<1>3. CASE (Interrupt \/ Handshake \/ MainQuits) /\ Exit
  <2>1. ~Over /\ UNCHANGED <<typed, link>>
    BY <1>3 DEF Interrupt, Handshake, MainQuits, Over
  <2>. QED
    BY <1>3, <2>1, ExitLines
<1>4. CASE UserTypes
  BY <1>4, TypedLines
<1>5. CASE MainTakes
  <2>1. /\ input # <<>> /\ link' = Append(link, Head(input)) /\ input' = Tail(input)
        /\ UNCHANGED <<main, typed>>
    BY <1>5 DEF MainTakes
  <2>2. Head(input) \in Message
    BY <1>2, <2>1, TailIs DEF Message
  <2>3. /\ 6 \in 2..6 /\ Way[6] = input /\ Way'[6] = Tail(Way[6])
        /\ Way'[6 - 1] = Append(Way[6 - 1], Head(input))
        /\ \A t \in 1..6 : t # 6 /\ t # 6 - 1 => Way'[t] = Way[t]
    BY <1>1, <2>1 DEF Way
  <2>4. Over' = Over
    BY <2>1 DEF Over
  <2>. QED
    BY <1>1, <2>1, <2>2, <2>3, <2>4, LineMoves
<1>6. CASE Connect
  <2>1. /\ link = <<>> /\ link' = <<Auth>> /\ Over' = Over /\ UNCHANGED <<typed, input>>
    BY <1>6 DEF Connect, LinkInv, Over
  <2>2. LinesIn(link') = LinesIn(link) /\ Ascending(link')
    BY <2>1 DEF LinesIn, Ascending, LineOf, Auth
  <2>3. /\ Way'[5] = link' /\ Way[5] = link
        /\ \A t \in 1..6 : t # 5 => Way'[t] = Way[t]
    BY <1>1, <2>1 DEF Way
  <2>4. \A s \in 1..6 : LinesIn(Way[s])' = LinesIn(Way[s]) /\ Ascending(Way[s])'
    BY <1>2, <2>2, <2>3
  <2>. QED
    BY <1>1, <2>1, <2>4, Quiet
<1>7. CASE (Handshake /\ ~Exit) \/ TakePrompt \/ AwaitLine \/ EndOfInput \/ Prints \/ StopTerminal
  <2>1. UNCHANGED <<input, link, typed>> /\ Over' = Over
    BY <1>7 DEF Handshake, TakePrompt, AwaitLine, EndOfInput, Prints, StopTerminal, Over
  <2>2. Way' = Way
    BY <1>1, <2>1 DEF Way
  <2>3. \A s \in 1..6 : LinesIn(Way[s])' = LinesIn(Way[s]) /\ Ascending(Way[s])'
    BY <1>2, <2>2
  <2>. QED
    BY <1>1, <2>1, <2>3, Quiet
<1>. QED
  BY <1>3, <1>4, <1>5, <1>6, <1>7 DEF CliStep, Interrupt, MainQuits

\* Lines on their way through the supervisor.
LEMMA SupervisorLines ==
  ASSUME TypeOK, LineInv, SupervisorStep
  PROVE  LineInv'
<1>1. /\ LoopTypes /\ events \in Seq(Event) /\ link \in Seq(ToServer) /\ mail \in Seq(ToAgent)
      /\ out \in Seq(ToSupervisor)
      /\ \A s \in 1..6 : Way[s] \in Seq(Message) /\ Ascending(Way[s])
  BY TypeParts, WayIs, LinesKeptIs DEF AgentTypes, CliTypes, CliTypeOK, LoopTypes, LineInv
<1>2. Way[3] = Hand /\ Way[4] = events /\ Way[5] = link
  BY DEF Way
<1>3. CASE ConnectionStep \/ PostFromAgent
  <2>1. /\ UNCHANGED <<conv, mail, input, typed, refused>> /\ Hand' = Hand /\ Over' = Over
    BY <1>3, Posts DEF Hand, Over
  <2>2. ASSUME NEW e \in Message, LineOf(e) = Earlier, events' = Append(events, e), link' = link
        PROVE  LineInv'
    <3>1. /\ Way'[4] = Append(events, e)
          /\ \A t \in 1..6 : t # 4 => Way'[t] = Way[t]
      BY <2>1, <2>2 DEF Way
    <3>2. LinesIn(Append(events, e)) = LinesIn(events) /\ Ascending(Append(events, e))
      <4>1. events \in Seq(Message) /\ Ascending(events)
        BY <1>1, <1>2
      <4>. QED
        BY <2>2, <4>1, QuietQueue
    <3>3. \A s \in 1..6 : LinesIn(Way[s])' = LinesIn(Way[s]) /\ Ascending(Way[s])'
      BY <1>1, <1>2, <3>1, <3>2
    <3>. QED
      BY <2>1, <3>3, Quiet
  <2>3. CASE (\E e \in {Connected, Gone} : events' = Append(events, e)) /\ link' = link
    BY <2>2, <2>3, LineIsNat DEF Message, Event
  <2>4. CASE /\ link # <<>> /\ events' = Append(events, FromCli(Head(link)))
             /\ link' = Tail(link)
    <3>1. Head(link) \in ToServer
      BY <1>1, <2>4, TailIs
    <3>2. FromCli(Head(link)) \in Message /\ LineOf(FromCli(Head(link))) = LineOf(Head(link))
      <4>1. LineOf(FromCli(Agents)) = LineOf(Agents) /\ LineOf(FromCli(Auth)) = LineOf(Auth)
        BY DEF LineOf, FromCli, Agents, Auth
      <4>2. \A m \in Lines : LineOf(FromCli(Say(m))) = LineOf(Say(m))
        BY LineIsNat, CliAssumption DEF Lines
      <4>. QED
        BY <3>1, <4>1, <4>2 DEF ToServer, Message, Event
    <3>3. /\ 5 \in 2..6 /\ Way'[5] = Tail(Way[5])
          /\ Way'[5 - 1] = Append(Way[5 - 1], FromCli(Head(link)))
          /\ \A t \in 1..6 : t # 5 /\ t # 5 - 1 => Way'[t] = Way[t]
      BY <2>1, <2>4 DEF Way
    <3>. QED
      BY <1>2, <2>1, <2>4, <3>2, <3>3, LineMoves
  <2>5. CASE /\ out # <<>> /\ events' = Append(events, FromAgent(Head(out))) /\ link' = link
    <3>1. Head(out) \in ToSupervisor
      BY <1>1, <2>5, TailIs
    <3>2. FromAgent(Head(out)) \in Message /\ LineOf(FromAgent(Head(out))) = Earlier
      BY <3>1, LineIsNat DEF Message, Event
    <3>. QED
      BY <2>2, <2>5, <3>2
  <2>. QED
    BY <1>3, <2>3, <2>4, <2>5, Posts
<1>4. CASE LoopHandles
  <2>1. /\ loop = Idle /\ events # <<>> /\ events' = Tail(events) /\ Hand = <<>>
        /\ UNCHANGED <<conv, mail, link, input, typed>> /\ Over' = Over
    BY <1>4, Handles, HandIs DEF Over
  <2>2. ASSUME NEW m \in Lines, Head(events) = FromCli(Say(m)), loop' = Tell(User(m)),
               refused' = refused
        PROVE  LineInv'
    <3>1. m \in Nat /\ User(m) \in Message /\ LineOf(User(m)) = LineOf(Head(events))
      BY <2>2, LineIsNat, CliAssumption DEF Lines, Message, Entry, ToAgent, Texts
    <3>2. Hand' = <<User(m)>> /\ <<User(m)>> = Append(<<>>, User(m))
      BY <2>2, HandIs
    <3>3. /\ 4 \in 2..6 /\ Way'[4] = Tail(Way[4])
          /\ Way'[4 - 1] = Append(Way[4 - 1], User(m))
          /\ \A t \in 1..6 : t # 4 /\ t # 4 - 1 => Way'[t] = Way[t]
      BY <2>1, <3>2 DEF Way
    <3>. QED
      BY <1>2, <2>1, <2>2, <3>1, <3>3, LineMoves
  <2>3. ASSUME NEW m \in Lines, Head(events) = FromCli(Say(m)), loop' = Show(NoAgents),
               refused' = refused \cup {m}
        PROVE  LineInv'
    <3>1. m \in Nat /\ LineOf(Head(events)) = m /\ m # Earlier
      BY <2>3, LineIsNat, CliAssumption DEF Lines, Earlier
    <3>2. Hand' = <<>>
      BY <2>3, HandIs
    <3>3. /\ Way'[4] = Tail(events) /\ \A t \in 1..6 : t # 4 => Way'[t] = Way[t]
      BY <2>1, <3>2 DEF Way
    <3>4. /\ LinesIn(Tail(events)) = LinesIn(events) \ {m} /\ Ascending(Tail(events))
          /\ m \in LinesIn(events)
      <4>1. \A e \in Event : LineOf(e) \in Nat
        BY LineIsNat
      <4>2. Ascending(events)
        BY <1>1, <1>2
      <4>3. /\ LinesIn(Tail(events)) = LinesIn(events) \ {LineOf(Head(events))}
            /\ Ascending(Tail(events))
            /\ LineOf(Head(events)) # Earlier => LineOf(Head(events)) \in LinesIn(events)
        BY <1>1, <2>1, <4>1, <4>2, LinesTail
      <4>. QED
        BY <3>1, <4>3
    <3>5. PICK H, G, due : H = Held /\ G = Held' /\ due = LinesIn(typed) \ refused
      OBVIOUS
    <3>6. /\ H \in [1..6 -> SUBSET Nat] /\ Apart(H) /\ AllKept(H, due, Over)
          /\ H[4] = LinesIn(events)
      BY <3>5, WayIs, LinesKeptIs DEF LineInv
    <3>7. /\ G[4] = H[4] \ {m} /\ \A t \in 1..6 : t # 4 => G[t] = H[t]
      <4>1. \A t \in 1..6 : G[t] = LinesIn(Way'[t]) /\ H[t] = LinesIn(Way[t])
        BY <3>5 DEF Held
      <4>2. G[4] = LinesIn(Way'[4])
        BY <4>1
      <4>3. G[4] = H[4] \ {m}
        BY <3>3, <3>4, <3>6, <4>2
      <4>4. ASSUME NEW t \in 1..6, t # 4 PROVE G[t] = H[t]
        BY <3>3, <4>1, <4>4
      <4>. QED
        BY <4>3, <4>4
    <3>8. m \in H[4]
      BY <3>4, <3>6
    <3>9. \A t \in 1..6 : m \in H[t] => t = 4
      <4>1. ASSUME NEW t \in 1..6, m \in H[t], t # 4 PROVE FALSE
        <5>1. t < 4 \/ 4 < t
          BY <4>1
        <5>. QED
          BY <3>1, <3>6, <3>8, <4>1, <5>1 DEF Apart
      <4>. QED
        BY <4>1
    <3>10. All(G) = All(H) \ {m}
      BY <3>7, <3>9 DEF All
    <3>11. Apart(G)
      BY <3>6, <3>7 DEF Apart
    <3>12. AllKept(G, LinesIn(typed) \ refused', Over)
      BY <2>3, <3>5, <3>6, <3>10 DEF AllKept
    <3>13. \A s \in 1..6 : Ascending(Way[s])'
      BY <1>1, <3>3, <3>4
    <3>14. LinesIn(typed)' = LinesIn(typed)
      BY <2>1 DEF LinesIn
    <3>15. m \in LinesIn(typed)
      BY <3>5, <3>6, <3>8 DEF AllKept, All
    <3>. QED
      BY <2>1, <2>3, <3>5, <3>11, <3>12, <3>13, <3>14, <3>15, LinesKeptIs DEF LineInv
  <2>4. ASSUME LineOf(Head(events)) = Earlier, refused' = refused,
               \/ loop' = Idle
               \/ \E c \in CallIds : \E a \in Answers(c) : loop' = Tell(a)
               \/ \E msg \in FromServer : loop' = Show(msg)
        PROVE  LineInv'
    <3>1. Hand' = <<>> \/ \E c \in CallIds : \E a \in Answers(c) : Hand' = <<a>>
      BY <2>4, HandIs
    <3>2. LinesIn(Hand') = {} /\ Ascending(Hand') /\ LinesIn(Hand) = {}
      BY <2>1, <3>1, LineIsNat DEF LinesIn, Ascending
    <3>3. LinesIn(Tail(events)) = LinesIn(events) /\ Ascending(Tail(events))
      <4>1. events \in Seq(Message) /\ Ascending(events)
        BY <1>1, <1>2
      <4>. QED
        BY <2>1, <2>4, <4>1, QuietQueue
    <3>4. /\ Way'[4] = Tail(events) /\ Way'[3] = Hand'
          /\ \A t \in 1..6 : t # 3 /\ t # 4 => Way'[t] = Way[t]
      BY <2>1 DEF Way
    <3>5. \A s \in 1..6 : LinesIn(Way[s])' = LinesIn(Way[s]) /\ Ascending(Way[s])'
      BY <1>1, <1>2, <3>2, <3>3, <3>4
    <3>. QED
      BY <2>1, <2>4, <3>5, Quiet
  <2>. QED
    BY <1>4, <2>2, <2>3, <2>4, HandlesLines
<1>5. CASE Telling \/ Showing
  <2>1. /\ UNCHANGED <<conv, events, link, input, typed, refused>> /\ Over' = Over
        /\ Hand' = <<>>
    BY <1>1, <1>5, Delivers, HandIs DEF Over
  <2>2. ASSUME NEW msg \in ToAgent, loop = Tell(msg), mail' = Append(mail, msg)
        PROVE  LineInv'
    <3>1. msg \in Message /\ Hand = <<msg>> /\ Head(Hand) = msg /\ Tail(Hand) = <<>>
      <4>1. Hand = <<msg>>
        BY <2>2, HandIs
      <4>2. Head(<<msg>>) = msg /\ Tail(<<msg>>) = <<>>
        OBVIOUS
      <4>. QED
        BY <4>1, <4>2 DEF Message, Entry
    <3>2. /\ 3 \in 2..6 /\ Way[3] # <<>> /\ Way'[3] = Tail(Way[3])
          /\ Way'[3 - 1] = Append(Way[3 - 1], msg)
          /\ \A t \in 1..6 : t # 3 /\ t # 3 - 1 => Way'[t] = Way[t]
      BY <2>1, <2>2, <3>1 DEF Way
    <3>. QED
      BY <1>2, <2>1, <3>1, <3>2, LineMoves
  <2>3. ASSUME NEW msg \in FromServer, loop = Show(msg), mail' = mail
        PROVE  LineInv'
    <3>1. Hand = <<>>
      BY <2>3, HandIs
    <3>2. Way' = Way
      BY <2>1, <2>3, <3>1 DEF Way
    <3>3. \A s \in 1..6 : LinesIn(Way[s])' = LinesIn(Way[s]) /\ Ascending(Way[s])'
      BY <1>1, <3>2
    <3>. QED
      BY <2>1, <3>3, Quiet
  <2>. QED
    BY <1>1, <1>5, <2>2, <2>3, Delivers
<1>. QED
  BY <1>3, <1>4, <1>5 DEF SupervisorStep

\* The socket of a command line that has not connected stays empty.
LEMMA LinkKept ==
  ASSUME TypeOK, LinkInv, [Next]_vars
  PROVE  LinkInv'
<1>1. CASE UNCHANGED vars \/ (AgentStep /\ UNCHANGED <<cliVars, Elsewhere>>)
  BY <1>1 DEF LinkInv, vars
<1>2. CASE CliStep
  BY <1>2 DEF LinkInv, CliStep, Connect, Interrupt, Handshake, MainTakes, MainQuits, Exit,
     TakePrompt, AwaitLine, UserTypes, EndOfInput, Prints, StopTerminal
<1>3. CASE SupervisorStep
  <2>1. main' = main /\ (link = <<>> => link' = link)
    <3>1. LoopTypes
      BY TypeParts
    <3>. QED
      BY <1>3, <3>1, Posts, Handles, Delivers DEF SupervisorStep
  <2>. QED
    BY <2>1 DEF LinkInv
<1>. QED
  BY <1>1, <1>2, <1>3 DEF Next

LEMMA LinesStay ==
  ASSUME TypeOK, LineInv, LinkInv, [Next]_vars
  PROVE  LineInv' /\ LinkInv'
<1>1. CASE UNCHANGED vars
  <2>1. Way' = Way /\ Over' = Over /\ UNCHANGED <<typed, refused>>
    BY <1>1 DEF vars, Way, Hand, Over
  <2>2. \A s \in 1..6 : Ascending(Way[s])
    BY LinesKeptIs DEF LineInv
  <2>3. \A s \in 1..6 : LinesIn(Way[s])' = LinesIn(Way[s]) /\ Ascending(Way[s])'
    BY <2>1, <2>2
  <2>. QED
    BY <2>1, <2>3, LinkKept, Quiet
<1>. QED
  BY <1>1, LinkKept, AgentLines, CliLines, SupervisorLines DEF Next

LEMMA InitLines == Init => LineInv /\ LinkInv
<1> SUFFICES ASSUME Init PROVE LineInv /\ LinkInv
  OBVIOUS
<1>1. /\ conv = <<>> /\ (mail = <<>> \/ mail = <<User(Earlier)>>) /\ loop = Idle
      /\ events = <<>> /\ link = <<>> /\ input = <<>> /\ typed = <<>> /\ refused = {}
  BY DEF Init, AgentInit, CliInit
<1>2. LinesIn(<<>>) = {} /\ Ascending(<<>>)
  BY DEF LinesIn, Ascending
<1>3. LinesIn(mail) = {} /\ Ascending(mail)
  BY <1>1, LineIsNat DEF LinesIn, Ascending, Earlier
<1>4. Hand = <<>>
  BY <1>1, HandIs
<1>5. ASSUME NEW s \in 1..6 PROVE Ascending(Way[s]) /\ LinesIn(Way[s]) = {}
  <2>1. s = 1 \/ s = 2 \/ s = 3 \/ s = 4 \/ s = 5 \/ s = 6
    OBVIOUS
  <2>. QED
    BY <1>1, <1>2, <1>3, <1>4, <2>1 DEF Way
<1>6. Apart(Held) /\ All(Held) = {}
  BY <1>5 DEF Apart, All, Held
<1>7. AllKept(Held, LinesIn(typed) \ refused, Over)
  BY <1>1, <1>2, <1>6 DEF AllKept
<1>. QED
  BY <1>1, <1>2, <1>5, <1>6, <1>7, LinesKeptIs DEF LineInv, LinkInv

-----------------------------------------------------------------------------
(* Theorems *)

LEMMA InitIInv == Init => IInv
<1> SUFFICES ASSUME Init PROVE IInv
  OBVIOUS
<1>1. TypeOK
  BY InitTypes
<1>2. /\ conv = <<>> /\ turn = "idle" /\ out = <<>> /\ calls = 0 /\ outage = FALSE
      /\ mail = <<>> \/ mail = <<User(Earlier)>>
      /\ events = <<>> /\ known = TRUE /\ loop = Idle /\ thread = "off" /\ pending = {}
  BY DEF Init, AgentInit, CliInit
<1>3. \A x : /\ ~Has(<<>>, x) /\ Once(<<>>, x)
            /\ ~HasAnswer(<<>>, x) /\ OnceAnswer(<<>>, x)
  BY DEF Has, Once, HasAnswer, OnceAnswer
<1>4. \A c \in CallIds : ~HasAnswer(mail, c) /\ OnceAnswer(mail, c)
  BY <1>2 DEF HasAnswer, OnceAnswer, Answers, User, Result, Denied
<1>5. MadeInv
  BY <1>2, AgentLoopAssumption DEF MadeInv, CallIds
<1>6. PlaceInv
  <2>1. \A c : ~Hands(c)
    BY <1>2, Distinct DEF Hands
  <2>. QED
    BY <1>2, <1>3, <1>4, <2>1 DEF PlaceInv, Placed
<1>7. OrderInv /\ PairsInv
  BY <1>2 DEF OrderInv, PairsInv
<1>8. CauseInv
  BY <1>2, <1>3 DEF CauseInv
<1>9. ThreadInv /\ RequestsKept
  BY <1>2 DEF ThreadInv, RequestsKept
<1>. QED
  BY <1>1, <1>5, <1>6, <1>7, <1>8, <1>9, InitLines DEF IInv

LEMMA NextKeeps == IInv /\ [Next]_vars => IInv'
<1> SUFFICES ASSUME IInv, [Next]_vars PROVE IInv'
  OBVIOUS
<1>1. /\ TypeOK /\ MadeInv /\ PlaceInv /\ OrderInv /\ PairsInv /\ CauseInv /\ ThreadInv
      /\ RequestsKept /\ LineInv /\ LinkInv
  BY DEF IInv
<1>2. TypeOK'
  BY <1>1, TypesKept
<1>3. MadeInv' /\ PlaceInv' /\ OrderInv' /\ PairsInv' /\ (Interjected => Interjected')
  BY <1>1, CallsKept
<1>4. CauseInv'
  BY <1>1, <1>3, CauseKept
<1>5. ThreadInv' /\ RequestsKept'
  BY <1>1, <1>2, RequestsStay
<1>6. LineInv' /\ LinkInv'
  BY <1>1, LinesStay
<1>. QED
  BY <1>2, <1>3, <1>4, <1>5, <1>6 DEF IInv

\* The invariant above holds in every state of every behaviour.
THEOREM InductiveInvariant == Spec => []IInv
<1>1. Init => IInv
  BY InitIInv
<1>2. IInv /\ [Next]_vars => IInv'
  BY NextKeeps
<1>. QED
  BY <1>1, <1>2, PTL DEF Spec

\* Every queue keeps to its capacity and holds only messages of its kind, and a request
\* that was registered unheard is registered.
THEOREM TypeCorrect == Spec => []TypeOK
<1>1. IInv => TypeOK
  BY DEF IInv
<1>. QED
  BY <1>1, InductiveInvariant, PTL

\* What the agent was told, read and not read yet, holds at most one answer to a call,
\* a result or a denial, and only after the call: for any number of calls and any
\* capacity of the queues.
THEOREM ToldWhatWasAsked == Spec => []ResultsMatchCalls
<1>1. ASSUME IInv PROVE ResultsMatchCalls
  <2> DEFINE last == IF loop # Idle /\ loop[1] = "tell" THEN <<loop[2]>> ELSE <<>>
             told == conv \o mail \o last
  <2>1. /\ conv \in Seq(Entry) /\ mail \in Seq(ToAgent) /\ LoopTypes /\ calls \in Nat
        /\ MadeInv /\ PlaceInv /\ OrderInv
    BY <1>1, TypeParts, AgentLoopAssumption DEF IInv, AgentTypes
  <2>2. /\ last \in Seq(ToAgent) /\ Len(last) \in {0, 1}
        /\ Len(last) = 1 => \E msg \in ToAgent : last[1] = msg /\ loop = Tell(msg)
    <3>1. CASE loop = Idle
      BY <3>1
    <3>2. ASSUME NEW msg \in ToAgent, loop = Tell(msg), loop[1] = "tell", loop[2] = msg
          PROVE  last = <<msg>>
      BY <3>2, Distinct
    <3>3. ASSUME NEW msg \in FromServer, loop = Show(msg), loop[1] = "show"
          PROVE  last = <<>>
      BY <3>3
    <3>4. <<>> \in Seq(ToAgent) /\ Len(<<>>) = 0
      OBVIOUS
    <3>5. ASSUME NEW msg \in ToAgent PROVE <<msg>> \in Seq(ToAgent) /\ Len(<<msg>>) = 1
      OBVIOUS
    <3>6. CASE \E msg \in ToAgent : loop = Tell(msg) /\ loop[1] = "tell" /\ loop[2] = msg
      <4>1. PICK msg \in ToAgent : loop = Tell(msg) /\ loop[1] = "tell" /\ loop[2] = msg
        BY <3>6
      <4>2. last = <<msg>> /\ <<msg>>[1] = msg
        BY <3>2, <4>1
      <4> HIDE DEF last
      <4>. QED
        BY <3>5, <4>1, <4>2
    <3>7. CASE \E msg \in FromServer : loop = Show(msg) /\ loop[1] = "show" /\ loop[2] = msg
      <4>1. last = <<>>
        BY <3>3, <3>7
      <4> HIDE DEF last
      <4>. QED
        BY <3>4, <4>1
    <3>8. CASE last = <<>>
      <4> HIDE DEF last
      <4>. QED
        BY <3>4, <3>8
    <3>. QED
      BY <2>1, <3>1, <3>6, <3>7, <3>8, LoopIs
  <2>3. PICK n \in Nat, k \in Nat, l \in {0, 1} : n = Len(conv) /\ k = Len(mail) /\ l = Len(last)
    BY <2>1, <2>2
  <2> HIDE DEF last
  <2>4. /\ DOMAIN conv = 1..n /\ DOMAIN mail = 1..k /\ DOMAIN told = 1..(n + k + l)
        /\ \A i \in DOMAIN told :
             \/ i \in DOMAIN conv /\ told[i] = conv[i]
             \/ i - n \in DOMAIN mail /\ told[i] = mail[i - n] /\ i > n
             \/ i = n + k + 1 /\ told[i] = last[1] /\ l = 1
    <3>1. ToAgent \subseteq Entry
      BY DEF Entry
    <3>2. mail \in Seq(Entry) /\ last \in Seq(Entry)
      BY <2>1, <2>2, <3>1
    <3>3. PICK qm \in Seq(Entry) : qm = conv \o mail
      BY <2>1, <3>2, ConcatIs
    <3>4. /\ Len(qm) = n + k /\ DOMAIN qm = 1..(n + k)
          /\ \A i \in DOMAIN qm : \/ i \in DOMAIN conv /\ qm[i] = conv[i]
                                  \/ i - n \in DOMAIN mail /\ qm[i] = mail[i - n] /\ i > n
      BY <2>1, <2>3, <3>2, <3>3, ConcatIs
    <3>5. /\ told = qm \o last /\ DOMAIN told = 1..(n + k + l)
          /\ \A i \in DOMAIN told :
               \/ i \in DOMAIN qm /\ told[i] = qm[i]
               \/ i - (n + k) \in DOMAIN last /\ told[i] = last[i - (n + k)] /\ i > n + k
      BY <2>3, <3>2, <3>3, <3>4, ConcatIs
    <3>6. DOMAIN last = 1..l
      BY <2>3, <3>2
    <3>7. ASSUME NEW i \in DOMAIN told, i - (n + k) \in DOMAIN last, told[i] = last[i - (n + k)]
          PROVE  i = n + k + 1 /\ told[i] = last[1] /\ l = 1
      <4>1. i - (n + k) = 1 /\ l = 1 /\ i \in Nat
        BY <2>3, <3>5, <3>6, <3>7
      <4>. QED
        BY <3>7, <4>1
    <3>8. DOMAIN conv = 1..n /\ DOMAIN mail = 1..k
      BY <2>1, <2>3
    <3> HIDE DEF told
    <3>. QED
      BY <3>4, <3>5, <3>7, <3>8
  <2> HIDE DEF told
  <2>5. ASSUME NEW c \in CallIds, NEW i \in DOMAIN told, told[i] \in Answers(c)
        PROVE  \/ i \in DOMAIN conv /\ conv[i] \in Answers(c)
               \/ i > n /\ i - n \in DOMAIN mail /\ mail[i - n] \in Answers(c)
               \/ i = n + k + 1 /\ Hands(c)
    BY <2>2, <2>3, <2>4, <2>5 DEF Hands
  <2>6. ASSUME NEW i \in DOMAIN told, told[i][1] \in {"result", "denied"}
        PROVE  \E c \in CallIds : told[i] \in Answers(c)
    <3>1. told[i] \in Entry
      BY <2>1, <2>2, <2>3, <2>4 DEF Entry
    <3>. QED
      BY <2>6, <3>1 DEF Entry, ToAgent, User, Answers, Result, Denied, Said, Uses
  <2>7. ASSUME NEW c \in CallIds, NEW i \in DOMAIN told, NEW j \in DOMAIN told,
               told[i] \in Answers(c), told[j] \in Answers(c)
        PROVE  i = j
    <3>1. Placed(c)
      BY <2>1 DEF PlaceInv
    <3>2. i \in Nat /\ j \in Nat
      BY <2>4
    <3>. QED
      BY <2>5, <2>7, <3>1, <3>2 DEF Placed, OnceAnswer, HasAnswer, Hands
  <2>8. ASSUME NEW c \in CallIds, NEW i \in DOMAIN told, told[i] \in Answers(c)
        PROVE  \E m \in DOMAIN conv : m < i /\ conv[m] = Uses(c)
    <3>1. CASE i \in DOMAIN conv /\ conv[i] \in Answers(c)
      BY <2>1, <3>1 DEF OrderInv
    <3>2. CASE i > n /\ (HasAnswer(mail, c) \/ Hands(c))
      <4>1. Has(conv, Uses(c))
        BY <2>1, <3>2 DEF PlaceInv, Placed, MadeInv
      <4>2. PICK m \in DOMAIN conv : conv[m] = Uses(c)
        BY <4>1 DEF Has
      <4>3. m < i
        BY <2>4, <3>2, <4>2
      <4>. QED
        BY <4>2, <4>3
    <3>. QED
      BY <2>3, <2>5, <2>8, <3>1, <3>2 DEF HasAnswer
  <2>9. ASSUME NEW i \in DOMAIN told, told[i][1] \in {"result", "denied"}
        PROVE  /\ \A j \in DOMAIN told :
                    told[j][1] \in {"result", "denied"} /\ told[i][2] = told[j][2] => i = j
               /\ \E m \in Entries(conv, "uses") : m < i /\ conv[m][2] = told[i][2]
    <3>1. PICK c \in CallIds : told[i] \in Answers(c)
      BY <2>6, <2>9
    <3>2. \A d, a : a \in Answers(d) => a[2] = d
      BY DEF Answers, Result, Denied
    <3>3. ASSUME NEW j \in DOMAIN told, told[j][1] \in {"result", "denied"}, told[i][2] = told[j][2]
          PROVE  i = j
      <4>1. PICK d \in CallIds : told[j] \in Answers(d)
        BY <2>6, <3>3
      <4>2. c = d
        BY <3>1, <3>2, <3>3, <4>1
      <4>. QED
        BY <2>7, <3>1, <4>1, <4>2
    <3>4. PICK m \in DOMAIN conv : m < i /\ conv[m] = Uses(c)
      BY <2>8, <3>1
    <3>5. m \in Entries(conv, "uses") /\ conv[m][2] = told[i][2]
      BY <3>1, <3>2, <3>4 DEF Entries, Uses
    <3>. QED
      BY <3>3, <3>4, <3>5
  <2>10. told = conv \o mail \o Hand
    BY DEF told, last, Hand
  <2>11. Entries(told, "result") \cup Entries(told, "denied")
           = {i \in DOMAIN told : told[i][1] \in {"result", "denied"}}
    BY DEF Entries
  <2>12. \A i \in DOMAIN told : told[i][1] \in {"result", "denied"} =>
           /\ \A j \in DOMAIN told :
                told[j][1] \in {"result", "denied"} /\ told[i][2] = told[j][2] => i = j
           /\ \E m \in Entries(conv, "uses") : m < i /\ conv[m][2] = told[i][2]
    BY <2>9
  <2>. QED
    BY <2>10, <2>11, <2>12 DEF ResultsMatchCalls
<1>. QED
  BY <1>1, InductiveInvariant, PTL

\* An agent is dropped, or about to be, only if the service failed by itself, a line came
\* between a call and its answer, or a tool has returned anything to it.
THEOREM AgentsDropForCause == Spec => []DropsHaveCause
<1>1. ASSUME IInv PROVE DropsHaveCause
  <2>1. out \in Seq(ToSupervisor)
    BY <1>1, TypeParts DEF IInv, AgentTypes
  <2>2. Contains(out, Failure) => Has(out, Failure)
    BY <2>1 DEF Contains, Has
  <2>. QED
    BY <1>1, <2>2 DEF IInv, CauseInv, DropsHaveCause
<1>. QED
  BY <1>1, InductiveInvariant, PTL

\* A request for approval that a frontend heard is on its way to the prompt or at it, as
\* long as there is a prompt.
THEOREM RequestsReachPrompt == Spec => []RequestsKept
<1>1. IInv => RequestsKept
  BY DEF IInv
<1>. QED
  BY <1>1, InductiveInvariant, PTL

\* Every line that was typed is in one place, in the order of typing: read by the agent,
\* in its channel, at the loop, in the event channel, in the socket or in the command
\* line, or it was refused; and only a command line that has gone takes lines with it,
\* the newest ones.
THEOREM LinesArriveInOrder == Spec => []LinesKept
<1>1. IInv => LinesKept
  BY DEF IInv, LineInv
<1>. QED
  BY <1>1, InductiveInvariant, PTL

=============================================================================
