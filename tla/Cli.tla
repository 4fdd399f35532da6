--------------------------------- MODULE Cli ---------------------------------
(***************************************************************************)
(* The command line frontend (crates/cli/src/main.rs) and the frontend side *)
(* of the handshake (crates/protocol/src/frontend.rs).                      *)
(*                                                                         *)
(* Three parties share the process: the main loop, which writes what the    *)
(* user typed to the supervisor; a task that prints what the supervisor     *)
(* sends and hands approval requests on; and a thread that owns the         *)
(* standard input, both for lines and for the prompts of those requests.    *)
(* The iterator over lines holds the lock of stdin for the thread's life,    *)
(* and the read of a prompt takes that lock again: no step leaves a prompt. *)
(***************************************************************************)
EXTENDS Naturals, Sequences

CONSTANTS MaxTyped,   \* bound: lines the user types
          InputCap,   \* lines the channel to the main loop holds (16)
          LinkCap     \* messages the socket to the supervisor holds

ASSUME CliAssumption ==
  /\ MaxTyped \in Nat
  /\ InputCap \in Nat \ {0}
  /\ LinkCap \in Nat \ {0}

VARIABLES
  main,     \* start, handshake, chat or exited
  thread,   \* off, loop, reading, prompting or ended
  locked,   \* the lock of stdin is held, by the iterator over lines
  prompt,   \* the request the thread prompts for
  typed,    \* history: the lines typed so far
  input,    \* the channel from the thread to the main loop
  asks,     \* the channel of approval requests (unbounded)
  screen,   \* messages on the way from the supervisor
  link,     \* messages on the way to the supervisor
  stopped   \* the user has stopped the terminal: printing blocks

cliVars == <<main, thread, locked, prompt, typed, input, asks, screen, link, stopped>>

Say(m) == <<"say", m>>
Agents == <<"agents">>
Quit == <<"quit">>
NoPrompt == <<>>
Auth == <<"auth">>
Granted == <<"granted">>
Ask(c) == <<"ask", c>>
IsAsk(msg) == msg[1] = "ask"

Lines == 1..MaxTyped
Typed == {Say(m) : m \in Lines} \cup {Agents, Quit}
ToServer == {Auth, Agents} \cup {Say(m) : m \in Lines}

Over == main = "exited"

CliTypeOK(FromServer) ==
  /\ main \in {"start", "handshake", "chat", "exited"}
  /\ thread \in {"off", "loop", "reading", "prompting", "ended"}
  /\ locked \in BOOLEAN
  /\ prompt \in FromServer \cup {NoPrompt}
  /\ typed \in Seq(Typed) /\ Len(typed) <= MaxTyped
  /\ input \in Seq(Typed) /\ Len(input) <= InputCap
  /\ asks \in Seq(FromServer)
  /\ screen \in Seq(FromServer)
  /\ link \in Seq(ToServer) /\ Len(link) <= LinkCap
  /\ stopped \in BOOLEAN

CliInit ==
  /\ main = "start"
  /\ thread = "off"
  /\ locked = FALSE
  /\ prompt = NoPrompt
  /\ typed = <<>>
  /\ input = <<>>
  /\ asks = <<>>
  /\ screen = <<>>
  /\ link = <<>>
  /\ stopped = FALSE

-----------------------------------------------------------------------------
(* The main task *)

\* Connect and send Auth as the first message.
Connect ==
  /\ main = "start"
  /\ main' = "handshake"
  /\ link' = <<Auth>>
  /\ UNCHANGED <<thread, locked, prompt, typed, input, asks, screen, stopped>>

\* The process ends with all that it holds; what it wrote stays in the socket.
Exit ==
  /\ main' = "exited"
  /\ thread' = "off"
  /\ locked' = FALSE
  /\ prompt' = NoPrompt
  /\ input' = <<>>
  /\ asks' = <<>>
  /\ screen' = <<>>
  /\ stopped' = FALSE

\* The user interrupts the process.
Interrupt ==
  /\ main \in {"handshake", "chat"}
  /\ Exit
  /\ UNCHANGED <<typed, link>>

\* The first message has to be the result of Auth; then thread and printer start.
Handshake ==
  /\ main = "handshake"
  /\ screen # <<>>
  /\ \/ /\ Head(screen) = Granted
        /\ screen' = Tail(screen)
        /\ main' = "chat"
        /\ thread' = "loop"
        /\ locked' = TRUE
        /\ UNCHANGED <<prompt, input, asks, stopped>>
     \/ Head(screen) # Granted /\ Exit
  /\ UNCHANGED <<typed, link>>

\* A line goes to the supervisor once there is room for it.  (Empty lines and
\* commands that do not parse go nowhere.)
MainTakes ==
  /\ main = "chat"
  /\ input # <<>> /\ Head(input) # Quit
  /\ Len(link) < LinkCap
  /\ link' = Append(link, Head(input))
  /\ input' = Tail(input)
  /\ UNCHANGED <<main, thread, locked, prompt, typed, asks, screen, stopped>>

\* /quit ends the loop and with it the process.
MainQuits ==
  /\ main = "chat"
  /\ input # <<>> /\ Head(input) = Quit
  /\ Exit
  /\ UNCHANGED <<typed, link>>

-----------------------------------------------------------------------------
(* The thread that owns the standard input *)

\* A waiting request is prompted for before the next line is read.
TakePrompt ==
  /\ main = "chat" /\ thread = "loop"
  /\ asks # <<>>
  /\ prompt' = Head(asks)
  /\ asks' = Tail(asks)
  /\ thread' = "prompting"
  /\ UNCHANGED <<main, locked, typed, input, screen, link, stopped>>

AwaitLine ==
  /\ main = "chat" /\ thread = "loop"
  /\ asks = <<>>
  /\ thread' = "reading"
  /\ UNCHANGED <<main, locked, prompt, typed, input, asks, screen, link, stopped>>

\* The user types a line and the thread sends it on, when there is room for it.
\* Nothing follows /quit.
UserTypes ==
  /\ main = "chat" /\ thread = "reading"
  /\ Len(typed) < MaxTyped
  /\ \A i \in 1..Len(typed) : typed[i] # Quit
  /\ Len(input) < InputCap
  /\ \E l \in {Say(Len(typed) + 1), Agents, Quit} :
       /\ typed' = Append(typed, l)
       /\ input' = Append(input, l)
  /\ thread' = "loop"
  /\ UNCHANGED <<main, locked, prompt, asks, screen, link, stopped>>

\* End of input ends the thread and nothing else: run_chat keeps a sender of the
\* channel, so the main loop goes on waiting for lines.
EndOfInput ==
  /\ main = "chat" /\ thread = "reading"
  /\ thread' = "ended"
  /\ locked' = FALSE
  /\ UNCHANGED <<main, prompt, typed, input, asks, screen, link, stopped>>

-----------------------------------------------------------------------------
(* The task that prints *)

\* Mutant: a request is handed on only to a thread that is ready to take it.
PrintsRendezvous ==
  /\ main = "chat" /\ ~stopped
  /\ screen # <<>>
  /\ screen' = Tail(screen)
  /\ asks' = IF IsAsk(Head(screen)) /\ thread = "loop"
             THEN Append(asks, Head(screen)) ELSE asks
  /\ UNCHANGED <<main, thread, locked, prompt, typed, input, link, stopped>>

\* The receiver of requests lives as long as the thread.
Prints ==
  /\ main = "chat" /\ ~stopped
  /\ screen # <<>>
  /\ screen' = Tail(screen)
  /\ asks' = IF IsAsk(Head(screen)) /\ thread # "ended"
             THEN Append(asks, Head(screen)) ELSE asks
  /\ UNCHANGED <<main, thread, locked, prompt, typed, input, link, stopped>>

StopTerminal ==
  /\ main = "chat" /\ ~stopped
  /\ stopped' = TRUE
  /\ UNCHANGED <<main, thread, locked, prompt, typed, input, asks, screen, link>>

CliStep ==
  \/ Connect \/ Interrupt \/ Handshake \/ MainTakes \/ MainQuits \/ TakePrompt \/ AwaitLine \/ UserTypes
  \/ EndOfInput \/ Prints \/ StopTerminal
=============================================================================
