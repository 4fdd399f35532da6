------------------------------ MODULE AgentLoop ------------------------------
(***************************************************************************)
(* The agent process (agent/pince_agent/agent.py) after its handshake: one *)
(* loop that reads a message of the supervisor, appends it to the           *)
(* conversation, runs a turn of the language model, and reads no further    *)
(* message until the turn is over.                                          *)
(*                                                                         *)
(* A message to the supervisor is in the pipe at once; the loop goes on when *)
(* the pipe has drained (StreamWriter.drain), and meanwhile does nothing.   *)
(* The model (the Anthropic service) is external.  It may fail at any       *)
(* point, and it rejects a conversation in which a tool use is not followed *)
(* at once by its answer, or in which the content of an answer is an object *)
(* (it takes a string or a list of blocks there).                           *)
(***************************************************************************)
EXTENDS Naturals, Sequences

CONSTANTS MaxCalls,   \* bound: tool calls the model makes
          MaxChunks,  \* bound: pieces of text the model streams
          OutCap      \* messages in the pipe that keep the loop waiting

ASSUME AgentLoopAssumption ==
  /\ MaxCalls \in Nat
  /\ MaxChunks \in Nat
  /\ OutCap \in Nat \ {0}

VARIABLES
  conv,    \* the conversation
  turn,    \* idle, silent (a turn that has no text yet) or talking
  mail,    \* messages on the way to the agent
  out,     \* messages on the way to the supervisor
  calls,   \* tool calls made so far; the last one is the last request id
  chunks,  \* pieces of text streamed so far
  outage   \* history: the service failed a request it could have accepted

agentVars == <<conv, turn, mail, out, calls, chunks, outage>>

User(m) == <<"user", m>>      \* a user_message, and its entry
Result(c) == <<"result", c>>  \* a tool_result, and its entry: the content is the JSON
                              \* value the supervisor sent, which is an object
Denied(c) == <<"denied", c>>  \* a tool_denied, and its entry: the content is a string
Answers(c) == {Result(c), Denied(c)}
Said == <<"said">>            \* an assistant entry of text only
Uses(c) == <<"uses", c>>      \* an assistant entry that asks for call c
Chunk == <<"chunk">>
Done == <<"done">>
Failure == <<"failure">>
ToolCall(c) == <<"call", c>>

CallIds == 1..MaxCalls
ToSupervisor == {Chunk, Done, Failure} \cup {ToolCall(c) : c \in CallIds}

AgentTypeOK(Text) ==
  LET ToAgent == {User(m) : m \in Text} \cup UNION {Answers(c) : c \in CallIds}
  IN /\ conv \in Seq(ToAgent \cup {Said} \cup {Uses(c) : c \in CallIds})
     /\ turn \in {"idle", "silent", "talking"}
     /\ mail \in Seq(ToAgent)
     /\ out \in Seq(ToSupervisor) /\ Len(out) <= OutCap
     /\ calls \in 0..MaxCalls
     /\ chunks \in 0..MaxChunks
     /\ outage \in BOOLEAN

AgentInit(waiting) ==
  /\ conv = <<>>
  /\ turn = "idle"
  /\ mail = waiting
  /\ out = <<>>
  /\ calls = 0
  /\ chunks = 0
  /\ outage = FALSE

-----------------------------------------------------------------------------
\* What the service accepts: every use of a tool is answered by the next entry,
\* every answer follows its use, and the content of none is an object.
Acceptable(cv) ==
  \A c \in CallIds, i \in 1..Len(cv) :
    /\ cv[i] = Uses(c) => i < Len(cv) /\ cv[i + 1] \in Answers(c)
    /\ cv[i] \in Answers(c) => i > 1 /\ cv[i - 1] = Uses(c)
    /\ cv[i] # Result(c)

Drained == Len(out) < OutCap

\* user_message, tool_result or tool_denied: append it and start a turn.
ReadMessage ==
  /\ turn = "idle" /\ Drained
  /\ mail # <<>>
  /\ conv' = Append(conv, Head(mail))
  /\ mail' = Tail(mail)
  /\ turn' = "silent"
  /\ UNCHANGED <<out, calls, chunks, outage>>

Streaming == turn # "idle" /\ Drained

StreamText ==
  /\ Streaming /\ Acceptable(conv)
  /\ chunks < MaxChunks
  /\ chunks' = chunks + 1
  /\ turn' = "talking"
  /\ out' = Append(out, Chunk)
  /\ UNCHANGED <<conv, mail, calls, outage>>

\* Mutant: the text streamed before a failure is dropped from an entry, and the
\* entry with it, also when a tool is used.
UseToolForgets ==
  /\ Streaming /\ Acceptable(conv)
  /\ calls < MaxCalls
  /\ calls' = calls + 1
  /\ conv' = conv
  /\ turn' = "idle"
  /\ out' = Append(out, ToolCall(calls + 1))
  /\ UNCHANGED <<mail, chunks, outage>>

\* The answer ends with a tool use; of several, only the last is kept.
UseTool ==
  /\ Streaming /\ Acceptable(conv)
  /\ calls < MaxCalls
  /\ calls' = calls + 1
  /\ conv' = Append(conv, Uses(calls + 1))
  /\ turn' = "idle"
  /\ out' = Append(out, ToolCall(calls + 1))
  /\ UNCHANGED <<mail, chunks, outage>>

\* The answer ends without a tool use; an empty one leaves no entry.
EndTurn ==
  /\ Streaming /\ Acceptable(conv)
  /\ conv' = IF turn = "talking" THEN Append(conv, Said) ELSE conv
  /\ turn' = "idle"
  /\ out' = Append(out, Done)
  /\ UNCHANGED <<mail, calls, chunks, outage>>

\* APIError: nothing is appended, and the loop goes on.  The service gives one for
\* every request with a conversation that it does not accept.
ModelFails ==
  /\ Streaming
  /\ outage' = (outage \/ Acceptable(conv))
  /\ turn' = "idle"
  /\ out' = Append(out, Failure)
  /\ UNCHANGED <<conv, mail, calls, chunks>>

AgentStep ==
  \/ ReadMessage \/ StreamText \/ UseTool \/ EndTurn \/ ModelFails

\* The service ends every answer: by a tool use, by its end or by an error.
AnswerEnds == UseTool \/ EndTurn \/ ModelFails
=============================================================================
