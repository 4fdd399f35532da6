------------------------------ MODULE McpClient ------------------------------
(***************************************************************************)
(* The JSON-RPC client of a tool server                                    *)
(* (crates/tool-registry/src/mcp/client.rs) and its two owners: the loader, *)
(* which shares it between tool handlers that call it concurrently, and    *)
(* the memory backend (memory/qmd.rs, memory/manager.rs), which holds a    *)
(* mutex for the whole of a call and takes the client away on stop.        *)
(*                                                                         *)
(* A call takes an id, enters the pending map, writes its request and      *)
(* waits; a reader task hands each line that has a number for an id to the *)
(* call that waits with this id.  It takes such a line for a response, also *)
(* when it is a request of the server's own (a ping, say), which JSON-RPC  *)
(* allows and which the server numbers as it likes: JsonRpcResponse needs  *)
(* neither a result nor an error.  When the server closes its output, or a *)
(* line cannot be read, the reader ends; the map is left as it is.         *)
(***************************************************************************)
EXTENDS Naturals, Sequences

CONSTANTS Call,      \* calls, Hello and Listing among them
          Hello,     \* the initialize call of McpClient::spawn
          Listing,   \* the tools/list call of load_mcp_server
          Nobody,    \* no call
          OwnIds,    \* ids the server gives to requests of its own
          MaxLines   \* bound: lines the server writes

ASSUME McpAssumption ==
  /\ Hello \in Call /\ Listing \in Call /\ Hello # Listing
  /\ Nobody \notin Call
  /\ OwnIds \subseteq Nat
  /\ MaxLines \in Nat

VARIABLES
  guarded,   \* the client belongs to the memory backend
  client,    \* hello, listing, up, failed or gone
  stopping,  \* MemoryManager::stop was called
  lock,      \* the call that holds the backend's mutex, or Nobody
  nextId,    \* the counter
  id,        \* the id of a call, 0 before it has one
  pc,        \* where a call is
  pending,   \* the pending map: which call waits for an id
  got,       \* the line handed to a call as its response
  requests,  \* requests the server can answer: <<id, call>>
  answered,  \* history: calls the server answered
  asked,     \* history: ids of requests the server made itself
  output,    \* lines in the server's output pipe
  lines,     \* lines the server wrote so far
  server,    \* up or gone
  reader     \* the reader task: running or ended

callVars == <<nextId, id, pc, pending, lock>>
ownerVars == <<guarded, client, stopping>>
serverVars == <<requests, answered, asked, lines, server>>
vars == <<ownerVars, callVars, got, serverVars, output, reader>>

None == <<>>
Noise == <<"noise">>   \* a notification, an empty line or a line that is no JSON
Garbled == <<"garbled">>   \* a line that is not UTF-8, an error of read_line
Reply == {"ok", "error"} \X Call
Null == <<"null">>   \* what a request of the server's own says as a response
Line == (Nat \X (Reply \cup {Null})) \cup {Noise, Garbled}
Over == {"ok", "null", "error", "failed"}

TypeOK ==
  /\ guarded \in BOOLEAN
  /\ client \in {"hello", "listing", "up", "failed", "gone"}
  /\ stopping \in BOOLEAN
  /\ lock \in Call \cup {Nobody}
  /\ nextId \in Nat
  /\ id \in [Call -> Nat]
  /\ pc \in [Call -> {"new", "numbered", "registered", "waiting"} \cup Over]
  /\ DOMAIN pending \subseteq Nat
  /\ \A n \in DOMAIN pending : pending[n] \in Call
  /\ got \in [Call -> Reply \cup {Null, None}]
  /\ requests \subseteq (Nat \X Call)
  /\ answered \subseteq Call
  /\ asked \subseteq OwnIds
  /\ output \in Seq(Line)
  /\ lines \in 0..MaxLines
  /\ server \in {"up", "gone"}
  /\ reader \in {"running", "ended"}

Init ==
  /\ guarded \in BOOLEAN
  /\ client = "hello"
  /\ stopping = FALSE
  /\ lock = Nobody
  /\ nextId = 1
  /\ id = [c \in Call |-> 0]
  /\ pc = [c \in Call |-> "new"]
  /\ pending = <<>>
  /\ got = [c \in Call |-> None]
  /\ requests = {}
  /\ answered = {}
  /\ asked = {}
  /\ output = <<>>
  /\ lines = 0
  /\ server = "up"
  /\ reader = "running"

-----------------------------------------------------------------------------
(* A call *)

\* initialize is the first call; the loader lists the tools before it registers
\* handlers, which the memory backend does not.
Allowed(c) ==
  \/ client = "hello" /\ c = Hello
  \/ client = "listing" /\ c = Listing
  \/ client = "up" /\ c \notin {Hello, Listing}

Serialised(c) == guarded /\ c \notin {Hello, Listing}

\* Mutant: the next id is the size of the pending map.
TakeIdFromMap(c) ==
  /\ pc[c] = "new"
  /\ Allowed(c)
  /\ Serialised(c) => lock = Nobody
  /\ lock' = IF Serialised(c) THEN c ELSE lock
  /\ LET n == CHOOSE k \in 1..(nextId + 1) :
                k \notin DOMAIN pending /\ \A m \in 1..(k - 1) : m \in DOMAIN pending
     IN id' = [id EXCEPT ![c] = n]
  /\ pc' = [pc EXCEPT ![c] = "numbered"]
  /\ UNCHANGED <<ownerVars, nextId, pending, got, serverVars, output, reader>>

TakeId(c) ==
  /\ pc[c] = "new"
  /\ Allowed(c)
  /\ Serialised(c) => lock = Nobody
  /\ lock' = IF Serialised(c) THEN c ELSE lock
  /\ id' = [id EXCEPT ![c] = nextId]
  /\ nextId' = nextId + 1
  /\ pc' = [pc EXCEPT ![c] = "numbered"]
  /\ UNCHANGED <<ownerVars, pending, got, serverVars, output, reader>>

\* A handler still holds the backend after stop: there is no client any more.
NotRunning(c) ==
  /\ pc[c] = "new"
  /\ c \notin {Hello, Listing}
  /\ client = "gone"
  /\ lock = Nobody
  /\ pc' = [pc EXCEPT ![c] = "failed"]
  /\ UNCHANGED <<ownerVars, nextId, id, pending, lock, got, serverVars, output, reader>>

Register(c) ==
  /\ pc[c] = "numbered"
  /\ pending' = [n \in DOMAIN pending \cup {id[c]} |-> IF n = id[c] THEN c ELSE pending[n]]
  /\ pc' = [pc EXCEPT ![c] = "registered"]
  /\ UNCHANGED <<ownerVars, nextId, id, lock, got, serverVars, output, reader>>

Unlocked(c) == IF lock = c THEN Nobody ELSE lock

\* What the end of a call may mean to the owner of the client: a handshake or a
\* listing that fails drops it.  After the handshake, whose response is not looked
\* at, the initialized notification has to be written too; a listing needs a list
\* of tools in its response, which null is not.
ClientAfter(c, outcome) ==
  CASE c \notin {Hello, Listing} -> {client}
    [] c = Hello -> IF outcome \in {"ok", "null"} /\ server = "up"
                    THEN IF guarded THEN {"up"} ELSE {"listing"}
                    ELSE {"failed"}
    [] c = Listing -> IF outcome = "ok" THEN {"up", "failed"} ELSE {"failed"}

Ends(c, outcome) ==
  /\ pc' = [pc EXCEPT ![c] = outcome]
  /\ lock' = Unlocked(c)
  /\ client' \in ClientAfter(c, outcome)
  /\ UNCHANGED <<guarded, stopping>>

\* The request goes out; a server that is gone makes the write fail, and the call
\* with it, its entry in the map left behind.
SendRaw(c) ==
  /\ pc[c] = "registered"
  /\ \/ /\ server = "up"
        /\ requests' = requests \cup {<<id[c], c>>}
        /\ pc' = [pc EXCEPT ![c] = "waiting"]
        /\ UNCHANGED <<lock, ownerVars>>
     \/ /\ server = "gone"
        /\ Ends(c, "failed")
        /\ UNCHANGED requests
  /\ UNCHANGED <<nextId, id, pending, got, answered, asked, lines, server, output, reader>>

\* The waiting call has its response.
Return(c) ==
  /\ pc[c] = "waiting"
  /\ got[c] # None
  /\ Ends(c, got[c][1])
  /\ UNCHANGED <<nextId, id, pending, got, serverVars, output, reader>>

-----------------------------------------------------------------------------
(* The reader task *)

\* Mutant: a line that is no response ends the loop.
DispatchStopsAtNoise ==
  /\ reader = "running"
  /\ output # <<>> /\ Head(output) # Garbled
  /\ output' = Tail(output)
  /\ IF Head(output) = Noise
     THEN reader' = "ended" /\ UNCHANGED <<pending, got>>
     ELSE LET n == Head(output)[1] IN
          /\ IF n \in DOMAIN pending
             THEN /\ got' = [got EXCEPT ![pending[n]] = Head(output)[2]]
                  /\ pending' = [m \in DOMAIN pending \ {n} |-> pending[m]]
             ELSE UNCHANGED <<got, pending>>
          /\ UNCHANGED reader
  /\ UNCHANGED <<ownerVars, nextId, id, pc, lock, serverVars>>

\* Mutant: the entry is looked up and left in the map.
DispatchKeepsEntry ==
  /\ reader = "running"
  /\ output # <<>> /\ Head(output) # Garbled
  /\ output' = Tail(output)
  /\ IF Head(output) # Noise /\ Head(output)[1] \in DOMAIN pending
     THEN got' = [got EXCEPT ![pending[Head(output)[1]]] = Head(output)[2]]
     ELSE UNCHANGED got
  /\ UNCHANGED <<ownerVars, callVars, serverVars, reader>>

\* A line: what has an id goes to the call that waits with it, if there is one.
Dispatch ==
  /\ reader = "running"
  /\ output # <<>> /\ Head(output) # Garbled
  /\ output' = Tail(output)
  /\ IF Head(output) # Noise /\ Head(output)[1] \in DOMAIN pending
     THEN LET n == Head(output)[1] IN
          /\ got' = [got EXCEPT ![pending[n]] = Head(output)[2]]
          /\ pending' = [m \in DOMAIN pending \ {n} |-> pending[m]]
     ELSE UNCHANGED <<got, pending>>
  /\ UNCHANGED <<ownerVars, nextId, id, pc, lock, serverVars, reader>>

\* The server closed its output, or wrote what is no line of text.
ReaderEnds ==
  /\ reader = "running"
  /\ \/ server = "gone" /\ output = <<>>
     \/ output # <<>> /\ Head(output) = Garbled
  /\ reader' = "ended"
  /\ UNCHANGED <<ownerVars, callVars, got, serverVars, output>>

-----------------------------------------------------------------------------
(* The memory manager *)

\* stop gives the shared handle up; handlers may still hold theirs.
Stop ==
  /\ guarded
  /\ client = "up"
  /\ ~stopping
  /\ stopping' = TRUE
  /\ UNCHANGED <<guarded, client, callVars, got, serverVars, output, reader>>

\* It takes the client away once no call holds the mutex.
DropClient ==
  /\ stopping
  /\ client = "up"
  /\ lock = Nobody
  /\ client' = "gone"
  /\ UNCHANGED <<guarded, stopping, callVars, got, serverVars, output, reader>>

-----------------------------------------------------------------------------
(* The server process, outside the repository: it answers the requests it has   *)
(* read with their ids, in any order, perhaps repeatedly, makes requests of its   *)
(* own, writes other lines, and may exit at any time.                             *)

ServerAnswers ==
  /\ server = "up"
  /\ lines < MaxLines
  /\ \E q \in requests, outcome \in {"ok", "error"} :
       /\ output' = Append(output, <<q[1], <<outcome, q[2]>>>>)
       /\ answered' = answered \cup {q[2]}
  /\ lines' = lines + 1
  /\ UNCHANGED <<ownerVars, callVars, got, requests, asked, server, reader>>

\* A request of the server's own, under an id it has not used yet.
ServerAsks ==
  /\ server = "up"
  /\ lines < MaxLines
  /\ \E n \in OwnIds \ asked :
       /\ output' = Append(output, <<n, Null>>)
       /\ asked' = asked \cup {n}
  /\ lines' = lines + 1
  /\ UNCHANGED <<ownerVars, callVars, got, requests, answered, server, reader>>

ServerNotifies ==
  /\ server = "up"
  /\ lines < MaxLines
  /\ \E line \in {Noise, Garbled} : output' = Append(output, line)
  /\ lines' = lines + 1
  /\ UNCHANGED <<ownerVars, callVars, got, requests, answered, asked, server, reader>>

ServerExits ==
  /\ server = "up"
  /\ server' = "gone"
  /\ UNCHANGED <<ownerVars, callVars, got, requests, answered, asked, lines, output, reader>>

-----------------------------------------------------------------------------

CallStep(c) == Register(c) \/ SendRaw(c) \/ Return(c)
ReaderStep == Dispatch \/ ReaderEnds

Next ==
  \/ \E c \in Call : TakeId(c) \/ NotRunning(c) \/ CallStep(c)
  \/ ReaderStep
  \/ Stop \/ DropClient
  \/ ServerAnswers \/ ServerAsks \/ ServerNotifies \/ ServerExits

Spec == Init /\ [][Next]_vars

\* The client's own tasks are polled, and stop, which waits in the mutex's queue,
\* gets its turn between calls.  Nothing is assumed of the server.
FairSpec ==
  /\ Spec
  /\ \A c \in Call : WF_vars(CallStep(c))
  /\ WF_vars(ReaderStep)
  /\ SF_vars(DropClient)

-----------------------------------------------------------------------------
(* Properties *)

\* Whatever the order of requests and responses, what a call is handed is the
\* response to its own request (client.rs:51 "dispatch them to the matching oneshot
\* channel"), never that to another; and the one thing it may be handed in its place
\* is a request of the server's own that has the call's id (client.rs:70), of which
\* the call makes a null result.
OwnResponse ==
  \A c \in Call :
     got[c] # None =>
       \/ got[c] \in Reply /\ got[c][2] = c
       \/ got[c] = Null /\ id[c] \in asked

\* The map holds exactly the calls the reader still has to find: those between
\* their registration and their response, and, for ever, those whose request could
\* not be written.
PendingExact ==
  /\ \A c \in Call :
       pc[c] \in {"registered", "waiting"} /\ got[c] = None
         => id[c] \in DOMAIN pending /\ pending[id[c]] = c
  /\ \A n \in DOMAIN pending :
       LET c == pending[n] IN
       /\ id[c] = n
       /\ got[c] = None
       /\ pc[c] \in {"registered", "waiting", "failed"}

\* The reader gave up at a garbled line: what comes after it is never read.
Deaf == reader = "ended" /\ output # <<>> /\ Head(output) = Garbled

\* A call whose request was answered returns, whatever else the server writes
\* before or after and even if it exits next; but nothing is handed to a call any
\* more once a line could not be read (client.rs:85).
AnsweredReturn ==
  \A c \in Call :
     (c \in answered) ~> (pc[c] \in Over \/ (Deaf /\ got[c] = None))

\* stop comes to an end unless the call that holds the mutex is never handed a
\* response; such a call never returns either (client.rs:61, qmd.rs:77).
StopEnds ==
  stopping ~>
    \/ client = "gone"
    \/ [](lock # Nobody /\ got[lock] = None /\ (lock \notin answered \/ Deaf))
=============================================================================
