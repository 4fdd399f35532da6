------------------------------ MODULE McpProofs ------------------------------
(***************************************************************************)
(* Theorems about the client of a tool server: for any number of calls, in *)
(* any interleaving of callers, reader task and server, each call is       *)
(* handed its own response or a request of the server's own under its id,  *)
(* the pending map holds what the reader still has to find and nothing     *)
(* else, and stop never takes the client away from a call in progress.     *)
(***************************************************************************)
EXTENDS McpClient, TLAPS

USE DEF callVars, ownerVars, serverVars

-----------------------------------------------------------------------------
(* The inductive invariant *)

Active == {"numbered", "registered", "waiting"}

\* Ids are given out once: no two calls share one, and all are below the counter.
IdInv ==
  /\ \A c \in Call : id[c] < nextId
  /\ \A c, d \in Call : id[c] = id[d] /\ id[c] # 0 => c = d
  /\ \A c \in Call : pc[c] = "new" => id[c] = 0
  /\ \A c \in Call : pc[c] \in Active => id[c] # 0

\* What is with the server, or on the way back from it, carries the id of the
\* call it belongs to; a request of the server's own carries one of its ids.
MatchInv ==
  /\ \A q \in requests : q[1] = id[q[2]] /\ q[1] # 0
  /\ \A i \in DOMAIN output :
       output[i] \in Nat \X Reply => output[i][1] = id[output[i][2][2]] /\ output[i][1] # 0
  /\ \A i \in DOMAIN output : output[i] \in Nat \X {Null} => output[i][1] \in asked
  /\ \A c \in Call : pc[c] \in {"new", "numbered"} => got[c] = None

\* A call is in progress only under a client that allows it, and one of the memory
\* backend only while it holds the mutex.
MutexInv ==
  /\ stopping \/ client = "gone" => guarded
  /\ client = "gone" => lock = Nobody
  /\ \A c \in Call : pc[c] \in Active =>
       CASE c = Hello -> client = "hello"
         [] c = Listing -> client = "listing"
         [] OTHER -> guarded => lock = c

IInv == TypeOK /\ IdInv /\ MatchInv /\ MutexInv /\ OwnResponse /\ PendingExact

\* When stop has taken the client away, no call is in progress.
GoneIdle == client = "gone" => \A c \in Call : pc[c] \notin Active

-----------------------------------------------------------------------------
(* Lines, and the channels they travel on *)

\* A line with an id is a response or a request of the server's own; the other two
\* kinds have none.
LEMMA LineKinds ==
  /\ \A line \in Line : \/ line = Noise \/ line = Garbled
                        \/ line \in Nat \X Reply \/ line \in Nat \X {Null}
  /\ \A line \in {Noise, Garbled} : /\ line \in Line
                                     /\ line \notin Nat \X Reply /\ line \notin Nat \X {Null}
  /\ \A n \in Nat : /\ <<n, Null>> \in Line /\ <<n, Null>> \in Nat \X {Null}
                    /\ <<n, Null>> \notin Nat \X Reply
  /\ \A line \in Nat \X Reply : line \notin Nat \X {Null}
  /\ \A r \in Reply : r # None
  /\ Null # None /\ Null \notin Reply
<1>1. /\ \A r \in Reply : r # None /\ r[1] \in {"ok", "error"}
      /\ Null # None /\ Null[1] = "null"
  BY DEF Reply, None, Null
<1>2. Null \notin Reply
  BY <1>1
<1>3. \A line \in Line : \/ line = Noise \/ line = Garbled
                         \/ line \in Nat \X Reply \/ line \in Nat \X {Null}
  BY DEF Line
<1>4. /\ \A line \in {Noise, Garbled} : line \in Line
      /\ \A n \in Nat : <<n, Null>> \in Line /\ <<n, Null>> \in Nat \X {Null}
  BY DEF Line
<1>5. \A line \in {Noise, Garbled} : line \notin Nat \X Reply /\ line \notin Nat \X {Null}
  BY DEF Noise, Garbled
<1>6. \A line \in Nat \X Reply : line \notin Nat \X {Null}
  BY <1>2
<1>. QED
  BY <1>1, <1>2, <1>3, <1>4, <1>5, <1>6

-----------------------------------------------------------------------------
(* The initial states *)

LEMMA InitIInv == Init => IInv
<1> SUFFICES ASSUME Init PROVE IInv
  OBVIOUS
<1> USE McpAssumption DEF Init
<1>1. TypeOK
  <2>1. DOMAIN pending = {} /\ output \in Seq(Line)
    OBVIOUS
  <2>3. pc \in [Call -> {"new", "numbered", "registered", "waiting"} \cup Over]
    OBVIOUS
  <2>4. id \in [Call -> Nat] /\ nextId \in Nat /\ lines \in 0..MaxLines
    OBVIOUS
  <2>5. requests \subseteq Nat \X Call /\ answered \subseteq Call
    OBVIOUS
  <2>2. got \in [Call -> Reply \cup {None}]
    OBVIOUS
  <2>. QED
    BY <2>1, <2>2, <2>3, <2>4, <2>5 DEF TypeOK
<1>2. IdInv /\ MatchInv /\ MutexInv
  BY DEF IdInv, MatchInv, MutexInv, Active
<1>3. OwnResponse /\ PendingExact
  BY DEF OwnResponse, PendingExact
<1>. QED
  BY <1>1, <1>2, <1>3 DEF IInv

-----------------------------------------------------------------------------
(* Each step keeps the invariant *)

\* A new call takes the counter's value, which no call has.
LEMMA TakeIdKeeps ==
  ASSUME IInv, NEW c \in Call, TakeId(c)
  PROVE  IInv'
<1> USE McpAssumption DEF IInv, TakeId
<1>1. TypeOK'
  BY DEF TypeOK
<1>2. IdInv'
  BY DEF IdInv, TypeOK, Active
<1>3. MatchInv'
  BY DEF MatchInv, IdInv, TypeOK
<1>4. MutexInv'
  BY DEF MutexInv, TypeOK, Active, Allowed, Serialised
<1>5. OwnResponse' /\ PendingExact'
  BY DEF OwnResponse, PendingExact, MatchInv, TypeOK
<1>. QED
  BY <1>1, <1>2, <1>3, <1>4, <1>5

\* A call that finds no client ends before it has an id.
LEMMA NotRunningKeeps ==
  ASSUME IInv, NEW c \in Call, NotRunning(c)
  PROVE  IInv'
<1> USE McpAssumption DEF IInv, NotRunning
<1>1. TypeOK'
  BY DEF TypeOK, Over
<1>2. IdInv' /\ MatchInv' /\ MutexInv'
  BY DEF IdInv, MatchInv, MutexInv, TypeOK, Active
<1>3. OwnResponse' /\ PendingExact'
  BY DEF OwnResponse, PendingExact, TypeOK
<1>. QED
  BY <1>1, <1>2, <1>3

\* Registration: the call's id is its own, so the entry replaces no other.
LEMMA RegisterKeeps ==
  ASSUME IInv, NEW c \in Call, Register(c)
  PROVE  IInv'
<1> USE McpAssumption DEF IInv, Register
<1>1. TypeOK'
  BY DEF TypeOK
<1>2. IdInv' /\ MatchInv' /\ MutexInv'
  BY DEF IdInv, MatchInv, MutexInv, TypeOK, Active
<1>3. id[c] \notin DOMAIN pending
  BY DEF PendingExact, IdInv, Active, TypeOK
<1>4. OwnResponse' /\ PendingExact'
  BY <1>3 DEF OwnResponse, PendingExact, IdInv, MatchInv, TypeOK, Active
<1>. QED
  BY <1>1, <1>2, <1>4

\* What the end of a call makes of the client.
LEMMA ClientAfterEnd ==
  ASSUME TypeOK, NEW c \in Call, NEW outcome \in Over, Ends(c, outcome)
  PROVE  /\ client' \in {"hello", "listing", "up", "failed", "gone"}
         /\ lock' \in Call \cup {Nobody}
         /\ \A d \in (Call \cup {Nobody}) \ {c} : lock = d => lock' = d
         /\ c \notin {Hello, Listing} => client' = client
         /\ client' # "gone" \/ client = "gone"
BY DEF Ends, ClientAfter, Unlocked, TypeOK

\* The end of a call leaves the others as they are.
LEMMA EndKeepsMutex ==
  ASSUME IInv, NEW c \in Call, NEW outcome \in Over, Ends(c, outcome), pc[c] \in Active
  PROVE  MutexInv'
<1> USE McpAssumption, ClientAfterEnd DEF IInv
<1>1. \A d \in Call : pc'[d] \in Active => d # c /\ pc[d] \in Active
  BY DEF Ends, TypeOK, Active, Over
<1>2. /\ (stopping \/ client = "gone" => guarded)'
      /\ (client = "gone" => lock = Nobody)'
  BY DEF Ends, MutexInv
<1>3. c \notin {Hello, Listing} => MutexInv'
  BY <1>1, <1>2 DEF MutexInv, Ends
<1>4. c \in {Hello, Listing} =>
        \A d \in Call : pc'[d] \in Active => d \notin {Hello, Listing}
  BY <1>1 DEF MutexInv
<1>5. c \in {Hello, Listing} => MutexInv'
  BY <1>1, <1>2, <1>4 DEF MutexInv, Ends
<1>. QED
  BY <1>3, <1>5

\* The request goes out with the call's id; a failed write ends the call, and its
\* entry stays.
LEMMA SendRawKeeps ==
  ASSUME IInv, NEW c \in Call, SendRaw(c)
  PROVE  IInv'
<1> USE McpAssumption DEF IInv, SendRaw
<1>1. CASE server = "up"
  <2>1. TypeOK'
    BY <1>1 DEF TypeOK
  <2>2. IdInv' /\ MutexInv'
    BY <1>1 DEF IdInv, MutexInv, TypeOK, Active
  <2>3. OwnResponse' /\ PendingExact'
    <3>1. \A d \in Call : pc'[d] = IF d = c THEN "waiting" ELSE pc[d]
      BY <1>1 DEF TypeOK
    <3>. QED
      BY <1>1, <3>1 DEF OwnResponse, PendingExact, TypeOK
  <2>4. MatchInv'
    <3>1. \A q \in requests' : q \in requests \/ (q[1] = id[c] /\ q[2] = c)
      BY <1>1
    <3>. QED
      BY <1>1, <3>1 DEF IdInv, MatchInv, TypeOK, Active
  <2>. QED
    BY <2>1, <2>2, <2>3, <2>4
<1>2. CASE server = "gone"
  <2>1. Ends(c, "failed") /\ "failed" \in Over /\ pc[c] \in Active
    BY <1>2 DEF Over, Active
  <2>2. TypeOK'
    BY <1>2, <2>1, ClientAfterEnd DEF TypeOK, Ends, Over
  <2>3. MutexInv'
    BY <2>1, EndKeepsMutex
  <2>4. IdInv' /\ MatchInv'
    BY <1>2, <2>1 DEF IdInv, MatchInv, TypeOK, Active, Ends
  <2>5. OwnResponse' /\ PendingExact'
    BY <1>2, <2>1 DEF OwnResponse, PendingExact, TypeOK, Ends
  <2>. QED
    BY <2>2, <2>3, <2>4, <2>5
<1>. QED
  BY <1>1, <1>2

\* A call that has its response has no entry any more when it returns.
LEMMA ReturnKeeps ==
  ASSUME IInv, NEW c \in Call, Return(c)
  PROVE  IInv'
<1> USE McpAssumption DEF IInv, Return
<1>1. got[c][1] \in Over /\ pc[c] \in Active
  BY DEF TypeOK, Reply, Null, Over, Active
<1>2. TypeOK'
  BY <1>1, ClientAfterEnd DEF TypeOK, Ends, Over
<1>3. MutexInv'
  BY <1>1, EndKeepsMutex
<1>4. IdInv' /\ MatchInv'
  BY <1>1 DEF IdInv, MatchInv, TypeOK, Active, Over, Ends
<1>5. OwnResponse' /\ PendingExact'
  BY <1>1 DEF OwnResponse, PendingExact, TypeOK, Ends, Over
<1>. QED
  BY <1>2, <1>3, <1>4, <1>5

\* What the reader finds at the head of the pipe, and what it leaves there.
LEMMA HeadOfOutput ==
  ASSUME TypeOK, output # <<>>, output' = Tail(output)
  PROVE  /\ Head(output) = output[1] /\ 1 \in DOMAIN output /\ Head(output) \in Line
         /\ output' \in Seq(Line)
         /\ \A i \in DOMAIN output' : i + 1 \in DOMAIN output /\ output'[i] = output[i + 1]
BY DEF TypeOK

\* The response found has the id of its entry, and so of the call that waits.
LEMMA DispatchKeeps ==
  ASSUME IInv, Dispatch
  PROVE  IInv'
<1> DEFINE line == Head(output)
           n == line[1]
           c == pending[n]
<1> USE McpAssumption DEF IInv, Dispatch
<1>1. /\ \A i \in DOMAIN output' : i + 1 \in DOMAIN output /\ output'[i] = output[i + 1]
      /\ output' \in Seq(Line)
  BY HeadOfOutput
<1>2. MatchInv'
  <2>1. \A i \in DOMAIN output' : output'[i] \in Nat \X Reply
           => output'[i][1] = id'[output'[i][2][2]] /\ output'[i][1] # 0
    BY <1>1 DEF MatchInv
  <2>3. \A i \in DOMAIN output' : output'[i] \in Nat \X {Null} => output'[i][1] \in asked'
    BY <1>1 DEF MatchInv
  <2>2. \A d \in Call : pc[d] \in {"new", "numbered"} => got'[d] = None
    <3>1. CASE line # Noise /\ n \in DOMAIN pending
      BY <3>1 DEF MatchInv, PendingExact, TypeOK
    <3>2. CASE ~(line # Noise /\ n \in DOMAIN pending)
      BY <3>2 DEF MatchInv
    <3>. QED
      BY <3>1, <3>2
  <2>. QED
    BY <2>1, <2>2, <2>3 DEF MatchInv
<1>3. IdInv' /\ MutexInv'
  BY DEF IdInv, MutexInv
<1>4. CASE line # Noise /\ n \in DOMAIN pending
  <2>1. /\ line \in Nat \X (Reply \cup {Null}) /\ line[2] \in Reply \cup {Null} /\ c \in Call
        /\ line \in Nat \X Reply \/ line \in Nat \X {Null}
    <3>1. line \in Line /\ line # Garbled
      BY HeadOfOutput
    <3>2. line \in Nat \X Reply \/ line \in Nat \X {Null}
      BY <1>4, <3>1, LineKinds
    <3>. QED
      BY <1>4, <3>2 DEF TypeOK
  <2>2. \/ line[2] \in Reply /\ line[2][2] = c
        \/ line[2] = Null /\ id[c] \in asked
    <3>1. n = id[c]
      BY <1>4 DEF PendingExact
    <3>2. CASE line \in Nat \X Reply
      <4>1. line[2] \in Reply /\ line[2][2] \in Call
        BY <3>2 DEF Reply
      <4>2. n = id[line[2][2]] /\ n # 0
        BY <3>2, HeadOfOutput DEF MatchInv
      <4>. QED
        BY <2>1, <3>1, <4>1, <4>2 DEF IdInv
    <3>3. CASE line \in Nat \X {Null}
      BY <3>1, <3>3, HeadOfOutput DEF MatchInv
    <3>. QED
      BY <2>1, <3>2, <3>3
  <2>3. /\ got' = [got EXCEPT ![c] = line[2]]
        /\ DOMAIN pending' = DOMAIN pending \ {n}
        /\ \A m \in DOMAIN pending' : pending'[m] = pending[m]
    BY <1>4
  <2>4. TypeOK'
    BY <1>1, <2>1, <2>3 DEF TypeOK
  <2>5. OwnResponse'
    BY <2>1, <2>2, <2>3 DEF OwnResponse, TypeOK
  <2>6. PendingExact'
    <3>1. line[2] # None /\ pc[c] \in {"registered", "waiting", "failed"}
      BY <1>4, <2>1, LineKinds DEF PendingExact
    <3>2. ASSUME NEW d \in Call, pc'[d] \in {"registered", "waiting"}, got'[d] = None
          PROVE  id'[d] \in DOMAIN pending' /\ pending'[id'[d]] = d
      <4>1. d # c /\ got[d] = None
        BY <2>1, <2>3, <3>1, <3>2 DEF TypeOK
      <4>2. id[d] \in DOMAIN pending /\ pending[id[d]] = d
        BY <3>2, <4>1 DEF PendingExact
      <4>. QED
        BY <2>3, <4>1, <4>2
    <3>3. ASSUME NEW m \in DOMAIN pending'
          PROVE  /\ id'[pending'[m]] = m /\ got'[pending'[m]] = None
                 /\ pc'[pending'[m]] \in {"registered", "waiting", "failed"}
      <4>1. m \in DOMAIN pending /\ m # n /\ pending'[m] = pending[m]
        BY <2>3
      <4>2. /\ id[pending[m]] = m /\ got[pending[m]] = None /\ pending[m] \in Call
            /\ pc[pending[m]] \in {"registered", "waiting", "failed"}
        BY <4>1 DEF PendingExact, TypeOK
      <4>3. pending[m] # c
        BY <1>4, <4>1, <4>2 DEF PendingExact
      <4>. QED
        BY <2>3, <4>1, <4>2, <4>3 DEF TypeOK
    <3>. QED
      BY <3>2, <3>3 DEF PendingExact
  <2>. QED
    BY <1>2, <1>3, <2>4, <2>5, <2>6
<1>5. CASE ~(line # Noise /\ n \in DOMAIN pending)
  <2>1. UNCHANGED <<got, pending>>
    BY <1>5
  <2>2. TypeOK' /\ OwnResponse' /\ PendingExact'
    BY <1>1, <2>1 DEF TypeOK, OwnResponse, PendingExact
  <2>. QED
    BY <1>2, <1>3, <2>2
<1>. QED
  BY <1>4, <1>5

\* The owner's steps and the end of the reader or the server touch no call.
LEMMA OthersKeep ==
  ASSUME IInv, ReaderEnds \/ Stop \/ ServerExits
  PROVE  IInv'
<1> USE DEF IInv, ReaderEnds, Stop, ServerExits
<1>1. TypeOK'
  BY DEF TypeOK
<1>2. IdInv' /\ MatchInv'
  BY DEF IdInv, MatchInv
<1>3. MutexInv'
  BY DEF MutexInv
<1>4. OwnResponse' /\ PendingExact'
  BY DEF OwnResponse, PendingExact
<1>. QED
  BY <1>1, <1>2, <1>3, <1>4

\* The mutex is free: no call of the backend is in progress.
LEMMA DropClientKeeps ==
  ASSUME IInv, DropClient
  PROVE  IInv'
<1> USE McpAssumption DEF IInv, DropClient
<1>1. TypeOK'
  BY DEF TypeOK
<1>2. IdInv' /\ MatchInv' /\ OwnResponse' /\ PendingExact'
  BY DEF IdInv, MatchInv, OwnResponse, PendingExact
<1>3. \A c \in Call : pc[c] \notin Active
  BY DEF MutexInv
<1>4. MutexInv'
  BY <1>3 DEF MutexInv
<1>. QED
  BY <1>1, <1>2, <1>4

\* A line the server adds comes last, and the others stay where they are.
LEMMA OutputGrows ==
  ASSUME TypeOK, NEW line \in Line, output' = Append(output, line)
  PROVE  /\ output' \in Seq(Line)
         /\ \A i \in DOMAIN output' :
              (i \in DOMAIN output /\ output'[i] = output[i]) \/ output'[i] = line
BY DEF TypeOK

\* An answer has the id of its request.
LEMMA ServerAnswersKeeps ==
  ASSUME IInv, ServerAnswers
  PROVE  IInv'
<1> USE DEF IInv, ServerAnswers
<1>1. PICK q \in requests, outcome \in {"ok", "error"} :
        /\ output' = Append(output, <<q[1], <<outcome, q[2]>>>>)
        /\ answered' = answered \cup {q[2]}
  OBVIOUS
<1> DEFINE line == <<q[1], <<outcome, q[2]>>>>
<1>2. /\ q \in Nat \X Call /\ line \in Nat \X Reply /\ line \in Line
      /\ line \notin Nat \X {Null}
  BY DEF TypeOK, Line, Reply, Null
<1>3. /\ output' \in Seq(Line)
      /\ \A i \in DOMAIN output' :
           (i \in DOMAIN output /\ output'[i] = output[i]) \/ output'[i] = line
  <2> HIDE DEF line
  <2>. QED
    BY <1>1, <1>2, OutputGrows DEF line
<1>4. line[1] = q[1] /\ line[2][2] = q[2]
  OBVIOUS
<1>5. TypeOK'
  BY <1>1, <1>2, <1>3, McpAssumption DEF TypeOK
<1>6. MatchInv'
  <2> HIDE DEF line
  <2>1. q[1] = id[q[2]] /\ q[1] # 0
    BY DEF MatchInv
  <2>. QED
    BY <1>2, <1>3, <1>4, <2>1 DEF MatchInv
<1>7. IdInv' /\ MutexInv' /\ OwnResponse' /\ PendingExact'
  BY DEF IdInv, MutexInv, OwnResponse, PendingExact
<1>. QED
  BY <1>5, <1>6, <1>7

\* A request of the server's own has one of its ids.
LEMMA ServerAsksKeeps ==
  ASSUME IInv, ServerAsks
  PROVE  IInv'
<1> USE DEF IInv, ServerAsks
<1>1. PICK n \in OwnIds : output' = Append(output, <<n, Null>>) /\ asked' = asked \cup {n}
  OBVIOUS
<1>2. PICK line : line = <<n, Null>>
  OBVIOUS
<1>3. n \in Nat /\ line \in Line /\ line \notin Nat \X Reply /\ line[1] = n
  BY <1>2, McpAssumption, LineKinds
<1>4. /\ output' \in Seq(Line)
      /\ \A i \in DOMAIN output' :
           (i \in DOMAIN output /\ output'[i] = output[i]) \/ output'[i] = line
  BY <1>1, <1>2, <1>3, OutputGrows
<1>5. TypeOK'
  BY <1>1, <1>4, McpAssumption DEF TypeOK
<1>6. MatchInv'
  BY <1>1, <1>3, <1>4 DEF MatchInv
<1>7. IdInv' /\ MutexInv' /\ OwnResponse' /\ PendingExact'
  BY <1>1 DEF IdInv, MutexInv, OwnResponse, PendingExact
<1>. QED
  BY <1>5, <1>6, <1>7

\* Any other line has no id.
LEMMA ServerNotifiesKeeps ==
  ASSUME IInv, ServerNotifies
  PROVE  IInv'
<1> USE DEF IInv, ServerNotifies
<1>1. PICK line \in {Noise, Garbled} : output' = Append(output, line)
  OBVIOUS
<1>2. line \in Line /\ line \notin Nat \X Reply /\ line \notin Nat \X {Null}
  BY LineKinds
<1>3. /\ output' \in Seq(Line)
      /\ \A i \in DOMAIN output' :
           (i \in DOMAIN output /\ output'[i] = output[i]) \/ output'[i] = line
  BY <1>1, <1>2, OutputGrows
<1>4. TypeOK'
  BY <1>3, McpAssumption DEF TypeOK
<1>5. MatchInv'
  BY <1>2, <1>3 DEF MatchInv
<1>6. IdInv' /\ MutexInv' /\ OwnResponse' /\ PendingExact'
  BY DEF IdInv, MutexInv, OwnResponse, PendingExact
<1>. QED
  BY <1>4, <1>5, <1>6

\* Every step keeps the invariant.
LEMMA NextKeeps == IInv /\ [Next]_vars => IInv'
<1> SUFFICES ASSUME IInv, [Next]_vars PROVE IInv'
  OBVIOUS
<1>1. CASE UNCHANGED vars
  BY <1>1 DEF vars, IInv, TypeOK, IdInv, MatchInv, MutexInv, OwnResponse, PendingExact
<1>2. CASE Next
  BY <1>2, TakeIdKeeps, NotRunningKeeps, RegisterKeeps, SendRawKeeps, ReturnKeeps,
     DispatchKeeps, OthersKeep, DropClientKeeps, ServerAnswersKeeps, ServerAsksKeeps,
     ServerNotifiesKeeps
     DEF Next, CallStep, ReaderStep
<1>. QED
  BY <1>1, <1>2

-----------------------------------------------------------------------------
(* The theorems *)

\* The inductive invariant holds in every reachable state of the client.
THEOREM InductiveInvariant == Spec => []IInv
BY InitIInv, NextKeeps, PTL DEF Spec

\* Every variable of the client keeps its type: every entry of the pending map is a
\* call, and a call is handed a response, null or nothing.
THEOREM TypeCorrect == Spec => []TypeOK
<1>1. IInv => TypeOK
  BY DEF IInv
<1>. QED
  BY InductiveInvariant, <1>1, PTL

\* A call is handed the response to its own request, in whatever order the server
\* answers, and however often (client.rs:51), or null for a request of the server's
\* own that has the call's id (client.rs:70); never the response to another call.
THEOREM CallsGetOwnResponse == Spec => []OwnResponse
<1>1. IInv => OwnResponse
  BY DEF IInv
<1>. QED
  BY InductiveInvariant, <1>1, PTL

\* The pending map has an entry for every call between its registration and its
\* response, under its id, and otherwise only for calls whose write failed: no
\* entry is lost or replaced, and none stays behind a response (client.rs:71).
THEOREM PendingMapExact == Spec => []PendingExact
<1>1. IInv => PendingExact
  BY DEF IInv
<1>. QED
  BY InductiveInvariant, <1>1, PTL

\* The memory manager's stop takes the client away only between calls: none is in
\* progress then or later (manager.rs:58, qmd.rs:77).
THEOREM StopFindsNoCall == Spec => []GoneIdle
<1>1. IInv => GoneIdle
  BY McpAssumption DEF IInv, MutexInv, GoneIdle
<1>. QED
  BY InductiveInvariant, <1>1, PTL
=============================================================================
