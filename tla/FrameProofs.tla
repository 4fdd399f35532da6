---------------------------- MODULE FrameProofs ----------------------------
(***************************************************************************)
(* Theorems about one direction of a socket: for any messages, sizes and   *)
(* capacity, a connection whose reader has no timer is the reliable pipe   *)
(* of MessagePipe, wherever the writer and the reader are interrupted and  *)
(* however the bytes between them are cut.                                 *)
(***************************************************************************)
EXTENDS FrameStream, TLAPS

USE DEF writerVars, readerVars

-----------------------------------------------------------------------------
(* The inductive invariant *)

\* The cell that is written after cell c.
After(c) == IF c[2] < FrameSize(c[1]) THEN <<c[1], c[2] + 1>> ELSE <<c[1] + 1, 1>>

\* The cell the writer writes next, and the one the reader needs next.
NextWritten == IF Writing THEN <<Len(frames), written + 1>> ELSE <<Len(frames) + 1, 1>>
NextRead == IF Whole THEN <<Len(received) + 2, 1>> ELSE <<Len(received) + 1, Len(partial) + 1>>

\* What the writer started and what waits for it are what was accepted, in order;
\* a frame that is too large is never started.
WriterInv ==
  /\ Len(accepted) <= MaxSent
  /\ Len(frames) + Len(mailbox) <= Len(accepted)
  /\ sender = "open" => Len(frames) + Len(mailbox) = Len(accepted)
  /\ \A k \in DOMAIN frames : frames[k] = accepted[k] /\ Body[frames[k]] <= MaxSize
  /\ \A i \in DOMAIN mailbox : mailbox[i] = accepted[Len(frames) + i]

\* Every cell belongs to a frame that was started.
CellsInv ==
  /\ \A i \in DOMAIN stream : stream[i][1] \in DOMAIN frames
  /\ \A i \in DOMAIN partial : partial[i][1] \in DOMAIN frames

\* The running read has the first cells of the frame that comes next, and knows
\* its length once it has the prefix.
PartialInv ==
  /\ partial # <<>> => /\ Len(received) + 1 \in DOMAIN frames
                       /\ Len(partial) <= FrameSize(Len(received) + 1)
  /\ \A i \in DOMAIN partial : partial[i] = <<Len(received) + 1, i>>
  /\ length = IF Len(partial) < Header THEN -1 ELSE Body[frames[Len(received) + 1]]

\* The cells in the socket lead, one after the other, from the reader to the writer.
StreamInv ==
  /\ stream = <<>> => NextRead = NextWritten
  /\ stream # <<>> => stream[1] = NextRead /\ After(stream[Len(stream)]) = NextWritten
  /\ \A i \in DOMAIN stream : i + 1 \in DOMAIN stream => stream[i + 1] = After(stream[i])

\* What was received is a beginning of what was accepted.
ReceivedInv ==
  /\ Len(received) <= Len(frames)
  /\ \A i \in DOMAIN received : received[i] = accepted[i]

IInv ==
  /\ TypeOK
  /\ WriterInv
  /\ CellsInv
  /\ ~timer => PartialInv /\ StreamInv /\ ReceivedInv

-----------------------------------------------------------------------------
(* Frames and sequences *)

\* A frame that was started has a length, and at least a prefix to write.
LEMMA FrameSizes ==
  ASSUME TypeOK
  PROVE  /\ Header \in Nat \ {0} /\ MaxSize \in Nat
         /\ \A m \in Message : Body[m] \in Nat
         /\ \A k \in DOMAIN frames : /\ k \in Nat \ {0} /\ k <= Len(frames)
                                     /\ frames[k] \in Message /\ Body[frames[k]] \in Nat
                                     /\ FrameSize(k) = Header + Body[frames[k]]
                                     /\ FrameSize(k) \in Nat \ {0}
<1>1. Header \in Nat \ {0} /\ MaxSize \in Nat /\ \A m \in Message : Body[m] \in Nat
  BY FrameAssumption
<1>. QED
  BY <1>1 DEF TypeOK, FrameSize

\* Appending adds one element at the end and keeps the others.
LEMMA AppendIs ==
  ASSUME NEW S, NEW q \in Seq(S), NEW e \in S
  PROVE  /\ Append(q, e) \in Seq(S) /\ Append(q, e) # <<>>
         /\ Len(q) \in Nat /\ Len(Append(q, e)) = Len(q) + 1
         /\ DOMAIN q = 1..Len(q) /\ DOMAIN Append(q, e) = 1..(Len(q) + 1)
         /\ Append(q, e)[Len(q) + 1] = e
         /\ \A i \in DOMAIN q : Append(q, e)[i] = q[i]
OBVIOUS

\* What is left without the first element.
LEMMA TailIs ==
  ASSUME NEW S, NEW q \in Seq(S), q # <<>>
  PROVE  /\ Head(q) \in S /\ Head(q) = q[1] /\ Tail(q) \in Seq(S)
         /\ Len(q) \in Nat \ {0} /\ Len(Tail(q)) = Len(q) - 1
         /\ DOMAIN q = 1..Len(q) /\ DOMAIN Tail(q) = 1..(Len(q) - 1)
         /\ \A i \in DOMAIN Tail(q) : i + 1 \in DOMAIN q /\ Tail(q)[i] = q[i + 1]
OBVIOUS

-----------------------------------------------------------------------------
(* The initial states, and steps that touch no frame *)

LEMMA InitIInv == Init => IInv
<1> SUFFICES ASSUME Init PROVE IInv
  OBVIOUS
<1> USE FrameAssumption DEF Init
<1>1. TypeOK
  <2>1. accepted \in Seq(Message) /\ mailbox \in Seq(Message) /\ Len(mailbox) <= Cap
    OBVIOUS
  <2>2. frames \in Seq(Message) /\ stream \in Seq(Cell) /\ partial \in Seq(Cell)
    OBVIOUS
  <2>3. received \in Seq(Message \cup {Garbage}) /\ written \in Nat /\ length \in Nat \cup {-1}
    OBVIOUS
  <2>. QED
    BY <2>1, <2>2, <2>3 DEF TypeOK
<1>2. WriterInv /\ CellsInv
  BY DEF WriterInv, CellsInv
<1>3. PartialInv /\ ReceivedInv
  BY DEF PartialInv, ReceivedInv
<1>4. StreamInv
  BY DEF StreamInv, NextRead, NextWritten, Whole, Writing
<1>. QED
  BY <1>1, <1>2, <1>3, <1>4 DEF IInv

\* The cells do not depend on what waits behind the frames.
LEMMA CellsKept ==
  ASSUME IInv, UNCHANGED <<timer, frames, written, stream, readerVars>>, WriterInv'
  PROVE  CellsInv' /\ (~timer' => PartialInv' /\ StreamInv' /\ ReceivedInv')
<1>1. CellsInv'
  BY DEF IInv, CellsInv
<1> SUFFICES ASSUME ~timer PROVE PartialInv' /\ StreamInv' /\ ReceivedInv'
  BY <1>1
<1>2. \A k : FrameSize(k)' = FrameSize(k)
  BY DEF FrameSize
<1>3. PartialInv'
  BY <1>2 DEF IInv, PartialInv
<1>4. StreamInv'
  <2>1. NextRead' = NextRead /\ NextWritten' = NextWritten
    BY <1>2 DEF NextRead, NextWritten, Whole, Writing
  <2>2. \A c : After(c)' = After(c)
    BY <1>2 DEF After
  <2>. QED
    BY <2>1, <2>2 DEF IInv, StreamInv
<1>5. ReceivedInv'
  <2>1. \A i \in DOMAIN received : i \in DOMAIN frames
    BY DEF IInv, TypeOK, ReceivedInv
  <2>. QED
    BY <2>1 DEF IInv, WriterInv, ReceivedInv
<1>. QED
  BY <1>3, <1>4, <1>5

\* The channel takes a message.
LEMMA EnqueueKeeps ==
  ASSUME IInv, NEW m \in Message, Enqueue(m)
  PROVE  IInv'
<1> USE DEF Enqueue
<1>1. /\ accepted \in Seq(Message) /\ mailbox \in Seq(Message) /\ frames \in Seq(Message)
      /\ MaxSent \in Nat /\ Cap \in Nat
  BY FrameAssumption DEF IInv, TypeOK
<1>2. TypeOK'
  <2>1. accepted' \in Seq(Message) /\ mailbox' \in Seq(Message) /\ Len(mailbox') <= Cap
    BY <1>1
  <2>. QED
    BY <2>1 DEF IInv, TypeOK
<1>3. WriterInv'
  <2>1. /\ Len(accepted) \in Nat /\ Len(accepted') = Len(accepted) + 1
        /\ Len(mailbox) \in Nat /\ Len(mailbox') = Len(mailbox) + 1
        /\ DOMAIN mailbox = 1..Len(mailbox) /\ DOMAIN mailbox' = 1..(Len(mailbox) + 1)
        /\ mailbox'[Len(mailbox) + 1] = m /\ accepted'[Len(accepted) + 1] = m
        /\ \A i \in DOMAIN mailbox : mailbox'[i] = mailbox[i]
        /\ \A i \in 1..Len(accepted) : accepted'[i] = accepted[i]
        /\ Len(frames) \in Nat /\ DOMAIN frames = 1..Len(frames)
    BY <1>1, AppendIs
  <2>2. Len(frames) + Len(mailbox) = Len(accepted)
    BY DEF IInv, WriterInv
  <2>3. \A i \in DOMAIN mailbox' : mailbox'[i] = accepted'[Len(frames) + i]
    <3>1. ASSUME NEW i \in 1..Len(mailbox) PROVE mailbox'[i] = accepted'[Len(frames) + i]
      <4>1. mailbox[i] = accepted[Len(frames) + i]
        BY <2>1 DEF IInv, WriterInv
      <4>. QED
        BY <2>1, <2>2, <4>1
    <3>2. Len(frames) + (Len(mailbox) + 1) = Len(accepted) + 1
      BY <2>1, <2>2
    <3>3. mailbox'[Len(mailbox) + 1] = accepted'[Len(frames) + (Len(mailbox) + 1)]
      BY <2>1, <3>2
    <3>4. \A i \in DOMAIN mailbox' : i \in 1..Len(mailbox) \/ i = Len(mailbox) + 1
      BY <2>1
    <3>. QED
      BY <3>1, <3>3, <3>4
  <2>4. \A k \in DOMAIN frames : frames[k] = accepted'[k] /\ Body[frames[k]] <= MaxSize
    BY <2>1, <2>2 DEF IInv, WriterInv
  <2>5. Len(accepted') <= MaxSent /\ Len(frames) + Len(mailbox') = Len(accepted')
    <3>1. PICK a \in Nat, b \in Nat : a = Len(accepted) /\ b = Len(mailbox)
      BY <2>1
    <3>2. Len(accepted') = a + 1 /\ Len(mailbox') = b + 1 /\ a < MaxSent
      BY <2>1, <3>1
    <3>3. PICK f \in Nat : f = Len(frames)
      BY <2>1
    <3>4. MaxSent \in Nat /\ f + b = a
      BY <1>1, <2>2, <3>1, <3>3
    <3>5. a + 1 <= MaxSent /\ f + (b + 1) = a + 1
      BY <3>2, <3>4
    <3>. QED
      BY <3>2, <3>3, <3>5
  <2>6. Len(frames) + Len(mailbox') <= Len(accepted')
    BY <2>1, <2>5
  <2>. QED
    BY <2>3, <2>4, <2>5, <2>6 DEF WriterInv
<1>4. CellsInv' /\ (~timer' => PartialInv' /\ StreamInv' /\ ReceivedInv')
  BY <1>3, CellsKept
<1>. QED
  BY <1>2, <1>3, <1>4 DEF IInv

\* The writer's end fails, on a message that is too large or with its process.
LEMMA SenderEndsKeeps ==
  ASSUME IInv, RefuseFrame \/ SenderExits
  PROVE  IInv'
<1>1. /\ sender' = "ended" /\ mailbox' = <<>>
      /\ UNCHANGED <<timer, accepted, frames, written, stream, readerVars>>
  BY DEF RefuseFrame, SenderExits
<1>2. TypeOK'
  BY <1>1, FrameAssumption DEF IInv, TypeOK
<1>3. WriterInv'
  <2>1. Len(mailbox) \in Nat /\ Len(frames) \in Nat /\ Len(accepted) \in Nat
    BY DEF IInv, TypeOK
  <2>2. Len(frames) + Len(mailbox') <= Len(accepted)
    BY <1>1, <2>1 DEF IInv, WriterInv
  <2>. QED
    BY <1>1, <2>2 DEF IInv, WriterInv
<1>. QED
  BY <1>1, <1>2, <1>3, CellsKept DEF IInv

-----------------------------------------------------------------------------
(* The writer *)

\* A frame more: it comes when the one before is written, so the next cell to
\* write is the same.
LEMMA StartFrameKeeps ==
  ASSUME IInv, StartFrame
  PROVE  IInv'
<1> USE DEF StartFrame
<1>1. TypeOK
  BY DEF IInv
<1>2. PICK n \in Nat : n = Len(frames)
  BY <1>1 DEF TypeOK
<1>3. /\ frames' \in Seq(Message) /\ Len(frames') = n + 1
      /\ DOMAIN frames = 1..n /\ DOMAIN frames' = 1..(n + 1)
      /\ frames'[n + 1] = mailbox[1] /\ \A k \in DOMAIN frames : frames'[k] = frames[k]
  BY <1>1, <1>2, AppendIs, TailIs DEF TypeOK
<1>4. /\ mailbox' \in Seq(Message) /\ Len(mailbox) \in Nat \ {0}
      /\ Len(mailbox') = Len(mailbox) - 1
      /\ DOMAIN mailbox = 1..Len(mailbox) /\ DOMAIN mailbox' = 1..(Len(mailbox) - 1)
      /\ Head(mailbox) = mailbox[1]
      /\ \A i \in DOMAIN mailbox' : i + 1 \in DOMAIN mailbox /\ mailbox'[i] = mailbox[i + 1]
  BY <1>1, TailIs DEF TypeOK
<1>5. TypeOK'
  <2>1. Len(mailbox') <= Cap
    BY <1>1, <1>4, FrameAssumption DEF TypeOK
  <2>. QED
    BY <1>1, <1>3, <1>4, <2>1 DEF TypeOK
<1>6. WriterInv'
  <2>1. Len(accepted) \in Nat /\ Len(accepted) <= MaxSent /\ n + Len(mailbox) = Len(accepted)
    BY <1>1, <1>2 DEF TypeOK, IInv, WriterInv
  <2>2. ASSUME NEW i \in DOMAIN mailbox' PROVE mailbox'[i] = accepted[(n + 1) + i]
    <3>1. mailbox[i + 1] = accepted[n + (i + 1)]
      BY <1>2, <1>4 DEF IInv, WriterInv
    <3>2. n + (i + 1) = (n + 1) + i
      BY <1>4
    <3>. QED
      BY <1>4, <3>1, <3>2
  <2>3. mailbox[1] = accepted[n + 1] /\ Body[mailbox[1]] <= MaxSize
    BY <1>2, <1>4 DEF IInv, WriterInv
  <2>4. \A k \in DOMAIN frames' : frames'[k] = accepted[k] /\ Body[frames'[k]] <= MaxSize
    <3>1. \A k \in DOMAIN frames : frames'[k] = accepted[k] /\ Body[frames'[k]] <= MaxSize
      BY <1>3 DEF IInv, WriterInv
    <3>2. \A k \in DOMAIN frames' : k \in DOMAIN frames \/ k = n + 1
      BY <1>3
    <3>. QED
      BY <1>3, <2>3, <3>1, <3>2
  <2>5. Len(frames') + Len(mailbox') = Len(accepted)
    BY <1>3, <1>4, <2>1
  <2>6. Len(frames') + Len(mailbox') <= Len(accepted)
    BY <2>1, <2>5
  <2>. QED
    BY <1>3, <2>1, <2>2, <2>4, <2>5, <2>6 DEF WriterInv
<1>7. CellsInv'
  BY <1>3 DEF IInv, CellsInv
<1>8. ASSUME ~timer PROVE PartialInv' /\ StreamInv' /\ ReceivedInv'
  <2>1. PartialInv /\ StreamInv /\ ReceivedInv
    BY <1>8 DEF IInv
  <2>2. \A k \in DOMAIN frames : k \in DOMAIN frames' /\ FrameSize(k)' = FrameSize(k)
    BY <1>3 DEF FrameSize
  <2>3. PartialInv'
    <3>1. CASE partial = <<>>
      <4>1. Len(partial) < Header
        BY <1>1, <3>1, FrameSizes
      <4>. QED
        BY <2>1, <3>1, <4>1 DEF PartialInv
    <3>2. CASE partial # <<>>
      BY <1>3, <2>1, <2>2, <3>2 DEF PartialInv
    <3>. QED
      BY <3>1, <3>2
  <2>4. StreamInv'
    <3>1. NextRead' = NextRead
      BY DEF NextRead, Whole
    <3>2. NextWritten' = NextWritten
      <4>1. Writing' /\ written' = 0
        <5>1. FrameSize(n + 1)' \in Nat \ {0}
          <6>1. frames'[n + 1] \in Message
            BY <1>3
          <6>2. Header \in Nat \ {0} /\ Body[frames'[n + 1]] \in Nat
            BY <1>1, <6>1, FrameSizes
          <6>3. FrameSize(n + 1)' = Header + Body[frames'[n + 1]]
            BY DEF FrameSize
          <6>. QED
            BY ONLY <6>2, <6>3
        <5>. QED
          BY <1>2, <1>3, <5>1 DEF Writing
      <4>2. NextWritten = <<n + 1, 1>>
        BY <1>2 DEF NextWritten
      <4>. QED
        BY <1>3, <4>1, <4>2 DEF NextWritten
    <3>3. \A i \in DOMAIN stream : After(stream[i])' = After(stream[i])
      BY <2>2 DEF After, IInv, CellsInv
    <3>4. stream # <<>> => Len(stream) \in DOMAIN stream
      BY <1>1 DEF TypeOK
    <3>. QED
      BY <2>1, <3>1, <3>2, <3>3, <3>4 DEF StreamInv
  <2>5. ReceivedInv'
    BY <1>1, <1>2, <1>3, <2>1 DEF ReceivedInv, TypeOK
  <2>. QED
    BY <2>3, <2>4, <2>5
<1>. QED
  BY <1>5, <1>6, <1>7, <1>8 DEF IInv

\* A cell enters the socket: the one that was to come next.
LEMMA WriteCellKeeps ==
  ASSUME IInv, WriteCell
  PROVE  IInv'
<1> USE DEF WriteCell
<1>1. TypeOK
  BY DEF IInv
<1>a. PICK n \in Nat, w \in Nat : n = Len(frames) /\ w = written
  BY <1>1 DEF TypeOK
<1>b. PICK c : c = <<n, w + 1>>
  OBVIOUS
<1>2. n = Len(frames) /\ w = written /\ c = <<n, w + 1>>
  BY <1>a, <1>b
<1>3. n \in DOMAIN frames /\ n \in 1..MaxSent
  <2>1. frames # <<>> /\ Len(frames) <= MaxSent
    <3>1. Len(frames) \in Nat /\ Len(mailbox) \in Nat /\ Len(accepted) \in Nat /\ MaxSent \in Nat
      BY <1>1, FrameAssumption DEF TypeOK
    <3>. QED
      BY <3>1 DEF Writing, IInv, WriterInv
  <2>. QED
    BY <1>1, <1>2, <2>1 DEF TypeOK
<1>4. c \in Cell /\ stream \in Seq(Cell) /\ stream' = Append(stream, c)
  BY <1>1, <1>2, <1>3 DEF TypeOK, Cell
<1>5. /\ stream' \in Seq(Cell) /\ stream' # <<>> /\ Len(stream) \in Nat
      /\ Len(stream') = Len(stream) + 1
      /\ DOMAIN stream = 1..Len(stream) /\ DOMAIN stream' = 1..(Len(stream) + 1)
      /\ stream'[Len(stream) + 1] = c /\ \A i \in DOMAIN stream : stream'[i] = stream[i]
  BY ONLY <1>4, AppendIs
<1>6. TypeOK'
  BY <1>1, <1>2, <1>5 DEF TypeOK
<1>7. WriterInv'
  BY DEF IInv, WriterInv
<1>8. CellsInv'
  <2>1. \A i \in DOMAIN stream' : i \in DOMAIN stream \/ i = Len(stream) + 1
    BY <1>5
  <2>2. c[1] \in DOMAIN frames
    BY <1>2, <1>3
  <2>. QED
    BY <1>5, <2>1, <2>2 DEF IInv, CellsInv
<1>9. ASSUME ~timer PROVE PartialInv' /\ StreamInv' /\ ReceivedInv'
  <2>1. PartialInv /\ StreamInv /\ ReceivedInv
    BY <1>9 DEF IInv
  <2>2. \A k : FrameSize(k)' = FrameSize(k)
    BY DEF FrameSize
  <2>3. PartialInv' /\ ReceivedInv'
    BY <2>1, <2>2 DEF PartialInv, ReceivedInv
  <2>4. \A x : After(x)' = After(x)
    BY <2>2 DEF After
  <2>5. NextRead' = NextRead /\ NextWritten = c
    BY <1>2 DEF NextRead, Whole, NextWritten
  <2>6. NextWritten' = After(c)
    <3>1. w < FrameSize(n) /\ FrameSize(n) \in Nat
      BY <1>1, <1>2, <1>3, FrameSizes DEF Writing
    <3>2. Writing' <=> w + 1 < FrameSize(n)
      BY <1>2, <2>2 DEF Writing
    <3>. QED
      BY <1>2, <3>1, <3>2 DEF NextWritten, After
  <2>7. stream'[1] = NextRead
    <3>1. CASE stream = <<>>
      BY <1>5, <2>1, <2>5, <3>1 DEF StreamInv
    <3>2. CASE stream # <<>>
      BY <1>5, <2>1, <3>2 DEF StreamInv
    <3>. QED
      BY <3>1, <3>2
  <2>8. ASSUME NEW i \in DOMAIN stream', i + 1 \in DOMAIN stream'
        PROVE  stream'[i + 1] = After(stream'[i])
    <3>1. CASE i + 1 \in DOMAIN stream
      BY <1>5, <2>1, <3>1 DEF StreamInv
    <3>2. CASE i = Len(stream)
      BY <1>5, <2>1, <2>5, <3>2 DEF StreamInv
    <3>. QED
      BY <1>5, <2>8, <3>1, <3>2
  <2>9. StreamInv'
    BY <1>5, <2>4, <2>5, <2>6, <2>7, <2>8 DEF StreamInv
  <2>. QED
    BY <2>3, <2>9
<1>. QED
  BY <1>6, <1>7, <1>8, <1>9 DEF IInv

-----------------------------------------------------------------------------
(* The reader *)

\* What a read learns about its frame: with no timer, the length that was written,
\* and the read goes on.
LEMMA ReadCellKeeps ==
  ASSUME IInv, ReadCell
  PROVE  IInv' /\ (~timer => receiver' = receiver)
<1>1. /\ TypeOK /\ receiver = "open" /\ stream # <<>> /\ ~Whole
      /\ UNCHANGED <<timer, accepted, mailbox, frames, written, sender, received>>
  BY DEF IInv, ReadCell
<1>2. PICK c : c = stream[1]
  OBVIOUS
<1>3. /\ c \in Cell /\ Head(stream) = c /\ stream' = Tail(stream) /\ stream' \in Seq(Cell)
      /\ Len(stream) \in Nat \ {0} /\ Len(stream') = Len(stream) - 1
      /\ DOMAIN stream = 1..Len(stream) /\ DOMAIN stream' = 1..(Len(stream) - 1)
      /\ \A i \in DOMAIN stream' : i + 1 \in DOMAIN stream /\ stream'[i] = stream[i + 1]
  <2>1. stream' = Tail(stream)
    BY DEF ReadCell
  <2>. QED
    BY <1>1, <1>2, <2>1, TailIs DEF TypeOK
<1>4. PICK L \in Nat : L = Len(partial)
  BY <1>1 DEF TypeOK
<1>5. /\ partial' \in Seq(Cell) /\ partial' # <<>> /\ Len(partial') = L + 1
      /\ DOMAIN partial = 1..L /\ DOMAIN partial' = 1..(L + 1)
      /\ partial'[L + 1] = c /\ \A i \in DOMAIN partial : partial'[i] = partial[i]
  <2>1. partial' = Append(partial, c)
    BY <1>3 DEF ReadCell
  <2>. QED
    BY <1>1, <1>3, <1>4, <2>1, AppendIs DEF TypeOK
<1>6. CellsInv'
  <2>1. c[1] \in DOMAIN frames
    BY <1>2, <1>3 DEF IInv, CellsInv
  <2>2. \A i \in DOMAIN stream' : stream'[i][1] \in DOMAIN frames
    BY <1>3 DEF IInv, CellsInv
  <2>3. \A i \in DOMAIN partial' : i \in DOMAIN partial \/ i = L + 1
    BY <1>5
  <2>4. \A i \in DOMAIN partial' : partial'[i][1] \in DOMAIN frames
    BY <1>5, <2>1, <2>3 DEF IInv, CellsInv
  <2>. QED
    BY <1>1, <2>2, <2>4 DEF CellsInv
<1>7. /\ L + 1 = Header => \E n \in LengthOf(partial') :
           length' = n /\ receiver' = IF n > MaxSize THEN "ended" ELSE "open"
      /\ L + 1 # Header => UNCHANGED <<length, receiver>>
  <2>1. LengthOf(partial') = IF Aligned(partial') THEN {Body[frames[partial'[1][1]]]}
                                                  ELSE 0..(MaxSize + 1)
    BY DEF LengthOf
  <2>. QED
    BY <1>5 DEF ReadCell
<1>8. TypeOK'
  <2>1. length' \in Nat \cup {-1} /\ receiver' \in {"open", "ended"}
    <3>1. LengthOf(partial') \subseteq Nat
      <4>1. Body[frames[partial'[1][1]]] \in Nat
        BY <1>1, <1>5, <1>6, FrameSizes DEF CellsInv
      <4>2. 0..(MaxSize + 1) \subseteq Nat
        BY FrameAssumption
      <4>. QED
        BY <4>1, <4>2 DEF LengthOf
    <3>. QED
      BY <1>1, <1>7, <3>1 DEF TypeOK
  <2>. QED
    BY <1>1, <1>3, <1>5, <2>1 DEF TypeOK
<1>9. WriterInv'
  BY <1>1 DEF IInv, WriterInv
<1>10. ASSUME ~timer PROVE PartialInv' /\ StreamInv' /\ ReceivedInv' /\ receiver' = receiver
  <2>1. PartialInv /\ StreamInv /\ ReceivedInv
    BY <1>10 DEF IInv
  <2>2. PICK R \in Nat : R = Len(received)
    BY <1>1 DEF TypeOK
  <2>3. c = <<R + 1, L + 1>> /\ R + 1 \in DOMAIN frames
    <3>1. c = NextRead
      BY <1>1, <1>2, <2>1 DEF StreamInv
    <3>2. c = <<R + 1, L + 1>>
      BY <1>1, <1>4, <2>2, <3>1 DEF NextRead
    <3>. QED
      BY <1>2, <1>3, <3>2 DEF IInv, CellsInv
  <2>4. PICK b \in Nat : /\ b = Body[frames[R + 1]] /\ b <= MaxSize
                         /\ FrameSize(R + 1) = Header + b
    BY <1>1, <2>3, FrameSizes DEF IInv, WriterInv
  <2>5. Header \in Nat \ {0} /\ MaxSize \in Nat
    BY FrameAssumption
  <2>6. \A i \in DOMAIN partial' : partial'[i] = <<R + 1, i>>
    <3>1. \A i \in DOMAIN partial : partial[i] = <<R + 1, i>>
      BY <2>1, <2>2 DEF PartialInv
    <3>2. \A i \in DOMAIN partial' : i \in DOMAIN partial \/ i = L + 1
      BY <1>5
    <3>. QED
      BY <1>5, <2>3, <3>1, <3>2
  <2>7. L < Header + b /\ length = IF L < Header THEN -1 ELSE b
    <3>1. length = IF L < Header THEN -1 ELSE b
      BY <1>4, <2>1, <2>2, <2>4 DEF PartialInv
    <3>2. L # 0 => L <= Header + b
      <4>1. L # 0 => partial # <<>>
        BY <1>4
      <4>. QED
        BY <1>4, <2>1, <2>2, <2>4, <4>1 DEF PartialInv
    <3>3. ~(length >= 0 /\ L = Header + length)
      BY <1>1, <1>4 DEF Whole
    <3>. QED
      BY <2>5, <3>1, <3>2, <3>3
  <2>8. (length' = IF L + 1 < Header THEN -1 ELSE b) /\ receiver' = receiver
    <3>1. CASE L + 1 = Header
      <4>1. partial'[1][1] = R + 1 /\ Aligned(partial')
        BY <1>5, <2>6 DEF Aligned
      <4>2. LengthOf(partial') = {b}
        BY <2>4, <4>1 DEF LengthOf
      <4>3. length' = b /\ receiver' = IF b > MaxSize THEN "ended" ELSE "open"
        BY <1>7, <3>1, <4>2
      <4>. QED
        BY <1>1, <2>4, <2>5, <3>1, <4>3
    <3>2. CASE L + 1 # Header
      BY <1>7, <2>5, <2>7, <3>2
    <3>. QED
      BY <3>1, <3>2
  <2>9. \A k : FrameSize(k)' = FrameSize(k)
    BY <1>1 DEF FrameSize
  <2>10. PartialInv'
    <3>1. L + 1 <= Header + b
      BY <2>5, <2>7
    <3>. QED
      BY <1>1, <1>5, <2>2, <2>3, <2>4, <2>6, <2>8, <2>9, <3>1 DEF PartialInv
  <2>11. NextRead' = After(c)
    <3>1. Whole' <=> L + 1 = Header + b
      <4>1. Whole' <=> length' >= 0 /\ L + 1 = Header + length'
        BY <1>5 DEF Whole
      <4>. QED
        BY <2>5, <2>8, <4>1
    <3>2. NextRead' = IF L + 1 = Header + b THEN <<R + 2, 1>> ELSE <<R + 1, L + 2>>
      <4>1. NextRead' = IF Whole' THEN <<R + 2, 1>> ELSE <<R + 1, (L + 1) + 1>>
        BY <1>1, <1>5, <2>2 DEF NextRead
      <4>. QED
        BY <3>1, <4>1
    <3>3. After(c) = IF L + 1 < Header + b THEN <<R + 1, (L + 1) + 1>> ELSE <<(R + 1) + 1, 1>>
      BY <2>3, <2>4 DEF After
    <3>. QED
      BY <2>5, <2>7, <3>2, <3>3
  <2>12. StreamInv'
    <3>1. \A x : After(x)' = After(x)
      BY <2>9 DEF After
    <3>2. NextWritten' = NextWritten
      BY <1>1, <2>9 DEF NextWritten, Writing
    <3>3. CASE Len(stream) = 1
      <4>1. stream' = <<>> /\ NextRead' = NextWritten
        BY <1>1, <1>2, <1>3, <2>1, <2>11, <3>3 DEF StreamInv
      <4>. QED
        BY <1>3, <3>2, <3>3, <4>1 DEF StreamInv
    <3>4. CASE Len(stream) # 1
      <4>1. stream' # <<>> /\ 1 \in DOMAIN stream' /\ Len(stream') \in DOMAIN stream'
        <5>1. Len(stream) - 1 >= 1
          BY <1>3, <3>4
        <5>2. 1 \in DOMAIN stream' /\ Len(stream') \in DOMAIN stream'
          BY <1>3, <5>1
        <5>3. Len(stream') # 0
          BY <1>3, <5>1
        <5>. QED
          BY <5>2, <5>3
      <4>2. stream'[1] = NextRead'
        BY <1>2, <1>3, <2>1, <2>11, <4>1 DEF StreamInv
      <4>3. stream'[Len(stream')] = stream[Len(stream)]
        BY <1>3, <4>1
      <4>4. \A i \in DOMAIN stream' : i + 1 \in DOMAIN stream'
              => stream'[i + 1] = After(stream'[i])
        BY <1>3, <2>1 DEF StreamInv
      <4>. QED
        BY <1>1, <2>1, <3>1, <3>2, <4>1, <4>2, <4>3, <4>4 DEF StreamInv
    <3>. QED
      BY <3>3, <3>4
  <2>13. ReceivedInv'
    BY <1>1, <2>1 DEF ReceivedInv
  <2>. QED
    BY <2>8, <2>10, <2>12, <2>13
<1>. QED
  BY <1>1, <1>6, <1>8, <1>9, <1>10 DEF IInv

\* A whole frame is delivered: with no timer, the next message that was accepted.
LEMMA DecodeKeeps ==
  ASSUME IInv, Decode
  PROVE  /\ IInv'
         /\ ~timer => /\ Len(received) < Len(accepted)
                      /\ received' = Append(received, accepted[Len(received) + 1])
                      /\ receiver' = receiver
<1>1. /\ TypeOK /\ receiver = "open" /\ Whole /\ partial' = <<>> /\ length' = -1
      /\ UNCHANGED <<timer, accepted, mailbox, frames, written, sender, stream>>
      /\ \/ /\ Aligned(partial) /\ receiver' = receiver
            /\ received' = Append(received, frames[partial[1][1]])
         \/ /\ ~Aligned(partial)
            /\ \/ received' = Append(received, Garbage) /\ receiver' = receiver
               \/ receiver' = "ended" /\ received' = received
  BY DEF IInv, Decode
<1>2. 1 \in DOMAIN partial /\ partial # <<>> /\ Len(partial) >= Header
  <2>1. length \in Nat /\ Len(partial) = Header + length
    BY <1>1 DEF Whole, TypeOK
  <2>. QED
    BY <1>1, <2>1, FrameSizes DEF TypeOK
<1>3. frames[partial[1][1]] \in Message
  BY <1>1, <1>2, FrameSizes DEF IInv, CellsInv
<1>4. TypeOK'
  <2>1. received' \in Seq(Message \cup {Garbage}) /\ receiver' \in {"open", "ended"}
    <3>1. PICK S : S = Message \cup {Garbage}
      OBVIOUS
    <3>2. received \in Seq(S) /\ frames[partial[1][1]] \in S /\ Garbage \in S
      BY <1>1, <1>3, <3>1 DEF TypeOK
    <3>3. \/ \E e \in S : received' = Append(received, e)
          \/ received' = received
      BY <1>1, <3>2
    <3>4. received' \in Seq(S)
      BY <3>2, <3>3
    <3>5. receiver' = "open" \/ receiver' = "ended"
      BY <1>1
    <3>. QED
      BY <3>1, <3>4, <3>5
  <2>2. partial' \in Seq(Cell) /\ length' \in Nat \cup {-1}
    BY <1>1
  <2>. QED
    BY <1>1, <2>1, <2>2 DEF TypeOK
<1>5. WriterInv' /\ CellsInv'
  BY <1>1 DEF IInv, WriterInv, CellsInv
<1>6. ASSUME ~timer
      PROVE  /\ Len(received) < Len(accepted)
             /\ received' = Append(received, accepted[Len(received) + 1])
             /\ receiver' = receiver
             /\ PartialInv' /\ StreamInv' /\ ReceivedInv'
  <2>1. PartialInv /\ StreamInv /\ ReceivedInv
    BY <1>6 DEF IInv
  <2>2. PICK R \in Nat, n \in Nat : R = Len(received) /\ n = Len(frames)
    BY <1>1 DEF TypeOK
  <2>3. R + 1 \in DOMAIN frames /\ partial[1] = <<R + 1, 1>> /\ Aligned(partial)
    BY <1>2, <2>1, <2>2 DEF PartialInv, Aligned
  <2>4. /\ receiver' = receiver /\ received' = Append(received, frames[R + 1])
        /\ frames[R + 1] = accepted[R + 1]
    BY <1>1, <2>3 DEF IInv, WriterInv
  <2>5. R + 1 <= n /\ n <= Len(accepted) /\ Len(accepted) \in Nat
    <3>1. R + 1 <= n
      BY <1>1, <2>2, <2>3 DEF TypeOK
    <3>2. Len(mailbox) \in Nat /\ Len(accepted) \in Nat
      BY <1>1 DEF TypeOK
    <3>. QED
      BY <2>2, <3>1, <3>2 DEF IInv, WriterInv
  <2>6. /\ Len(received') = R + 1 /\ received'[R + 1] = accepted[R + 1]
        /\ \A i \in DOMAIN received : received'[i] = received[i]
        /\ DOMAIN received = 1..R /\ DOMAIN received' = 1..(R + 1)
    <3>1. frames[R + 1] \in Message \cup {Garbage}
      BY <1>3, <2>3
    <3>. QED
      BY <1>1, <2>2, <2>4, <3>1, AppendIs DEF TypeOK
  <2>7. ReceivedInv'
    <3>1. \A i \in DOMAIN received : received'[i] = accepted[i]
      BY <2>1, <2>6 DEF ReceivedInv
    <3>2. \A i \in DOMAIN received' : i \in DOMAIN received \/ i = R + 1
      BY <2>6
    <3>. QED
      BY <1>1, <2>2, <2>5, <2>6, <3>1, <3>2 DEF ReceivedInv
  <2>8. PartialInv'
    <3>1. Len(partial') = 0 /\ partial' = <<>> /\ 0 < Header
      BY <1>1, FrameSizes
    <3>. QED
      BY <1>1, <3>1 DEF PartialInv
  <2>9. StreamInv'
    <3>1. \A k : FrameSize(k)' = FrameSize(k)
      BY <1>1 DEF FrameSize
    <3>2. /\ NextWritten' = NextWritten
          /\ \A x : After(x)' = After(x)
      BY <1>1, <3>1 DEF NextWritten, Writing, After
    <3>3. NextRead' = NextRead
      <4>1. NextRead = <<R + 2, 1>>
        BY <1>1, <2>2 DEF NextRead
      <4>2. ~Whole'
        BY <1>1 DEF Whole
      <4>3. Len(partial') = 0
        BY <1>1
      <4>4. NextRead' = <<(R + 1) + 1, 0 + 1>>
        BY <2>6, <4>2, <4>3 DEF NextRead
      <4>. QED
        BY <4>1, <4>4
    <3>. QED
      BY <1>1, <2>1, <3>2, <3>3 DEF StreamInv
  <2>. QED
    BY <2>2, <2>4, <2>5, <2>7, <2>8, <2>9
<1>. QED
  BY <1>1, <1>4, <1>5, <1>6 DEF IInv

\* The reader meets the end of the stream.
LEMMA ReadFailsKeeps ==
  ASSUME IInv, ReadFails
  PROVE  IInv'
<1>1. /\ receiver' = "ended"
      /\ UNCHANGED <<timer, writerVars, stream, partial, length, received>>
  BY DEF ReadFails
<1>2. TypeOK'
  BY <1>1 DEF IInv, TypeOK
<1>3. WriterInv' /\ CellsInv'
  BY <1>1 DEF IInv, WriterInv, CellsInv
<1>4. \A k : FrameSize(k)' = FrameSize(k)
  BY <1>1 DEF FrameSize
<1>5. PartialInv => PartialInv'
  BY <1>1, <1>4 DEF PartialInv
<1>6. ReceivedInv => ReceivedInv'
  BY <1>1 DEF ReceivedInv
<1>7. StreamInv => StreamInv'
  <2>1. /\ NextRead' = NextRead /\ NextWritten' = NextWritten
        /\ \A x : After(x)' = After(x)
    BY <1>1, <1>4 DEF NextRead, Whole, NextWritten, Writing, After
  <2>. QED
    BY <1>1, <2>1 DEF StreamInv
<1>. QED
  BY <1>1, <1>2, <1>3, <1>5, <1>6, <1>7 DEF IInv

\* The timer drops a read: of its connection nothing more is promised.
LEMMA TickFiresKeeps ==
  ASSUME IInv, TickFires
  PROVE  IInv' /\ timer
<1>1. /\ timer /\ partial' = <<>> /\ length' = -1
      /\ UNCHANGED <<timer, writerVars, stream, received, receiver>>
  BY DEF TickFires, Cancels
<1>2. TypeOK'
  BY <1>1 DEF IInv, TypeOK
<1>3. WriterInv' /\ CellsInv'
  BY <1>1 DEF IInv, WriterInv, CellsInv
<1>. QED
  BY <1>1, <1>2, <1>3 DEF IInv

LEMMA NextKeeps == IInv /\ [Next]_vars => IInv'
<1> SUFFICES ASSUME IInv, [Next]_vars PROVE IInv'
  OBVIOUS
<1>1. CASE UNCHANGED vars
  <2>1. TypeOK' /\ WriterInv'
    BY <1>1 DEF vars, IInv, TypeOK, WriterInv
  <2>. QED
    BY <1>1, <2>1, CellsKept DEF vars, IInv
<1>. QED
  BY <1>1, EnqueueKeeps, SenderEndsKeeps, StartFrameKeeps, WriteCellKeeps, ReadCellKeeps,
     DecodeKeeps, ReadFailsKeeps, TickFiresKeeps
  DEF Next, WriterStep, ReaderStep

-----------------------------------------------------------------------------
(* Theorems *)

\* The invariant is inductive.
THEOREM InductiveInvariant == Spec => []IInv
BY InitIInv, NextKeeps, PTL DEF Spec

\* The two tasks and the socket keep their types, and the channel its capacity.
THEOREM TypeCorrect == Spec => []TypeOK
<1>1. IInv => TypeOK
  BY DEF IInv
<1>. QED
  BY <1>1, InductiveInvariant, PTL

\* A reader that is never interrupted takes for a length only what was written as
\* one, which is what the frame format of codec.rs relies on.
THEOREM ReadsAreAligned == Spec => [](~timer => ReadsStartAtFrames)
<1>1. IInv => (~timer => ReadsStartAtFrames)
  BY DEF IInv, TypeOK, PartialInv, ReadsStartAtFrames
<1>. QED
  BY <1>1, InductiveInvariant, PTL

\* Such a connection implements MessagePipe: what the reader delivers is what the
\* channel accepted, in order, once, and it gives up only after the writer's end did.
THEOREM ConnectionIsPipe == Spec => ImplementsPipe
<1> USE DEF Pipe!Accept, Pipe!Deliver, Pipe!SenderEnds, Pipe!ReceiverEnds, Pipe!pipeVars
<1>1. Init => Pipe!Init
  BY DEF Init, Pipe!Init
<1>2. IInv /\ [Next]_vars => [Pipe!Next]_(Pipe!pipeVars)
  <2> SUFFICES ASSUME IInv, [Next]_vars PROVE [Pipe!Next]_(Pipe!pipeVars)
    OBVIOUS
  <2> USE DEF Pipe!Next
  <2>1. CASE UNCHANGED vars
    BY <2>1 DEF vars
  <2>2. ASSUME NEW m \in Message, Enqueue(m) PROVE Pipe!Next
    BY <2>2 DEF Enqueue
  <2>3. CASE StartFrame \/ WriteCell
    BY <2>3 DEF StartFrame, WriteCell
  <2>4. CASE RefuseFrame \/ SenderExits
    BY <2>4 DEF RefuseFrame, SenderExits
  <2>5. CASE ReadCell
    <3>1. UNCHANGED <<timer, accepted, sender, received>>
      BY <2>5 DEF ReadCell
    <3>2. ~timer => receiver' = receiver
      BY <2>5, ReadCellKeeps
    <3>. QED
      BY <3>1, <3>2
  <2>6. CASE Decode
    <3>1. UNCHANGED <<timer, accepted, sender>> /\ receiver = "open"
      BY <2>6 DEF Decode
    <3>2. ~timer => /\ Len(received) < Len(accepted)
                    /\ received' = Append(received, accepted[Len(received) + 1])
                    /\ receiver' = receiver
      BY <2>6, DecodeKeeps
    <3>. QED
      BY <3>1, <3>2
  <2>7. CASE ReadFails
    BY <2>7 DEF ReadFails
  <2>8. CASE TickFires
    BY <2>8, TickFiresKeeps DEF TickFires
  <2>. QED
    BY <2>1, <2>2, <2>3, <2>4, <2>5, <2>6, <2>7, <2>8 DEF Next, WriterStep, ReaderStep
<1>. QED
  BY InductiveInvariant, <1>1, <1>2, PTL DEF Spec, ImplementsPipe, Pipe!Spec

=============================================================================
