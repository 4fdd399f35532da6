---------------------------- MODULE FrameStream ----------------------------
(***************************************************************************)
(* One direction of a socket of the pince protocol: the channel in front   *)
(* of the writer task, write_message, the bytes on their way, and the      *)
(* reader loop around read_message (crates/protocol/src/codec.rs, the      *)
(* connection tasks of crates/supervisor/src/supervisor.rs, agent/codec.py). *)
(*                                                                         *)
(* A byte is a cell <<k, i>>: the i-th of the k-th frame written.  A read  *)
(* that starts at the first cell of a frame sees the frame's length; one   *)
(* that starts anywhere else takes some bytes for a length.  The reader    *)
(* loop that serves an agent waits for a timer beside the read: select!    *)
(* then drops the read it interrupts, and what that read had taken from    *)
(* the socket with it.  The loop that serves a frontend has no timer, nor  *)
(* have the readers at the other ends.                                     *)
(***************************************************************************)
EXTENDS Integers, Sequences

CONSTANTS Message,   \* messages
          Body,      \* length of a message's encoding
          Header,    \* length of the prefix (4 in the code)
          MaxSize,   \* MAX_MESSAGE_SIZE (16 MiB in the code)
          Cap,       \* capacity of the writer task's channel (64 in the code)
          Garbage,   \* what bytes that were no message decode to
          MaxSent    \* bound: messages handed over in a behaviour

ASSUME FrameAssumption ==
  /\ Body \in [Message -> Nat]
  /\ Header \in Nat \ {0}
  /\ MaxSize \in Nat
  /\ Cap \in Nat \ {0}
  /\ Garbage \notin Message
  /\ MaxSent \in Nat

VARIABLES timer,      \* the reader loop has a timer
          accepted,   \* history: messages the channel took
          mailbox,    \* of those, the ones the writer task has yet to take
          frames,     \* frames the writer started to write
          written,    \* cells of the last frame that reached the socket
          stream,     \* cells in the socket
          partial,    \* cells taken by the running read_message
          length,     \* the length that read found, -1 before it has one
          received,   \* messages the reader loop delivered
          sender,     \* the writer task and its process: open or ended
          receiver    \* the reader loop: open or ended

writerVars == <<accepted, mailbox, frames, written, sender>>
readerVars == <<partial, length, received, receiver>>
vars == <<timer, writerVars, stream, readerVars>>

Cell == (1..MaxSent) \X Nat

TypeOK ==
  /\ timer \in BOOLEAN
  /\ accepted \in Seq(Message)
  /\ mailbox \in Seq(Message) /\ Len(mailbox) <= Cap
  /\ frames \in Seq(Message)
  /\ written \in Nat
  /\ stream \in Seq(Cell)
  /\ partial \in Seq(Cell)
  /\ length \in Nat \cup {-1}
  /\ received \in Seq(Message \cup {Garbage})
  /\ sender \in {"open", "ended"}
  /\ receiver \in {"open", "ended"}

Init ==
  /\ timer \in BOOLEAN
  /\ accepted = <<>>
  /\ mailbox = <<>>
  /\ frames = <<>>
  /\ written = 0
  /\ stream = <<>>
  /\ partial = <<>>
  /\ length = -1
  /\ received = <<>>
  /\ sender = "open"
  /\ receiver = "open"

-----------------------------------------------------------------------------
(* The writer *)

FrameSize(k) == Header + Body[frames[k]]

Writing == frames # <<>> /\ written < FrameSize(Len(frames))

\* AgentHandle::send and its like wait while the channel is full.
Enqueue(m) ==
  /\ sender = "open"
  /\ Len(accepted) < MaxSent
  /\ Len(mailbox) < Cap
  /\ accepted' = Append(accepted, m)
  /\ mailbox' = Append(mailbox, m)
  /\ UNCHANGED <<timer, frames, written, sender, stream, readerVars>>

\* write_message starts on the next message of the channel.
StartFrame ==
  /\ sender = "open"
  /\ ~Writing
  /\ mailbox # <<>>
  /\ Body[Head(mailbox)] <= MaxSize
  /\ frames' = Append(frames, Head(mailbox))
  /\ written' = 0
  /\ mailbox' = Tail(mailbox)
  /\ UNCHANGED <<timer, accepted, sender, stream, readerVars>>

\* A message that is too large is an error, and the writer task ends on any
\* error; what is left in its channel is dropped.
RefuseFrame ==
  /\ sender = "open"
  /\ ~Writing
  /\ mailbox # <<>>
  /\ Body[Head(mailbox)] > MaxSize
  /\ sender' = "ended"
  /\ mailbox' = <<>>
  /\ UNCHANGED <<timer, accepted, frames, written, stream, readerVars>>

\* The socket takes what it has room for, at least one cell.
WriteCell ==
  /\ sender = "open"
  /\ Writing
  /\ written' = written + 1
  /\ stream' = Append(stream, <<Len(frames), written + 1>>)
  /\ UNCHANGED <<timer, accepted, mailbox, frames, sender, readerVars>>

\* The process ends, wherever its writer is.
SenderExits ==
  /\ sender = "open"
  /\ sender' = "ended"
  /\ mailbox' = <<>>
  /\ UNCHANGED <<timer, accepted, frames, written, stream, readerVars>>

-----------------------------------------------------------------------------
(* The reader *)

\* The cells are the first ones of a frame.
Aligned(cells) ==
  \A i \in DOMAIN cells : cells[i] = <<cells[1][1], i>>

\* Mutant: the length is taken to count one byte more.
LengthOffByOne(cells) ==
  IF Aligned(cells) THEN {Body[frames[cells[1][1]]] + 1} ELSE 0..(MaxSize + 1)

\* What the prefix may say: the length of its frame, or anything.
LengthOf(cells) ==
  IF Aligned(cells) THEN {Body[frames[cells[1][1]]]} ELSE 0..(MaxSize + 1)

Whole == length >= 0 /\ Len(partial) = Header + length

ReadCell ==
  /\ receiver = "open"
  /\ stream # <<>>
  /\ ~Whole
  /\ partial' = Append(partial, Head(stream))
  /\ stream' = Tail(stream)
  /\ IF Len(partial') = Header
     THEN \E n \in LengthOf(partial') :
            /\ length' = n
            /\ receiver' = IF n > MaxSize THEN "ended" ELSE "open"
     ELSE UNCHANGED <<length, receiver>>
  /\ UNCHANGED <<timer, writerVars, received>>

\* A frame decodes to its message; bytes that were none fail to decode, which
\* ends the loop, or decode to something nobody sent.
Decode ==
  /\ receiver = "open"
  /\ Whole
  /\ \/ /\ Aligned(partial)
        /\ received' = Append(received, frames[partial[1][1]])
        /\ UNCHANGED receiver
     \/ /\ ~Aligned(partial)
        /\ \/ received' = Append(received, Garbage) /\ UNCHANGED receiver
           \/ receiver' = "ended" /\ UNCHANGED received
  /\ partial' = <<>>
  /\ length' = -1
  /\ UNCHANGED <<timer, writerVars, stream>>

\* End of file, in the middle of a frame or not.
ReadFails ==
  /\ receiver = "open"
  /\ sender = "ended"
  /\ stream = <<>>
  /\ ~Whole
  /\ receiver' = "ended"
  /\ UNCHANGED <<timer, writerVars, stream, partial, length, received>>

\* Mutant: every reader loop waits for a timer beside the read.
CancelsAlways == TRUE

Cancels == timer

\* The timer fires while the read waits for more bytes: the read is dropped and
\* the next one starts afresh.
TickFires ==
  /\ Cancels
  /\ receiver = "open"
  /\ ~Whole
  /\ partial' = <<>>
  /\ length' = -1
  /\ UNCHANGED <<timer, writerVars, stream, received, receiver>>

-----------------------------------------------------------------------------

WriterStep == StartFrame \/ RefuseFrame \/ WriteCell
ReaderStep == ReadCell \/ Decode \/ ReadFails

Next ==
  \/ \E m \in Message : Enqueue(m)
  \/ WriterStep
  \/ SenderExits
  \/ ReaderStep
  \/ TickFires

Spec == Init /\ [][Next]_vars

\* The runtime polls the two tasks; nothing is assumed of those who send.
FairSpec == Spec /\ WF_vars(WriterStep) /\ WF_vars(ReaderStep)

-----------------------------------------------------------------------------
(* Properties *)

\* A connection whose reader has no timer is a reliable pipe: nothing is lost,
\* repeated or reordered while both ends are up, and a live peer is never taken
\* for gone.  Of a reader with a timer the pipe sees nothing.
Pipe == INSTANCE MessagePipe WITH
  received <- IF timer THEN <<>> ELSE received,
  receiver <- IF timer THEN "open" ELSE receiver

ImplementsPipe == Pipe!Spec

\* Over such a connection everything handed over arrives, unless the sender's
\* end fails first.
AllArrive ==
  \A n \in 1..MaxSent :
     (Len(accepted) >= n)
       ~> (timer \/ Len(received) >= n \/ sender = "ended")

\* "Frame format: [4 bytes: u32 BE length][N bytes: protobuf-encoded message]"
\* (codec.rs:3): whatever a read takes for a length is the start of a frame.
ReadsStartAtFrames == partial # <<>> => partial[1][2] = 1
=============================================================================
