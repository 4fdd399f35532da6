----------------------------- MODULE MessagePipe -----------------------------
(***************************************************************************)
(* What a connection of the pince protocol promises to the two ends: what  *)
(* is received is what was handed over, whole, in order and without        *)
(* repetition, until the connection ends; and it ends for the reader only  *)
(* after the sender's end did.                                             *)
(***************************************************************************)
EXTENDS Naturals, Sequences

CONSTANTS Message

VARIABLES accepted,   \* messages handed to the connection
          received,   \* messages the reader delivered
          sender,     \* open or ended
          receiver    \* open or ended

pipeVars == <<accepted, received, sender, receiver>>

Init ==
  /\ accepted = <<>>
  /\ received = <<>>
  /\ sender = "open"
  /\ receiver = "open"

Accept ==
  /\ \E m \in Message : accepted' = Append(accepted, m)
  /\ UNCHANGED <<received, sender, receiver>>

Deliver ==
  /\ receiver = "open"
  /\ Len(received) < Len(accepted)
  /\ received' = Append(received, accepted[Len(received) + 1])
  /\ UNCHANGED <<accepted, sender, receiver>>

SenderEnds ==
  /\ sender = "open"
  /\ sender' = "ended"
  /\ UNCHANGED <<accepted, received, receiver>>

ReceiverEnds ==
  /\ sender = "ended"
  /\ receiver' = "ended"
  /\ UNCHANGED <<accepted, received, sender>>

Next == Accept \/ Deliver \/ SenderEnds \/ ReceiverEnds

Spec == Init /\ [][Next]_pipeVars
=============================================================================
