---------------------------- MODULE FrameChannel ----------------------------
(***************************************************************************)
(* What the vision pipeline promises between the camera and the MQTT       *)
(* topic: a FIFO of at most Capacity frames (0: unbounded) that, when      *)
(* full, forgets its oldest frame.  Frames are numbered from 1 in capture  *)
(* order.  A frame in hand is emitted or, when the broker refuses it,      *)
(* abandoned.  The channel finishes only when it is closed and empty.      *)
(***************************************************************************)
EXTENDS Naturals, Sequences

CONSTANT Capacity

VARIABLES
  captured,  \* how many frames were captured
  pending,   \* captured frames that wait, oldest first
  hand,      \* the frame being examined, 0 if none
  out,       \* the frames emitted, in order
  status     \* "open", "closed" (no more captures) or "finished"

vars == <<captured, pending, hand, out, status>>

Init ==
  /\ captured = 0
  /\ pending = <<>>
  /\ hand = 0
  /\ out = <<>>
  /\ status = "open"

Capture ==
  /\ status = "open"
  /\ captured' = captured + 1
  /\ LET kept == IF Capacity > 0 /\ Len(pending) >= Capacity
                   THEN Tail(pending) ELSE pending
     IN  pending' = Append(kept, captured + 1)
  /\ UNCHANGED <<hand, out, status>>

Take ==
  /\ hand = 0
  /\ pending # <<>>
  /\ hand' = Head(pending)
  /\ pending' = Tail(pending)
  /\ UNCHANGED <<captured, out, status>>

Emit ==
  /\ hand # 0
  /\ hand' = 0
  /\ \/ out' = Append(out, hand)
     \/ out' = out
  /\ UNCHANGED <<captured, pending, status>>

Close ==
  /\ status = "open"
  /\ status' = "closed"
  /\ UNCHANGED <<captured, pending, hand, out>>

Finish ==
  /\ status = "closed"
  /\ pending = <<>>
  /\ hand = 0
  /\ status' = "finished"
  /\ UNCHANGED <<captured, pending, hand, out>>

Next == Capture \/ Take \/ Emit \/ Close \/ Finish

Spec == Init /\ [][Next]_vars

FairSpec == Spec /\ WF_vars(Take) /\ WF_vars(Emit) /\ WF_vars(Finish)
=============================================================================
