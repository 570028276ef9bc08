---------------------------- MODULE MessageFifo ----------------------------
(***************************************************************************)
(* What PdBase promises of its message queues: the messages that the hooks *)
(* found room for reach the callbacks one by one, whole, in the order in   *)
(* which they were sent.  A message is its number, as in PdMessageQueue.   *)
(***************************************************************************)
EXTENDS Naturals, Sequences

VARIABLES
  sent,       \* number of messages accepted so far
  received    \* the messages handed to the callbacks, in their order

vars == <<sent, received>>

Init == sent = 0 /\ received = <<>>

Accept ==
  /\ sent' = sent + 1
  /\ UNCHANGED received

(* A poll hands the oldest waiting message to its callback. *)
Deliver ==
  /\ Len(received) < sent
  /\ received' = Append(received, Len(received) + 1)
  /\ UNCHANGED sent

Next == Accept \/ Deliver

Spec == Init /\ [][Next]_vars
=============================================================================
