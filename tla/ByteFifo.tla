------------------------------ MODULE ByteFifo ------------------------------
(***************************************************************************)
(* What ringbuffer.h promises of a ring buffer with one writer thread and  *)
(* one reader thread: a bounded first-in first-out queue of bytes whose    *)
(* operations take effect at one instant and never lose, repeat, reorder   *)
(* or tear a byte.                                                         *)
(*                                                                         *)
(* A byte is identified with its position in the stream the writer thread  *)
(* writes: the first byte ever written is 1, the second 2, and so on.      *)
(***************************************************************************)
EXTENDS Naturals, Sequences

CONSTANTS
  Capacity,   \* the largest number of unread bytes
  MaxBytes    \* bound of the model: length of the writer's stream

VARIABLES
  sent,       \* number of bytes accepted so far
  queue,      \* the unread bytes, oldest first
  got         \* the bytes the last successful read returned

vars == <<sent, queue, got>>

Init ==
  /\ sent = 0
  /\ queue = <<>>
  /\ got = <<>>

(* The writer hands over its next n bytes, all of them or none. *)
Put(n) ==
  /\ Len(queue) + n <= Capacity
  /\ queue' = queue \o [i \in 1..n |-> sent + i]
  /\ sent' = sent + n
  /\ UNCHANGED got

(* The reader takes the n oldest bytes. *)
Get(n) ==
  /\ n <= Len(queue)
  /\ got' = SubSeq(queue, 1, n)
  /\ queue' = SubSeq(queue, n + 1, Len(queue))
  /\ UNCHANGED sent

Next == \E n \in 1..Capacity : Put(n) \/ Get(n)

Spec == Init /\ [][Next]_vars
=============================================================================
