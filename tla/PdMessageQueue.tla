--------------------------- MODULE PdMessageQueue ---------------------------
(***************************************************************************)
(* How messages travel from Pure Data to Java: libpd's hooks append them   *)
(* to a ring buffer (util/z_queued.c) on whichever thread holds the JNI    *)
(* mutex, and the main looper polls the buffer without taking the mutex.   *)
(*                                                                         *)
(* The ring buffer itself is taken as the bounded queue that SpscRing is   *)
(* proved to implement.  Its unit here is a word: a header (one pd_params) *)
(* or one element of a payload.  Every rb_write_to_buffer publishes its    *)
(* words at once, and a hook makes one such call per piece of a message.   *)
(***************************************************************************)
EXTENDS Integers, Sequences, SequencesExt

CONSTANTS
  Threads,    \* the threads that enter libpd: audio callback, main, fetchers
  Main,       \* the one of them whose looper polls the queue
  NoThread,
  Capacity,   \* BUFFER_SIZE - 1, in words
  Kinds,      \* the messages: each the sequence of its payload's pieces
  MaxMsgs     \* bound of the model: number of hook calls

ASSUME ThreadsAssumption == Main \in Threads /\ NoThread \notin Threads
ASSUME CapacityAssumption == Capacity \in Nat /\ MaxMsgs \in Nat
ASSUME KindsAssumption == Kinds \subseteq Seq(Nat)

VARIABLES
  mutex,      \* owner of z_jni_shared.c's mutex
  offered,    \* number of hook calls so far
  accepted,   \* payload length of every message there was room for (history)
  todo,       \* for each thread, the pieces its hook has yet to write
  ring,       \* pd_receive_buffer: the unread words
  poll,       \* where libpd_queued_receive_pd_messages is
  available,
  temp,       \* temp_buffer[0 .. available-1]
  pos,        \* the pointer "buffer", as an index into temp
  aligned,    \* FALSE when a bogus header left pos inside a word
  delivered,  \* what the Java callbacks got: message numbers, or Torn (history)
  split       \* a poll saw only some pieces of a message (history)

hook == <<mutex, offered, accepted, todo>>
poller == <<poll, available, temp, pos, aligned, delivered>>
vars == <<hook, ring, poller, split>>

-----------------------------------------------------------------------------

Torn == 0

Total(kind) == FoldLeft(+, 0, kind)

(* Word k of message m; word 0 is the header. *)
Word(m, k) == <<m, k>>

IsHeader(word) == word[2] = 0

(* The writes of a hook for message m: the header, then each piece. *)
Writes(m, kind) ==
  <<<<Word(m, 0)>>>> \o
    [i \in 1..Len(kind) |->
       LET before == Total(SubSeq(kind, 1, i - 1))
       IN  [k \in 1..kind[i] |-> Word(m, before + k)]]

(* The messages so far, end to end, as the hooks mean to write them. *)
Stream ==
  FlattenSeq([m \in 1..Len(accepted) |-> [k \in 1..accepted[m]+1 |-> Word(m, k - 1)]])

Init ==
  /\ mutex = NoThread
  /\ offered = 0 /\ accepted = <<>> /\ todo = [t \in Threads |-> <<>>]
  /\ ring = <<>>
  /\ poll = "idle" /\ available = 0 /\ temp = <<>> /\ pos = 1 /\ aligned = TRUE
  /\ delivered = <<>>
  /\ split = FALSE

-----------------------------------------------------------------------------
(* The producers.  The main thread gets here from a message callback or
   while it is not polling; the other threads at any time. *)

MayRun(t) == t = Main => poll \in {"idle", "parse"}

(* Faulty variant: an entry point that does not wait for the mutex. *)
LockWithoutWaiting(t) ==
  /\ MayRun(t)
  /\ mutex # t
  /\ mutex' = t
  /\ UNCHANGED <<offered, accepted, todo, ring, poller, split>>

Lock(t) ==
  /\ MayRun(t)
  /\ mutex = NoThread
  /\ mutex' = t
  /\ UNCHANGED <<offered, accepted, todo, ring, poller, split>>

Unlock(t) ==
  /\ mutex = t
  /\ todo[t] = <<>>
  /\ mutex' = NoThread
  /\ UNCHANGED <<offered, accepted, todo, ring, poller, split>>

(* Faulty variant: the slot that tells full from empty is given away. *)
RoomWithLastSlot == Capacity + 1 - Len(ring)

Room == Capacity - Len(ring)

HookDrop(t, kind) ==
  /\ mutex = t
  /\ todo[t] = <<>>
  /\ offered < MaxMsgs
  /\ Room < 1 + Total(kind)
  /\ offered' = offered + 1
  /\ UNCHANGED <<mutex, accepted, todo, ring, poller, split>>

(* Faulty variant: only the header's room is asked for. *)
HookAcceptOnHeader(t, kind) ==
  /\ mutex = t
  /\ todo[t] = <<>>
  /\ offered < MaxMsgs
  /\ Room >= 1
  /\ offered' = offered + 1
  /\ accepted' = Append(accepted, Total(kind))
  /\ todo' = [todo EXCEPT ![t] = Writes(Len(accepted) + 1, kind)]
  /\ UNCHANGED <<mutex, ring, poller, split>>

(* One check for the whole message, before its first write. *)
HookAccept(t, kind) ==
  /\ mutex = t
  /\ todo[t] = <<>>
  /\ offered < MaxMsgs
  /\ Room >= 1 + Total(kind)
  /\ offered' = offered + 1
  /\ accepted' = Append(accepted, Total(kind))
  /\ todo' = [todo EXCEPT ![t] = Writes(Len(accepted) + 1, kind)]
  /\ UNCHANGED <<mutex, ring, poller, split>>

(* One rb_write_to_buffer; the hooks ignore its return value, so a refused
   piece is lost and the next one is written all the same. *)
HookWrite(t) ==
  LET words == Head(todo[t]) IN
  /\ mutex = t
  /\ todo[t] # <<>>
  /\ ring' = IF Len(words) <= Room THEN ring \o words ELSE ring
  /\ todo' = [todo EXCEPT ![t] = Tail(@)]
  /\ UNCHANGED <<mutex, offered, accepted, poller, split>>

-----------------------------------------------------------------------------
(* libpd_queued_receive_pd_messages, on the main thread. *)

Polling == mutex # Main

(* Faulty variant: a lone header is left for the next poll. *)
PollAvailableOffByOne ==
  /\ Polling
  /\ poll = "idle"
  /\ Len(ring) > 1
  /\ available' = Len(ring)
  /\ poll' = "read"
  /\ UNCHANGED <<hook, ring, temp, pos, aligned, delivered, split>>

PollAvailable ==
  /\ Polling
  /\ poll = "idle"
  /\ ring # <<>>
  /\ available' = Len(ring)
  /\ poll' = "read"
  /\ UNCHANGED <<hook, ring, temp, pos, aligned, delivered, split>>

(* Faulty variant: read_idx is not moved past the words copied. *)
PollReadAgain ==
  /\ Polling
  /\ poll = "read"
  /\ temp' = SubSeq(ring, 1, available)
  /\ pos' = 1
  /\ aligned' = TRUE
  /\ poll' = "parse"
  /\ UNCHANGED <<hook, ring, available, delivered, split>>

(* A poll that ends inside a message is recorded in split.  The bytes of
   temp_buffer beyond available are left from earlier polls; they belong to
   no message still to be delivered, so temp does not keep them. *)
PollRead ==
  /\ Polling
  /\ poll = "read"
  /\ temp' = SubSeq(ring, 1, available)
  /\ ring' = SubSeq(ring, available + 1, Len(ring))
  /\ pos' = 1
  /\ aligned' = TRUE
  /\ poll' = "parse"
  /\ split' = (split \/ LET last == ring[available] IN last[2] < accepted[last[1]])
  /\ UNCHANGED <<hook, available, delivered>>

(* Faulty variant: the payload is handed over but not skipped. *)
DispatchWithoutSkip ==
  /\ Polling
  /\ poll = "parse" /\ pos <= available
  /\ aligned /\ IsHeader(temp[pos])
  /\ LET m == temp[pos][1]
         end == IF pos + accepted[m] <= available THEN pos + accepted[m] ELSE available
         payload == SubSeq(temp, pos + 1, end)
     IN  /\ delivered' = Append(delivered,
              IF payload = [k \in 1..accepted[m] |-> Word(m, k)] THEN m ELSE Torn)
         /\ pos' = pos + 1
  /\ UNCHANGED <<hook, ring, poll, available, temp, aligned, split>>

(* One turn of the while loop on a real header.  receive_list and the like
   hand over argc elements starting at buffer, whether read or not. *)
Dispatch ==
  /\ Polling
  /\ poll = "parse" /\ pos <= available
  /\ aligned /\ IsHeader(temp[pos])
  /\ LET m == temp[pos][1]
         end == IF pos + accepted[m] <= available THEN pos + accepted[m] ELSE available
         payload == SubSeq(temp, pos + 1, end)
     IN  /\ delivered' = Append(delivered,
              IF payload = [k \in 1..accepted[m] |-> Word(m, k)] THEN m ELSE Torn)
         /\ pos' = pos + accepted[m] + 1
  /\ UNCHANGED <<hook, ring, poll, available, temp, aligned, split>>

(* One turn on bytes that are no header: their type decides whether a
   callback runs and their argc how far the pointer moves. *)
DispatchBogus ==
  /\ Polling
  /\ poll = "parse" /\ pos <= available
  /\ ~aligned \/ ~IsHeader(temp[pos])
  /\ delivered' \in {delivered, Append(delivered, Torn)}
  /\ \E next \in (pos + 1)..(available + 1) : pos' = next
  /\ aligned' \in BOOLEAN
  /\ UNCHANGED <<hook, ring, poll, available, temp, split>>

PollReturn ==
  /\ Polling
  /\ poll = "parse" /\ pos > available
  /\ poll' = "idle"
  /\ available' = 0
  /\ temp' = <<>>
  /\ pos' = 1
  /\ aligned' = TRUE
  /\ UNCHANGED <<hook, ring, delivered, split>>

-----------------------------------------------------------------------------

Produce(t) ==
  Lock(t) \/ Unlock(t) \/ HookWrite(t) \/ \E kind \in Kinds : HookDrop(t, kind) \/ HookAccept(t, kind)

Poll == PollAvailable \/ PollRead \/ Dispatch \/ DispatchBogus \/ PollReturn

Next == Poll \/ \E t \in Threads : Produce(t)

(* The looper runs its messages in the order of their times and pollRunner
   reposts itself with a delay of 5 ms, so the other work of the main thread,
   however much there is, delays a poll but cannot starve it: strong fairness.
   A hook and a critical section run to their end, on every thread; nobody is
   obliged to send anything. *)
Fairness ==
  /\ SF_vars(Poll)
  /\ \A t \in Threads : WF_vars(HookWrite(t) \/ Unlock(t))

Spec == Init /\ [][Next]_vars /\ Fairness

-----------------------------------------------------------------------------
(* Properties.                                                             *)

(* Type correctness of the queue, the hook in progress and the poll. *)
TypeOK ==
  /\ mutex \in Threads \cup {NoThread}
  /\ offered \in 0..MaxMsgs
  /\ accepted \in Seq(Nat) /\ Len(accepted) <= offered
  /\ todo \in [Threads -> Seq(Seq(Nat \X Nat))]
  /\ ring \in Seq(Nat \X Nat) /\ Len(ring) <= Capacity
  /\ poll \in {"idle", "read", "parse"}
  /\ available \in 0..Capacity /\ temp \in Seq(Nat \X Nat) /\ pos \in Nat \ {0}
  /\ aligned \in BOOLEAN
  /\ delivered \in Seq(Nat)
  /\ split \in BOOLEAN

(* The words the hook in progress has yet to write. *)
Owed == IF mutex = NoThread THEN 0 ELSE Len(FlattenSeq(todo[mutex]))

(* The one check at the start of a hook reserves room for all its pieces,
   though a poll and other senders run in between: no piece is refused. *)
ReservedSpace == Owed <= Room

(* The words in the buffer are a contiguous stretch of the messages laid end
   to end, up to what the hook in progress still owes: the pieces of two
   messages never interleave, and none is missing. *)
RingIsStream ==
  LET end == Len(Stream) - Owed
  IN  /\ end >= Len(ring)
      /\ ring = SubSeq(Stream, end - Len(ring) + 1, end)

(* Java sees every accepted message once, whole and in order.  This is what
   PdBase promises of its message queue. *)
DeliveredIntact == delivered = [m \in 1..Len(delivered) |-> m]

(* What the code does guarantee: as long as no poll fell between two writes
   of one hook, delivery is intact, and once the buffer is drained nothing
   accepted is missing. *)
IntactUnlessSplit ==
  ~split => /\ DeliveredIntact
            /\ ring = <<>> /\ Owed = 0 /\ poll = "idle" => Len(delivered) = Len(accepted)

(* Every accepted message reaches its callback, whatever the senders do next,
   unless a poll split a message; a MIDI message, one word, is never split. *)
EventuallyDelivered ==
  \A m \in 1..MaxMsgs :
    (Len(accepted) >= m) ~> (split \/ \E i \in 1..Len(delivered) : delivered[i] = m)
=============================================================================
