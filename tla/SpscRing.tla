------------------------------ MODULE SpscRing ------------------------------
(***************************************************************************)
(* The lock-free ring buffer of libpd (util/ringbuffer.c): one writer      *)
(* thread in rb_write_to_buffer, one reader thread in rb_read_from_buffer, *)
(* interleaved at the level of single bytes of the memcpy calls and of the *)
(* atomic accesses to read_idx and write_idx.                              *)
(*                                                                         *)
(* A byte of the writer's stream is its position in that stream, 1, 2, ... *)
(* and 0 is what calloc left in the buffer.                                *)
(***************************************************************************)
EXTENDS Integers, Sequences

CONSTANTS
  Size,       \* rb_create's size
  MaxBytes    \* bound of the model: length of the writer's stream

ASSUME SizeAssumption == Size \in Nat \ {0}
ASSUME MaxBytesAssumption == MaxBytes \in Nat

VARIABLES
  buf,        \* buffer->buf_ptr
  write_idx,
  read_idx,
  w_len,      \* rb_write_to_buffer in progress: bytes to copy, or Idle
  w_done,     \* ... and bytes copied so far
  w_ret,      \* what the last rb_write_to_buffer returned
  r_len,      \* rb_read_from_buffer in progress: bytes to copy, or Idle
  dest,       \* ... and the bytes copied so far
  r_ret,      \* what the last rb_read_from_buffer returned
  sent,       \* bytes published so far (history)
  rcvd,       \* bytes released by the reader so far (history)
  got         \* dest of the last read that returned 0 (history)

writer == <<w_len, w_done, w_ret>>
reader == <<r_len, dest, r_ret>>
vars == <<buf, write_idx, read_idx, writer, reader, sent, rcvd, got>>

-----------------------------------------------------------------------------

Idle == 0

(* Called by the writer: its own write_idx does not move under its feet, so
   the one shared access is the atomic load of read_idx. *)
rb_available_to_write == (Size + read_idx - write_idx - 1) % Size

(* Faulty variant: the size is not added before the difference is taken. *)
ReadRoomWithoutWrap == IF write_idx < read_idx THEN 0 ELSE write_idx - read_idx

(* Called by the reader: the shared access is the atomic load of write_idx. *)
rb_available_to_read == (Size + write_idx - read_idx) % Size

(* Faulty variant: the second memcpy starts at the wrong end. *)
SlotWithoutSecondPiece(idx, i) == IF idx + i < Size THEN idx + i ELSE Size - 1

(* The slot i bytes after index idx; the code splits its memcpy in two at
   the end of the buffer. *)
Slot(idx, i) == IF idx + i < Size THEN idx + i ELSE idx + i - Size

rb_create ==
  /\ buf = [s \in 0..Size-1 |-> 0]
  /\ write_idx = 0
  /\ read_idx = 0

Init ==
  /\ rb_create
  /\ w_len = Idle /\ w_done = 0 /\ w_ret = 0
  /\ r_len = Idle /\ dest = <<>> /\ r_ret = 0
  /\ sent = 0
  /\ rcvd = 0
  /\ got = <<>>

-----------------------------------------------------------------------------
(* The writer thread. A call with len = 0 returns 0 and changes nothing.   *)

WriteRefused(n) ==
  /\ w_len = Idle
  /\ n > rb_available_to_write
  /\ w_ret' = -1
  /\ UNCHANGED <<buf, write_idx, read_idx, w_len, w_done, reader, sent, rcvd, got>>

(* Faulty variant: the slot that tells full from empty is given away. *)
WriteBeginIntoLastSlot(n) ==
  /\ w_len = Idle
  /\ sent + n <= MaxBytes
  /\ n <= rb_available_to_write + 1
  /\ w_len' = n
  /\ w_done' = 0
  /\ UNCHANGED <<buf, write_idx, read_idx, w_ret, reader, sent, rcvd, got>>

WriteBegin(n) ==
  /\ w_len = Idle
  /\ sent + n <= MaxBytes
  /\ n <= rb_available_to_write
  /\ w_len' = n
  /\ w_done' = 0
  /\ UNCHANGED <<buf, write_idx, read_idx, w_ret, reader, sent, rcvd, got>>

(* One byte of the memcpy calls. *)
WriteByte ==
  /\ w_done < w_len
  /\ buf' = [buf EXCEPT ![Slot(write_idx, w_done)] = sent + w_done + 1]
  /\ w_done' = w_done + 1
  /\ UNCHANGED <<write_idx, read_idx, w_len, w_ret, reader, sent, rcvd, got>>

(* Faulty variant: the published index is not taken modulo the size. *)
WritePublishWithoutModulo ==
  /\ w_len # Idle
  /\ w_done = w_len
  /\ write_idx' = write_idx + w_len
  /\ sent' = sent + w_len
  /\ w_len' = Idle
  /\ w_done' = 0
  /\ w_ret' = 0
  /\ UNCHANGED <<buf, read_idx, reader, rcvd, got>>

(* The compare-and-swap that publishes the bytes. *)
WritePublish ==
  /\ w_len # Idle
  /\ w_done = w_len
  /\ write_idx' = (write_idx + w_len) % Size
  /\ sent' = sent + w_len
  /\ w_len' = Idle
  /\ w_done' = 0
  /\ w_ret' = 0
  /\ UNCHANGED <<buf, read_idx, reader, rcvd, got>>

-----------------------------------------------------------------------------
(* The reader thread.                                                      *)

ReadRefused(n) ==
  /\ r_len = Idle
  /\ n > rb_available_to_read
  /\ r_ret' = -1
  /\ UNCHANGED <<buf, write_idx, read_idx, writer, r_len, dest, sent, rcvd, got>>

ReadBegin(n) ==
  /\ r_len = Idle
  /\ n <= rb_available_to_read
  /\ r_len' = n
  /\ dest' = <<>>
  /\ UNCHANGED <<buf, write_idx, read_idx, writer, r_ret, sent, rcvd, got>>

ReadByte ==
  /\ Len(dest) < r_len
  /\ dest' = Append(dest, buf[Slot(read_idx, Len(dest))])
  /\ UNCHANGED <<buf, write_idx, read_idx, writer, r_len, r_ret, sent, rcvd, got>>

(* The compare-and-swap that gives the slots back to the writer. *)
ReadPublish ==
  /\ r_len # Idle
  /\ Len(dest) = r_len
  /\ read_idx' = (read_idx + r_len) % Size
  /\ rcvd' = rcvd + r_len
  /\ got' = dest
  /\ r_len' = Idle
  /\ dest' = <<>>
  /\ r_ret' = 0
  /\ UNCHANGED <<buf, write_idx, writer, sent>>

-----------------------------------------------------------------------------

Writer == (\E n \in 1..Size : WriteRefused(n) \/ WriteBegin(n)) \/ WriteByte \/ WritePublish

Reader == (\E n \in 1..Size : ReadRefused(n) \/ ReadBegin(n)) \/ ReadByte \/ ReadPublish

Next == Writer \/ Reader

Spec == Init /\ [][Next]_vars

-----------------------------------------------------------------------------
(* Properties.                                                             *)

(* Type correctness: both indices stay inside the buffer, and a copy never
   runs past the length its call checked. *)
TypeOK ==
  /\ buf \in [0..Size-1 -> Nat]
  /\ write_idx \in 0..Size-1
  /\ read_idx \in 0..Size-1
  /\ w_len \in 0..Size /\ w_done \in 0..w_len /\ w_ret \in {0, -1}
  /\ r_len \in 0..Size /\ dest \in Seq(Nat) /\ Len(dest) <= r_len /\ r_ret \in {0, -1}
  /\ sent \in Nat
  /\ rcvd \in Nat
  /\ got \in Seq(Nat)

(* The slots the two threads may touch while their calls are in progress. *)
WriterSlots == {Slot(write_idx, i) : i \in w_done..(w_len - 1)}
ReaderSlots == {Slot(read_idx, i) : i \in Len(dest)..(r_len - 1)}

(* Lock-freedom is paid for with disjointness: a slot the writer is about
   to overwrite is never one the reader is about to copy, although each
   side computed its room from an index the other side keeps moving. *)
NoSharedSlot == WriterSlots \cap ReaderSlots = {}

(* The reader copies exactly the bytes that follow those it already has:
   nothing torn, stale, lost or repeated, wherever the copy wraps. *)
ReadsInOrder == \A i \in 1..Len(dest) : dest[i] = rcvd + i

(* read_idx = write_idx means empty, never full: the two indices determine
   the number of unread bytes, which one free slot keeps below Size. *)
FillFromIndices == sent >= rcvd /\ sent - rcvd = rb_available_to_read

(* The unread bytes, as the reader would find them. *)
Unread == [i \in 1..rb_available_to_read |-> buf[Slot(read_idx, i - 1)]]

Fifo == INSTANCE ByteFifo WITH Capacity <- Size - 1, queue <- Unread

(* The ring buffer implements the bounded queue of bytes: every step of the
   two threads is a Put, a Get or invisible. *)
RefinesFifo == Fifo!Spec
=============================================================================
