------------------------- MODULE MessagePathProofs --------------------------
(***************************************************************************)
(* Proofs about the two ends of a message's way from Pd to Java: the ring  *)
(* buffer it is queued in, and the dispatcher that calls the listeners.    *)
(* What lies between them is proved in PdMessageQueueProofs.               *)
(***************************************************************************)
EXTENDS SpscRing, PdDispatcher, SequenceTheorems, TLAPS

(***************************************************************************)
(* PdDispatcher, for any numbers of dispatchers, symbols, listeners and    *)
(* threads: subscriptions follow the listeners, and a removed listener is  *)
(* not called.                                                             *)
(***************************************************************************)

(* As long as the set iterated over is the one in the map and unmodified,
   the listeners still to be called are registered. *)
TodoRegistered ==
  \A d \in Dispatchers :
    visit[d].symbol # NONE /\ ~visit[d].changed /\ ~visit[d].cleared =>
      visit[d].todo \subseteq listeners[d][visit[d].symbol]

(* The inductive invariant. *)
DispatchInv == DispatchTypeOK /\ SubscribedAsHeard /\ TodoRegistered

-----------------------------------------------------------------------------
(* What happens to a visit before its end keeps it typed and at its symbol. *)
LEMMA VisitTyped ==
  ASSUME NEW v \in Visits, NEW l \in Listeners \cup {NONE}
  PROVE  /\ [v EXCEPT !.changed = TRUE] \in Visits
         /\ [v EXCEPT !.changed = TRUE].symbol = v.symbol
         /\ [v EXCEPT !.cleared = TRUE] \in Visits
         /\ [v EXCEPT !.cleared = TRUE].symbol = v.symbol
         /\ [v EXCEPT !.cur = l, !.todo = @ \ {l}] \in Visits
         /\ [v EXCEPT !.cur = l, !.todo = @ \ {l}].symbol = v.symbol
<1>1. [v EXCEPT !.changed = TRUE] \in Visits /\ [v EXCEPT !.changed = TRUE].symbol = v.symbol
  BY DEF Visits
<1>2. [v EXCEPT !.cleared = TRUE] \in Visits /\ [v EXCEPT !.cleared = TRUE].symbol = v.symbol
  BY DEF Visits
<1>3. /\ [v EXCEPT !.cur = l, !.todo = @ \ {l}] \in Visits
      /\ [v EXCEPT !.cur = l, !.todo = @ \ {l}].symbol = v.symbol
  BY DEF Visits
<1> QED
  BY <1>1, <1>2, <1>3

(* Modifying a set keeps the visits typed, each at its symbol. *)
LEMMA ModifyTyped ==
  ASSUME visit \in [Dispatchers -> Visits], NEW d \in Dispatchers, NEW s, Modify(d, s)
  PROVE  /\ visit' \in [Dispatchers -> Visits]
         /\ \A e \in Dispatchers : visit'[e].symbol = visit[e].symbol
<1>1. [visit[d] EXCEPT !.changed = TRUE] \in Visits
  BY VisitTyped
<1>2. visit' = visit \/ visit' = [visit EXCEPT ![d] = [visit[d] EXCEPT !.changed = TRUE]]
  BY DEF Modify
<1>3. [visit[d] EXCEPT !.changed = TRUE].symbol = visit[d].symbol
  BY VisitTyped
<1> QED
  BY <1>1, <1>2, <1>3

(* The beginning of a loop keeps everything but the looper's queue typed. *)
LEMMA BeginTyped ==
  ASSUME DispatchTypeOK, NEW t \in Threads, NEW d \in Dispatchers, NEW s \in Symbols,
         Begin(t, d, s), posted' \in Seq(Dispatchers \X Symbols)
  PROVE  DispatchTypeOK'
<1> USE DispatchAssumption DEF DispatchTypeOK, Begin, registry
<1>1. CASE listeners[d][s] = {}
  BY <1>1
<1>2. CASE listeners[d][s] # {}
  <2> DEFINE v == Visit(s, listeners[d][s])
  <2>1. v \in Visits /\ v.symbol = s
    BY DEF Visit, Visits
  <2>2. visit' = [visit EXCEPT ![d] = v] /\ monitor' = [monitor EXCEPT ![d] = t]
    BY <1>2
  <2> QED
    BY <2>1, <2>2
<1> QED
  BY <1>1, <1>2

(* A step keeps the types, and the monitor with the loop it guards. *)
LEMMA StepTyped ==
  ASSUME DispatchTypeOK, [DispatchNext]_dispatchVars
  PROVE  DispatchTypeOK'
<1> USE DispatchAssumption DEF DispatchTypeOK, registry
<1>1. ASSUME NEW t \in Threads, NEW d \in Dispatchers, NEW s \in Symbols, NEW l \in Listeners,
             addListener(t, d, s, l)
      PROVE  DispatchTypeOK'
  <2>1. /\ listeners' \in [Dispatchers -> [Symbols -> SUBSET Listeners]]
        /\ bindings' \in SUBSET Symbols /\ taken' \in [Dispatchers -> SUBSET Symbols]
    BY <1>1 DEF addListener
  <2>2. visit' \in [Dispatchers -> Visits]
    BY <1>1, ModifyTyped DEF addListener
  <2>3. monitor' \in [Dispatchers -> Threads \cup {NONE}] /\ posted' \in Seq(Dispatchers \X Symbols)
    BY <1>1 DEF addListener
  <2>4. \A e \in Dispatchers : monitor'[e] = NONE <=> visit'[e].symbol = NONE
    BY <1>1, ModifyTyped DEF addListener
  <2> QED
    BY <1>1, <2>1, <2>2, <2>3, <2>4 DEF addListener
<1>2. ASSUME NEW t \in Threads, NEW d \in Dispatchers, NEW s \in Symbols, NEW l \in Listeners,
             removeListener(t, d, s, l)
      PROVE  DispatchTypeOK'
  <2>1. /\ listeners' \in [Dispatchers -> [Symbols -> SUBSET Listeners]]
        /\ bindings' \in SUBSET Symbols /\ taken' \in [Dispatchers -> SUBSET Symbols]
    <3>1. listeners' \in [Dispatchers -> [Symbols -> SUBSET Listeners]]
      BY <1>2 DEF removeListener
    <3> QED
      BY <1>2, <3>1 DEF removeListener, Unsubscribe, Heard
  <2>2. visit' \in [Dispatchers -> Visits]
    BY <1>2, ModifyTyped DEF removeListener
  <2>3. monitor' \in [Dispatchers -> Threads \cup {NONE}] /\ posted' \in Seq(Dispatchers \X Symbols)
    BY <1>2 DEF removeListener
  <2>4. \A e \in Dispatchers : monitor'[e] = NONE <=> visit'[e].symbol = NONE
    BY <1>2, ModifyTyped DEF removeListener
  <2> QED
    BY <1>2, <2>1, <2>2, <2>3, <2>4 DEF removeListener
<1>3. ASSUME NEW d \in Dispatchers, Release(d)
      PROVE  DispatchTypeOK'
  <2>1. /\ listeners' \in [Dispatchers -> [Symbols -> SUBSET Listeners]]
        /\ bindings' \in SUBSET Symbols /\ taken' \in [Dispatchers -> SUBSET Symbols]
    BY <1>3 DEF Release, Unsubscribe, Heard
  <2> DEFINE v == [visit[d] EXCEPT !.cleared = TRUE]
  <2>2. v \in Visits /\ v.symbol = visit[d].symbol
    <3>1. visit[d] \in Visits
      OBVIOUS
    <3> QED
      BY <3>1, VisitTyped
  <2>3. visit' = visit \/ visit' = [visit EXCEPT ![d] = v]
    BY <1>3 DEF Release
  <2>4. visit' \in [Dispatchers -> Visits]
    BY <2>2, <2>3
  <2>5. monitor' \in [Dispatchers -> Threads \cup {NONE}] /\ posted' \in Seq(Dispatchers \X Symbols)
    BY <1>3 DEF Release
  <2>6. \A e \in Dispatchers : visit'[e].symbol = visit[e].symbol
    BY <2>2, <2>3
  <2>7. \A e \in Dispatchers : monitor'[e] = NONE <=> visit'[e].symbol = NONE
    BY <1>3, <2>6 DEF Release
  <2> QED
    BY <1>3, <2>1, <2>4, <2>5, <2>7 DEF Release
<1>4. ASSUME NEW d \in Dispatchers, Drop(d) \/ setReceiver(d)
      PROVE  DispatchTypeOK'
  BY <1>4 DEF Drop, setReceiver, delivery
<1>5. CASE PdBaseRelease
  BY <1>5 DEF PdBaseRelease, Heard, delivery
<1>6. ASSUME NEW t \in Threads, NEW s \in Symbols, Receive(t, s)
      PROVE  DispatchTypeOK'
  <2>1. CASE Begin(t, receiver, s) /\ UNCHANGED posted
    BY <1>6, <2>1, BeginTyped DEF Receive
  <2>2. CASE posted' = Append(posted, <<receiver, s>>) /\ UNCHANGED <<registry, receiver, dropped, monitor, visit>>
    BY <1>6, <2>2 DEF Receive
  <2> QED
    BY <1>6, <2>1, <2>2 DEF Receive
<1>7. CASE RunPosted
  <2>1. posted[1] \in Dispatchers \X Symbols /\ posted' \in Seq(Dispatchers \X Symbols)
    BY <1>7 DEF RunPosted
  <2> QED
    BY <1>7, <2>1, BeginTyped DEF RunPosted
<1>8. ASSUME NEW t \in Threads, NEW d \in Dispatchers, NEW l \in Listeners,
             CallNext(t, d, l)
      PROVE  DispatchTypeOK'
  <2> DEFINE v == [visit[d] EXCEPT !.cur = l, !.todo = @ \ {l}]
  <2>1. v \in Visits /\ v.symbol = visit[d].symbol
    <3>1. visit[d] \in Visits
      OBVIOUS
    <3> QED
      BY <3>1, VisitTyped
  <2>2. visit' = [visit EXCEPT ![d] = v]
    BY <1>8 DEF CallNext
  <2> QED
    BY <1>8, <2>1, <2>2 DEF CallNext
<1>9. ASSUME NEW t \in Threads, NEW d \in Dispatchers,
             EndVisit(t, d)
      PROVE  DispatchTypeOK'
  <2>1. NoVisit \in Visits /\ NoVisit.symbol = NONE
    BY DEF NoVisit, Visit, Visits
  <2> QED
    BY <1>9, <2>1 DEF EndVisit
<1>10. CASE UNCHANGED dispatchVars
  BY <1>10 DEF dispatchVars, delivery
<1> QED
  BY <1>1, <1>2, <1>3, <1>4, <1>5, <1>6, <1>7, <1>8, <1>9, <1>10
     DEF DispatchNext, Client, Deliver, Collector, release, finalize

(* A step keeps subscriptions in line with the listeners. *)
LEMMA StepSubscribed ==
  ASSUME DispatchTypeOK, SubscribedAsHeard, [DispatchNext]_dispatchVars
  PROVE  SubscribedAsHeard'
<1> USE DispatchAssumption DEF DispatchTypeOK, SubscribedAsHeard, Heard
<1>1. ASSUME NEW t \in Threads, NEW d \in Dispatchers, NEW s \in Symbols, NEW l \in Listeners,
             addListener(t, d, s, l)
      PROVE  SubscribedAsHeard'
  BY <1>1 DEF addListener, Modify, registry, delivery
<1>2. ASSUME NEW t \in Threads, NEW d \in Dispatchers, NEW s \in Symbols, NEW l \in Listeners,
             removeListener(t, d, s, l)
      PROVE  SubscribedAsHeard'
  BY <1>2 DEF removeListener, Modify, Unsubscribe, registry, delivery
<1>3. ASSUME NEW d \in Dispatchers,
             Release(d)
      PROVE  SubscribedAsHeard'
  BY <1>3 DEF Release, Unsubscribe, registry, delivery
<1>4. ASSUME NEW d \in Dispatchers,
             Drop(d) \/ setReceiver(d)
      PROVE  SubscribedAsHeard'
  BY <1>4 DEF Drop, setReceiver, registry, delivery
<1>5. CASE PdBaseRelease
  BY <1>5 DEF PdBaseRelease, registry, delivery
<1>6. ASSUME NEW t \in Threads, NEW s \in Symbols,
             Receive(t, s)
      PROVE  SubscribedAsHeard'
  BY <1>6 DEF Receive, Begin, registry, delivery
<1>7. CASE RunPosted
  BY <1>7 DEF RunPosted, Begin, registry, delivery
<1>8. ASSUME NEW t \in Threads, NEW d \in Dispatchers, NEW l \in Listeners,
             CallNext(t, d, l)
      PROVE  SubscribedAsHeard'
  BY <1>8 DEF CallNext, registry, delivery
<1>9. ASSUME NEW t \in Threads, NEW d \in Dispatchers,
             EndVisit(t, d)
      PROVE  SubscribedAsHeard'
  BY <1>9 DEF EndVisit, Visit, NoVisit, registry, delivery
<1>10. CASE UNCHANGED dispatchVars
  BY <1>10 DEF dispatchVars, registry, delivery
<1> QED
  BY <1>1, <1>2, <1>3, <1>4, <1>5, <1>6, <1>7, <1>8, <1>9, <1>10
     DEF DispatchNext, Client, Deliver, Collector, release, finalize

(* A loop begins with the listeners that are registered. *)
LEMMA BeginRegistered ==
  ASSUME DispatchTypeOK, TodoRegistered,
         NEW t \in Threads, NEW d \in Dispatchers, NEW s \in Symbols, Begin(t, d, s)
  PROVE  TodoRegistered'
<1> USE DEF DispatchTypeOK, TodoRegistered, Begin, registry
<1>1. CASE listeners[d][s] = {}
  BY <1>1
<1>2. CASE listeners[d][s] # {}
  <2>1. visit' = [visit EXCEPT ![d] = Visit(s, listeners[d][s])] /\ listeners' = listeners
    BY <1>2
  <2> QED
    BY <2>1 DEF Visit
<1> QED
  BY <1>1, <1>2

(* A step modifies no set that a loop takes for unmodified. *)
LEMMA StepRegistered ==
  ASSUME DispatchTypeOK, TodoRegistered, [DispatchNext]_dispatchVars
  PROVE  TodoRegistered'
<1> USE DispatchAssumption DEF DispatchTypeOK, Visits, TodoRegistered
<1>1. ASSUME NEW t \in Threads, NEW d \in Dispatchers, NEW s \in Symbols, NEW l \in Listeners,
             addListener(t, d, s, l)
      PROVE  TodoRegistered'
  BY <1>1 DEF addListener, Modify, registry, delivery
<1>2. ASSUME NEW t \in Threads, NEW d \in Dispatchers, NEW s \in Symbols, NEW l \in Listeners,
             removeListener(t, d, s, l)
      PROVE  TodoRegistered'
  BY <1>2 DEF removeListener, Modify, Unsubscribe, registry, delivery
<1>3. ASSUME NEW d \in Dispatchers,
             Release(d)
      PROVE  TodoRegistered'
  BY <1>3 DEF Release, Unsubscribe, registry, delivery
<1>4. ASSUME NEW d \in Dispatchers,
             Drop(d) \/ setReceiver(d)
      PROVE  TodoRegistered'
  BY <1>4 DEF Drop, setReceiver, registry, delivery
<1>5. CASE PdBaseRelease
  BY <1>5 DEF PdBaseRelease, registry, delivery
<1>6. ASSUME NEW t \in Threads, NEW s \in Symbols,
             Receive(t, s)
      PROVE  TodoRegistered'
  <2>1. receiver \in Dispatchers
    BY <1>6 DEF Receive
  <2>2. CASE Begin(t, receiver, s)
    BY <2>1, <2>2, BeginRegistered
  <2>3. CASE UNCHANGED <<registry, receiver, dropped, monitor, visit>>
    BY <2>3 DEF registry
  <2> QED
    BY <1>6, <2>2, <2>3 DEF Receive
<1>7. CASE RunPosted
  <2>1. posted[1] \in Dispatchers \X Symbols
    BY <1>7 DEF RunPosted
  <2> QED
    BY <1>7, <2>1, BeginRegistered DEF RunPosted
<1>8. ASSUME NEW t \in Threads, NEW d \in Dispatchers, NEW l \in Listeners,
             CallNext(t, d, l)
      PROVE  TodoRegistered'
  BY <1>8 DEF CallNext, registry, delivery
<1>9. ASSUME NEW t \in Threads, NEW d \in Dispatchers,
             EndVisit(t, d)
      PROVE  TodoRegistered'
  BY <1>9 DEF EndVisit, Visit, NoVisit, registry, delivery
<1>10. CASE UNCHANGED dispatchVars
  BY <1>10 DEF dispatchVars, registry, delivery
<1> QED
  BY <1>1, <1>2, <1>3, <1>4, <1>5, <1>6, <1>7, <1>8, <1>9, <1>10
     DEF DispatchNext, Client, Deliver, Collector, release, finalize

-----------------------------------------------------------------------------
(* No dispatcher has a listener or a visit at the start. *)
LEMMA DispatchInitial == DispatchInit => DispatchInv
BY DispatchAssumption
   DEF DispatchInit, DispatchInv, DispatchTypeOK, SubscribedAsHeard, TodoRegistered,
       Visits, Visit, NoVisit, Heard

(* The invariant holds in every reachable state. *)
THEOREM DispatchInvariant == DispatchSpec => []DispatchInv
<1>1. DispatchInv /\ [DispatchNext]_dispatchVars => DispatchInv'
  BY StepTyped, StepSubscribed, StepRegistered DEF DispatchInv
<1> QED
  BY DispatchInitial, <1>1, PTL DEF DispatchSpec

(* Every reachable state is well typed, and a dispatcher's monitor is held
   across callbacks exactly while a loop over its listeners is on. *)
THEOREM DispatchTypeCorrect == DispatchSpec => []DispatchTypeOK
BY DispatchInvariant, PTL DEF DispatchInv

(* PdDispatcher subscribes and unsubscribes in step with its listeners, from
   any thread, any nesting of callbacks, and from the finalizer. *)
THEOREM SubscriptionsFollow == DispatchSpec => []SubscribedAsHeard
BY DispatchInvariant, PTL DEF DispatchInv

(* No loop of receiveBang and its kind calls a listener that has been removed,
   unless a callback released the whole dispatcher. *)
THEOREM RemovedIsSilent == DispatchSpec => NoCallAfterRemoval
<1> DEFINE Safe(d) == visit'[d].todo # visit[d].todo /\ visit'[d].cur # NONE =>
                        visit'[d].cur \in listeners[d][visit[d].symbol] \/ visit[d].cleared
<1>1. DispatchInv /\ [DispatchNext]_dispatchVars => [\A d \in Dispatchers : Safe(d)]_dispatchVars
  <2> SUFFICES ASSUME DispatchInv, DispatchNext, NEW e \in Dispatchers
               PROVE  Safe(e)
    OBVIOUS
  <2> USE DispatchAssumption DEF DispatchInv, DispatchTypeOK, Visits, TodoRegistered
  <2>1. ASSUME NEW t \in Threads, NEW d \in Dispatchers, NEW l \in Listeners, CallNext(t, d, l)
        PROVE  Safe(e)
    <3>1. visit[d].symbol # NONE /\ (visit[d].cleared \/ l \in listeners[d][visit[d].symbol])
      BY <2>1 DEF CallNext
    <3>2. CASE e = d
      BY <2>1, <3>1, <3>2 DEF CallNext
    <3>3. CASE e # d
      BY <2>1, <3>3 DEF CallNext
    <3> QED
      BY <3>2, <3>3
  <2>2. ASSUME NEW t \in Threads, NEW d \in Dispatchers, EndVisit(t, d)
        PROVE  Safe(e)
    BY <2>2 DEF EndVisit, NoVisit, Visit
  <2>3. ASSUME NEW t \in Threads, NEW d \in Dispatchers, NEW s \in Symbols, Begin(t, d, s)
        PROVE  Safe(e)
    BY <2>3 DEF Begin, Visit
  <2>4. ASSUME NEW t \in Threads, NEW d \in Dispatchers, NEW s \in Symbols, NEW l \in Listeners,
               addListener(t, d, s, l) \/ removeListener(t, d, s, l)
        PROVE  Safe(e)
    BY <2>4 DEF addListener, removeListener, Modify
  <2>5. ASSUME NEW d \in Dispatchers, Release(d)
        PROVE  Safe(e)
    BY <2>5 DEF Release
  <2>6. ASSUME UNCHANGED visit
        PROVE  Safe(e)
    BY <2>6
  <2>7. ASSUME NEW t \in Threads, NEW s \in Symbols, Receive(t, s)
        PROVE  Safe(e)
    BY <2>3, <2>6, <2>7 DEF Receive
  <2>8. CASE RunPosted
    <3>1. posted[1] \in Dispatchers \X Symbols
      BY <2>8 DEF RunPosted
    <3> QED
      BY <2>3, <2>8, <3>1 DEF RunPosted
  <2>9. CASE PdBaseRelease \/ \E d \in Dispatchers : Drop(d) \/ setReceiver(d)
    BY <2>6, <2>9 DEF PdBaseRelease, Drop, setReceiver, delivery
  <2> QED
    BY <2>1, <2>2, <2>4, <2>5, <2>7, <2>8, <2>9
       DEF DispatchNext, Client, Deliver, Collector, release, finalize
<1> QED
  BY DispatchInvariant, <1>1, PTL DEF DispatchSpec, NoCallAfterRemoval

-----------------------------------------------------------------------------

(***************************************************************************)
(* SpscRing, for every size and every stream: the type invariant and the   *)
(* three safety invariants, from one inductive invariant, and the          *)
(* implementation of ByteFifo.                                             *)
(***************************************************************************)

USE SizeAssumption, MaxBytesAssumption DEF Idle, writer, reader

(* The two uses of the remainder in ringbuffer.c only ever wrap once. *)
LEMMA ModOnce ==
  ASSUME NEW x \in 0..(2 * Size - 1)
  PROVE  /\ x < Size => x % Size = x
         /\ ~(x < Size) => x % Size = x - Size
<1>1. CASE x < Size
  BY <1>1, SMT
<1>2. CASE x >= Size
  BY <1>2, SMT
<1>3. QED
  BY <1>1, <1>2

(* What the two room computations return, without the remainder. *)
LEMMA RoomToRead ==
  ASSUME write_idx \in 0..Size-1, read_idx \in 0..Size-1
  PROVE  rb_available_to_read = IF write_idx >= read_idx THEN write_idx - read_idx
                                ELSE write_idx - read_idx + Size
<1>1. Size + write_idx - read_idx \in 0..(2 * Size - 1)
  OBVIOUS
<1>2. QED
  BY <1>1, ModOnce DEF rb_available_to_read

(* What may be written is what the unread bytes leave, less one slot. *)
LEMMA RoomToWrite ==
  ASSUME write_idx \in 0..Size-1, read_idx \in 0..Size-1
  PROVE  rb_available_to_write = Size - 1 - rb_available_to_read
<1>1. Size + read_idx - write_idx - 1 \in 0..(2 * Size - 1)
  OBVIOUS
<1> DEFINE x == Size + read_idx - write_idx - 1
<1>2. (x < Size => x % Size = x) /\ (~(x < Size) => x % Size = x - Size)
  BY <1>1, ModOnce, Zenon
<1>3. QED
  BY <1>2, RoomToRead DEF rb_available_to_write

-----------------------------------------------------------------------------

(* Each call in progress fits the room there was when it began, and the room
   has only grown since: the reader gives slots back and the writer adds
   bytes, never the other way round. *)
CallsFit ==
  /\ w_len <= Size - 1 - (sent - rcvd)
  /\ r_len <= sent - rcvd

(* The unread bytes lie in the slots that follow read_idx, and so do the
   bytes the writer has copied but not yet published. *)
Contents ==
  \A i \in 0..(sent - rcvd + w_done - 1) : buf[Slot(read_idx, i)] = rcvd + i + 1

(* The inductive invariant. *)
IInv == TypeOK /\ FillFromIndices /\ CallsFit /\ Contents /\ ReadsInOrder

(* The empty buffer satisfies the invariant. *)
THEOREM InitIInv == Init => IInv
<1> SUFFICES ASSUME Init PROVE IInv
  OBVIOUS
<1> USE DEF Init, rb_create
<1>1. TypeOK
  BY DEF TypeOK
<1>2. rb_available_to_read = 0
  BY RoomToRead
<1>3. QED
  BY <1>1, <1>2 DEF IInv, FillFromIndices, CallsFit, Contents, ReadsInOrder

(* A step that leaves the indices and the counts alone leaves the fill as
   it was. *)
LEMMA WriteRefusedKeeps ==
  ASSUME IInv, NEW n \in 1..Size, WriteRefused(n) \/ ReadRefused(n)
  PROVE  IInv'
<1> USE DEF WriteRefused, ReadRefused
<1>1. TypeOK'
  BY DEF IInv, TypeOK
<1>2. QED
  BY <1>1 DEF IInv, FillFromIndices, CallsFit, Contents, ReadsInOrder,
              rb_available_to_read, Slot

(* The check of a write: the call fits. *)
LEMMA WriteBeginKeeps ==
  ASSUME IInv, NEW n \in 1..Size, WriteBegin(n)
  PROVE  IInv'
<1> USE DEF WriteBegin
<1>1. TypeOK'
  BY DEF IInv, TypeOK
<1>2. n <= Size - 1 - (sent - rcvd)
  BY RoomToWrite DEF IInv, TypeOK, FillFromIndices
<1>3. CallsFit'
  BY <1>2 DEF IInv, CallsFit
<1>4. w_done = 0
  BY DEF IInv, TypeOK
<1>5. QED
  BY <1>1, <1>3, <1>4 DEF IInv, FillFromIndices, Contents, ReadsInOrder,
              rb_available_to_read, Slot

(* One byte copied in: behind the unread ones, over none of them. *)
LEMMA WriteByteKeeps ==
  ASSUME IInv, WriteByte
  PROVE  IInv'
<1> USE DEF WriteByte
<1>1. /\ Slot(write_idx, w_done) \in 0..Size-1
      /\ sent + w_done + 1 \in Nat
  BY DEF IInv, TypeOK, Slot
<1>2. TypeOK'
  BY <1>1 DEF IInv, TypeOK
<1>3. /\ rcvd <= sent
      /\ sent - rcvd = IF write_idx >= read_idx THEN write_idx - read_idx
                       ELSE write_idx - read_idx + Size
  BY RoomToRead DEF IInv, TypeOK, FillFromIndices
<1>4. sent - rcvd + w_done <= Size - 2
  BY <1>3 DEF IInv, TypeOK, CallsFit
<1>5. Slot(write_idx, w_done) = Slot(read_idx, sent - rcvd + w_done)
  BY <1>3, <1>4 DEF IInv, TypeOK, Slot
<1>6. ASSUME NEW i \in 0..(sent - rcvd + w_done - 1)
      PROVE  /\ Slot(read_idx, i) \in 0..Size-1
             /\ Slot(read_idx, i) # Slot(write_idx, w_done)
  BY <1>3, <1>4, <1>5 DEF IInv, TypeOK, Slot
<1>7. Contents'
  <2> SUFFICES ASSUME NEW i \in 0..(sent - rcvd + w_done)
               PROVE  buf'[Slot(read_idx, i)] = rcvd + i + 1
    BY DEF Contents, Slot, IInv, TypeOK
  <2>1. CASE i = sent - rcvd + w_done
    BY <2>1, <1>1, <1>3, <1>5 DEF IInv, TypeOK
  <2>2. CASE i # sent - rcvd + w_done
    BY <2>2, <1>3, <1>6 DEF IInv, TypeOK, Contents
  <2>3. QED
    BY <2>1, <2>2
<1>8. QED
  BY <1>2, <1>7 DEF IInv, TypeOK, FillFromIndices, CallsFit, ReadsInOrder, rb_available_to_read

(* The new write_idx turns the copied bytes into unread ones. *)
LEMMA WritePublishKeeps ==
  ASSUME IInv, WritePublish
  PROVE  IInv'
<1> USE DEF WritePublish
<1>1. (write_idx + w_len) % Size = IF write_idx + w_len < Size THEN write_idx + w_len
                                   ELSE write_idx + w_len - Size
  <2>0. write_idx \in 0..Size-1 /\ w_len \in 0..Size
    BY DEF IInv, TypeOK
  <2>1. write_idx + w_len \in 0..(2 * Size - 1)
    BY <2>0
  <2> DEFINE x == write_idx + w_len
  <2>2. (x < Size => x % Size = x) /\ (~(x < Size) => x % Size = x - Size)
    BY <2>1, ModOnce, Zenon
  <2>3. QED
    BY <2>0, <2>2
<1>2. TypeOK'
  BY <1>1 DEF IInv, TypeOK
<1>3. /\ rcvd <= sent
      /\ sent - rcvd = IF write_idx >= read_idx THEN write_idx - read_idx
                       ELSE write_idx - read_idx + Size
  BY RoomToRead DEF IInv, TypeOK, FillFromIndices
<1>4. sent - rcvd + w_len <= Size - 1
  BY <1>3 DEF IInv, TypeOK, CallsFit
<1>5. (rb_available_to_read)' = IF write_idx' >= read_idx' THEN write_idx' - read_idx'
                                ELSE write_idx' - read_idx' + Size
  <2>0. write_idx' \in 0..Size-1 /\ read_idx' \in 0..Size-1
    BY <1>2 DEF TypeOK
  <2>1. Size + write_idx' - read_idx' \in 0..(2 * Size - 1)
    BY <2>0
  <2> DEFINE x == Size + write_idx' - read_idx'
  <2>2. (x < Size => x % Size = x) /\ (~(x < Size) => x % Size = x - Size)
    BY <2>1, ModOnce, Zenon
  <2>3. QED
    BY <2>0, <2>2 DEF rb_available_to_read
<1>6. FillFromIndices'
  <2>1. /\ w_len \in 1..Size /\ sent \in Nat /\ rcvd \in Nat
        /\ write_idx \in 0..Size-1 /\ read_idx \in 0..Size-1
    BY DEF IInv, TypeOK
  <2>2. sent + w_len - rcvd = (rb_available_to_read)'
    BY <1>1, <1>3, <1>4, <1>5, <2>1
  <2>3. QED
    BY <1>3, <2>1, <2>2 DEF FillFromIndices
<1>7. CallsFit'
  BY <1>3, <1>4 DEF IInv, TypeOK, CallsFit
<1>8. Contents'
  BY <1>3 DEF IInv, TypeOK, Contents, Slot
<1>9. QED
  BY <1>2, <1>6, <1>7, <1>8 DEF IInv, ReadsInOrder

(* The check of a read: the call fits. *)
LEMMA ReadBeginKeeps ==
  ASSUME IInv, NEW n \in 1..Size, ReadBegin(n)
  PROVE  IInv'
<1> USE DEF ReadBegin
<1>1. TypeOK'
  BY DEF IInv, TypeOK
<1>2. CallsFit'
  BY DEF IInv, CallsFit, FillFromIndices
<1>3. QED
  BY <1>1, <1>2 DEF IInv, FillFromIndices, Contents, ReadsInOrder, rb_available_to_read, Slot

(* One byte copied out: the oldest that was not copied yet. *)
LEMMA ReadByteKeeps ==
  ASSUME IInv, ReadByte
  PROVE  IInv'
<1> USE DEF ReadByte
<1> DEFINE k == Len(dest)
<1>1. /\ k \in Nat
      /\ k < r_len
      /\ r_len <= Size
      /\ dest \in Seq(Nat)
  BY DEF IInv, TypeOK
<1>2. /\ Slot(read_idx, k) \in 0..Size-1
      /\ buf[Slot(read_idx, k)] \in Nat
  BY <1>1 DEF IInv, TypeOK, Slot
<1>3. buf[Slot(read_idx, k)] = rcvd + k + 1
  BY <1>1 DEF IInv, TypeOK, FillFromIndices, CallsFit, Contents
<1>5. TypeOK'
  BY <1>1, <1>2 DEF IInv, TypeOK
<1>6. ReadsInOrder'
  <2> SUFFICES ASSUME NEW i \in 1..(k + 1)
               PROVE  dest'[i] = rcvd + i
    BY <1>1, <1>2 DEF ReadsInOrder
  <2>1. CASE i = k + 1
    BY <2>1, <1>1, <1>2, <1>3 DEF IInv, TypeOK
  <2>2. CASE i \in 1..k
    BY <2>2, <1>1, <1>2 DEF IInv, ReadsInOrder
  <2>3. QED
    BY <2>1, <2>2, <1>1
<1>7. QED
  BY <1>5, <1>6 DEF IInv, FillFromIndices, CallsFit, Contents, rb_available_to_read, Slot

(* The new read_idx gives back the slots of the copied bytes. *)
LEMMA ReadPublishKeeps ==
  ASSUME IInv, ReadPublish
  PROVE  IInv'
<1> USE DEF ReadPublish
<1>1. (read_idx + r_len) % Size = Slot(read_idx, r_len)
  <2>0. read_idx \in 0..Size-1 /\ r_len \in 0..Size
    BY DEF IInv, TypeOK
  <2>1. read_idx + r_len \in 0..(2 * Size - 1)
    BY <2>0
  <2> DEFINE x == read_idx + r_len
  <2>2. (x < Size => x % Size = x) /\ (~(x < Size) => x % Size = x - Size)
    BY <2>1, ModOnce, Zenon
  <2>3. QED
    BY <2>0, <2>2 DEF Slot
<1>2. TypeOK'
  BY <1>1 DEF IInv, TypeOK, Slot
<1>3. /\ rcvd <= sent
      /\ sent - rcvd = IF write_idx >= read_idx THEN write_idx - read_idx
                       ELSE write_idx - read_idx + Size
  BY RoomToRead DEF IInv, TypeOK, FillFromIndices
<1>4. r_len <= sent - rcvd /\ w_len <= Size - 1 - (sent - rcvd)
  BY DEF IInv, CallsFit
<1>5. (rb_available_to_read)' = IF write_idx' >= read_idx' THEN write_idx' - read_idx'
                                ELSE write_idx' - read_idx' + Size
  <2>0. write_idx' \in 0..Size-1 /\ read_idx' \in 0..Size-1
    BY <1>2 DEF TypeOK
  <2>1. Size + write_idx' - read_idx' \in 0..(2 * Size - 1)
    BY <2>0
  <2> DEFINE x == Size + write_idx' - read_idx'
  <2> HIDE DEF ReadPublish
  <2>2. (x < Size => x % Size = x) /\ (~(x < Size) => x % Size = x - Size)
    BY <2>1, ModOnce, Zenon
  <2>3. QED
    BY <2>0, <2>2 DEF rb_available_to_read
<1>6. FillFromIndices'
  <2>1. /\ r_len \in 1..Size /\ sent \in Nat /\ rcvd \in Nat
        /\ write_idx \in 0..Size-1 /\ read_idx \in 0..Size-1
    BY DEF IInv, TypeOK
  <2>2. sent - (rcvd + r_len) = (rb_available_to_read)'
    BY <1>1, <1>3, <1>4, <1>5, <2>1 DEF Slot
  <2>3. QED
    BY <1>3, <1>4, <2>1, <2>2 DEF FillFromIndices
<1>7. CallsFit'
  BY <1>3, <1>4 DEF IInv, TypeOK, CallsFit
<1>8. Contents'
  <2>0. /\ r_len \in 1..Size /\ sent \in Nat /\ rcvd \in Nat /\ w_done \in Nat
        /\ w_done <= w_len /\ w_len \in Nat /\ read_idx \in 0..Size-1
    BY DEF IInv, TypeOK
  <2> SUFFICES ASSUME NEW i \in 0..(sent - (rcvd + r_len) + w_done - 1)
               PROVE  buf[Slot(read_idx', i)] = (rcvd + r_len) + i + 1
    BY DEF Contents, Slot
  <2>1. Slot(read_idx', i) = Slot(read_idx, r_len + i)
    BY <1>1, <1>3, <1>4, <2>0 DEF Slot
  <2>2. buf[Slot(read_idx, r_len + i)] = rcvd + (r_len + i) + 1
    BY <1>3, <1>4 DEF IInv, TypeOK, Contents
  <2>3. QED
    BY <2>1, <2>2 DEF IInv, TypeOK
<1>9. ReadsInOrder'
  BY DEF ReadsInOrder
<1>10. QED
  BY <1>2, <1>6, <1>7, <1>8, <1>9 DEF IInv

(* Every step of either thread keeps the invariant. *)
THEOREM NextIInv == IInv /\ [Next]_vars => IInv'
<1> SUFFICES ASSUME IInv, [Next]_vars PROVE IInv'
  OBVIOUS
<1>1. ASSUME NEW n \in 1..Size, WriteRefused(n) \/ ReadRefused(n) PROVE IInv'
  BY <1>1, WriteRefusedKeeps
<1>2. ASSUME NEW n \in 1..Size, WriteBegin(n) PROVE IInv'
  BY <1>2, WriteBeginKeeps
<1>3. CASE WriteByte
  BY <1>3, WriteByteKeeps
<1>4. CASE WritePublish
  BY <1>4, WritePublishKeeps
<1>5. ASSUME NEW n \in 1..Size, ReadBegin(n) PROVE IInv'
  BY <1>5, ReadBeginKeeps
<1>6. CASE ReadByte
  BY <1>6, ReadByteKeeps
<1>7. CASE ReadPublish
  BY <1>7, ReadPublishKeeps
<1>8. CASE UNCHANGED vars
  BY <1>8 DEF vars, IInv, TypeOK, FillFromIndices, CallsFit, Contents, ReadsInOrder,
              rb_available_to_read, Slot
<1>9. QED
  BY <1>1, <1>2, <1>3, <1>4, <1>5, <1>6, <1>7, <1>8 DEF Next, Writer, Reader

(* The inductive invariant keeps the two threads apart: the reader's slots
   are unread bytes, the writer's are beyond them. *)
THEOREM IInvSeparates == IInv => NoSharedSlot
<1> SUFFICES ASSUME IInv,
                    NEW i \in w_done..(w_len - 1),
                    NEW j \in Len(dest)..(r_len - 1)
             PROVE  Slot(write_idx, i) # Slot(read_idx, j)
  BY DEF NoSharedSlot, WriterSlots, ReaderSlots
<1>1. /\ rcvd <= sent
      /\ sent - rcvd = IF write_idx >= read_idx THEN write_idx - read_idx
                       ELSE write_idx - read_idx + Size
  BY RoomToRead DEF IInv, TypeOK, FillFromIndices
<1>2. /\ i \in Nat /\ i < w_len
      /\ j \in Nat /\ j < r_len
  <2>1. w_len \in Int /\ w_done \in Nat /\ r_len \in Int /\ Len(dest) \in Nat
    BY DEF IInv, TypeOK
  <2>2. QED
    BY <2>1
<1>3. /\ w_len \in 0..Size /\ r_len \in 0..Size
      /\ write_idx \in 0..Size-1 /\ read_idx \in 0..Size-1
      /\ sent \in Nat /\ rcvd \in Nat
      /\ w_len <= Size - 1 - (sent - rcvd) /\ r_len <= sent - rcvd
  BY DEF IInv, TypeOK, CallsFit
<1>4. QED
  BY <1>1, <1>2, <1>3 DEF Slot

(* Every reachable state satisfies the inductive invariant. *)
THEOREM Invariance == Spec => []IInv
  BY InitIInv, NextIInv, PTL DEF Spec

(* Both indices and every copy stay inside the buffer, for every size. *)
THEOREM TypeCorrect == Spec => []TypeOK
<1>1. IInv => TypeOK
  BY DEF IInv
<1>2. QED
  BY <1>1, Invariance, PTL

(* The two memcpy calls never touch one slot at the same time. *)
THEOREM RaceFree == Spec => []NoSharedSlot
  BY IInvSeparates, Invariance, PTL

(* The reader's copy is the next bytes of the stream, for every size. *)
THEOREM InOrder == Spec => []ReadsInOrder
<1>1. IInv => ReadsInOrder
  BY DEF IInv
<1>2. QED
  BY <1>1, Invariance, PTL

(* The indices alone tell how many bytes are unread, full and empty apart. *)
THEOREM FillKnown == Spec => []FillFromIndices
<1>1. IInv => FillFromIndices
  BY DEF IInv
<1>2. QED
  BY <1>1, Invariance, PTL

-----------------------------------------------------------------------------
(* Implementation of ByteFifo. Both the unread bytes and a finished copy   *)
(* are ramps: consecutive positions of the writer's stream.                *)

Ramp(a, n) == [i \in 1..n |-> a + i]

(* A ramp is a sequence of numbers of the given length. *)
LEMMA RampSeq ==
  ASSUME NEW a \in Nat, NEW n \in Nat
  PROVE  Ramp(a, n) \in Seq(Nat) /\ Len(Ramp(a, n)) = n
  BY DEF Ramp

(* Two ramps, one beginning where the other ends, make one. *)
LEMMA RampConcat ==
  ASSUME NEW a \in Nat, NEW n \in Nat, NEW m \in Nat
  PROVE  Ramp(a, n) \o Ramp(a + n, m) = Ramp(a, n + m)
<1> DEFINE s == Ramp(a, n)
           t == Ramp(a + n, m)
           u == Ramp(a, n + m)
<1>1. /\ s \in Seq(Nat) /\ Len(s) = n
      /\ t \in Seq(Nat) /\ Len(t) = m
      /\ u \in Seq(Nat) /\ Len(u) = n + m
  <2>1. a + n \in Nat /\ n + m \in Nat
    OBVIOUS
  <2>2. QED
    BY <2>1, RampSeq, Zenon
<1>2. /\ s \o t \in Seq(Nat)
      /\ Len(s \o t) = n + m
      /\ \A i \in 1..(n + m) : (s \o t)[i] = IF i <= n THEN s[i] ELSE t[i - n]
  <2> HIDE DEF s, t, u
  <2>1. QED
    BY <1>1, ConcatProperties
<1>3. ASSUME NEW i \in 1..(n + m) PROVE (s \o t)[i] = u[i]
  <2>1. u[i] = a + i
    BY DEF Ramp
  <2>2. CASE i <= n
    <3>1. s[i] = a + i
      BY <2>2 DEF Ramp
    <3> HIDE DEF s, t, u
    <3>2. QED
      BY <1>2, <2>1, <2>2, <3>1
  <2>3. CASE i > n
    <3>1. t[i - n] = a + i
      <4>1. i - n \in 1..m /\ a + n + (i - n) = a + i
        BY <2>3
      <4>2. QED
        BY <4>1 DEF Ramp
    <3> HIDE DEF s, t, u
    <3>2. ~(i <= n)
      BY <2>3
    <3>3. (s \o t)[i] = t[i - n]
      BY <1>2, <3>2
    <3>4. QED
      BY <2>1, <3>1, <3>3
  <2>4. i <= n \/ i > n
    OBVIOUS
  <2> HIDE DEF s, t, u
  <2>5. QED
    BY <2>2, <2>3, <2>4, Zenon
<1> HIDE DEF s, t, u
<1>4. s \o t = u
  BY <1>1, <1>2, <1>3, SeqEqual
<1>5. QED
  BY <1>4 DEF s, t, u

(* The first bytes of a ramp and the rest of it are ramps. *)
LEMMA RampSplit ==
  ASSUME NEW a \in Nat, NEW n \in Nat, NEW k \in 1..n
  PROVE  /\ SubSeq(Ramp(a, n), 1, k) = Ramp(a, k)
         /\ SubSeq(Ramp(a, n), k + 1, n) = Ramp(a + k, n - k)
<1> DEFINE s == Ramp(a, n)
           t == Ramp(a, k)
           u == Ramp(a + k, n - k)
<1>1. /\ s \in Seq(Nat) /\ Len(s) = n
      /\ t \in Seq(Nat) /\ Len(t) = k
      /\ u \in Seq(Nat) /\ Len(u) = n - k
  <2>1. k \in Nat /\ a + k \in Nat /\ n - k \in Nat
    OBVIOUS
  <2>2. QED
    BY <2>1, RampSeq, Zenon
<1>2. /\ \A i \in 1..n : s[i] = a + i
      /\ \A i \in 1..k : t[i] = a + i
      /\ \A i \in 1..(n - k) : u[i] = a + k + i
  BY DEF Ramp
<1> HIDE DEF s, t, u
<1>3. /\ SubSeq(s, 1, k) \in Seq(Nat)
      /\ Len(SubSeq(s, 1, k)) = k
      /\ \A i \in 1..k : SubSeq(s, 1, k)[i] = a + i
  <2>1. \A i \in 1..k : s[i] \in Nat
    BY <1>2
  <2>2. QED
    BY <2>1, <1>2, SubSeqProperties
<1>4. SubSeq(s, 1, k) = t
  BY <1>1, <1>2, <1>3, SeqEqual
<1>5. /\ SubSeq(s, k + 1, n) \in Seq(Nat)
      /\ Len(SubSeq(s, k + 1, n)) = n - k
      /\ \A i \in 1..(n - k) : SubSeq(s, k + 1, n)[i] = a + k + i
  <2>1. \A i \in (k + 1)..n : s[i] \in Nat
    BY <1>2
  <2>2. /\ SubSeq(s, k + 1, n) \in Seq(Nat)
        /\ Len(SubSeq(s, k + 1, n)) = IF k + 1 <= n THEN n - (k + 1) + 1 ELSE 0
        /\ \A i \in 1..(n - (k + 1) + 1) : SubSeq(s, k + 1, n)[i] = s[k + 1 + i - 1]
    BY <2>1, SubSeqProperties
  <2>3. QED
    BY <2>2, <1>2
<1>6. SubSeq(s, k + 1, n) = u
  BY <1>1, <1>2, <1>5, SeqEqual
<1>7. QED
  BY <1>4, <1>6 DEF s, t, u

(* The unread bytes are the numbers that were sent and not received. *)
LEMMA UnreadIsRamp == IInv => Unread = Ramp(rcvd, sent - rcvd)
<1> SUFFICES ASSUME IInv PROVE Unread = Ramp(rcvd, sent - rcvd)
  OBVIOUS
<1>1. /\ sent - rcvd = rb_available_to_read
      /\ sent \in Nat /\ rcvd \in Nat /\ rcvd <= sent /\ w_done \in Nat
  BY DEF IInv, TypeOK, FillFromIndices
<1>2. ASSUME NEW i \in 1..(sent - rcvd)
      PROVE  buf[Slot(read_idx, i - 1)] = rcvd + i
  BY <1>1 DEF IInv, Contents
<1>3. QED
  BY <1>1, <1>2 DEF Unread, Ramp

(* So they are after a step. *)
LEMMA UnreadIsRampNext == IInv' => Unread' = Ramp(rcvd', sent' - rcvd')
<1>1. (IInv => Unread = Ramp(rcvd, sent - rcvd))'
  BY UnreadIsRamp, PTL
<1>2. QED
  BY <1>1

(* The initial state maps to the empty queue. *)
LEMMA InitRefines == Init => Fifo!Init
<1> SUFFICES ASSUME Init PROVE Unread = <<>>
  BY DEF Init, Fifo!Init
<1>1. IInv /\ sent = 0 /\ rcvd = 0
  BY InitIInv DEF Init
<1>2. Unread = Ramp(0, 0)
  BY <1>1, UnreadIsRamp
<1>3. Ramp(0, 0) \in Seq(Nat) /\ Len(Ramp(0, 0)) = 0
  BY RampSeq
<1>4. QED
  BY <1>2, <1>3, EmptySeq

(* WritePublish is Put: the bytes copied become unread bytes at once. *)
LEMMA WritePublishRefines ==
  ASSUME IInv, IInv', WritePublish
  PROVE  Fifo!Next
<1>1. /\ sent \in Nat /\ rcvd \in Nat /\ rcvd <= sent
      /\ w_len \in 1..Size /\ w_len <= Size - 1 - (sent - rcvd)
      /\ sent' = sent + w_len /\ rcvd' = rcvd /\ got' = got
  BY DEF IInv, TypeOK, FillFromIndices, CallsFit, WritePublish
<1>2. /\ Unread = Ramp(rcvd, sent - rcvd)
      /\ Unread' = Ramp(rcvd, sent + w_len - rcvd)
  BY <1>1, UnreadIsRamp, UnreadIsRampNext
<1>3. Len(Unread) + w_len <= Size - 1
  <2>1. Len(Unread) = sent - rcvd
    BY <1>1, <1>2, RampSeq
  <2>2. QED
    BY <1>1, <2>1
<1>4. Unread' = Unread \o [i \in 1..w_len |-> sent + i]
  <2>1. /\ rcvd + (sent - rcvd) = sent
        /\ (sent - rcvd) + w_len = sent + w_len - rcvd
        /\ sent - rcvd \in Nat /\ w_len \in Nat
    BY <1>1
  <2>2. Ramp(rcvd, sent - rcvd) \o Ramp(rcvd + (sent - rcvd), w_len)
          = Ramp(rcvd, (sent - rcvd) + w_len)
    BY <1>1, <2>1, RampConcat, Zenon
  <2>3. Ramp(rcvd, sent - rcvd) \o Ramp(sent, w_len) = Ramp(rcvd, sent + w_len - rcvd)
    BY <2>1, <2>2, Zenon
  <2>4. QED
    BY <1>2, <2>3, Zenon DEF Ramp
<1>5. w_len \in 1..(Size - 1)
  BY <1>1
<1>6. Fifo!Put(w_len)
  BY <1>1, <1>3, <1>4 DEF Fifo!Put
<1>7. QED
  BY <1>5, <1>6 DEF Fifo!Next

(* ReadPublish is Get: the copy handed over is the oldest unread bytes. *)
LEMMA ReadPublishRefines ==
  ASSUME IInv, IInv', ReadPublish
  PROVE  Fifo!Next
<1>1. /\ sent \in Nat /\ rcvd \in Nat /\ rcvd <= sent
      /\ r_len \in 1..Size /\ r_len <= sent - rcvd /\ sent - rcvd <= Size - 1
      /\ sent' = sent /\ rcvd' = rcvd + r_len /\ got' = dest
  <2>0. /\ write_idx \in 0..Size-1 /\ read_idx \in 0..Size-1
        /\ sent - rcvd = rb_available_to_read
    BY DEF IInv, TypeOK, FillFromIndices
  <2>1. sent - rcvd <= Size - 1
    BY <2>0, RoomToRead
  <2>2. QED
    BY <2>1 DEF IInv, TypeOK, FillFromIndices, CallsFit, ReadPublish
<1>2. /\ Unread = Ramp(rcvd, sent - rcvd)
      /\ Unread' = Ramp(rcvd + r_len, sent - (rcvd + r_len))
  BY <1>1, UnreadIsRamp, UnreadIsRampNext
<1>3. Len(Unread) = sent - rcvd
  <2>1. sent - rcvd \in Nat
    BY <1>1
  <2>2. QED
    BY <1>1, <1>2, <2>1, RampSeq, Zenon
<1>4. dest = Ramp(rcvd, r_len)
  <2>1. dest \in Seq(Nat) /\ Len(dest) = r_len
    BY DEF IInv, TypeOK, ReadPublish
  <2>2. \A i \in 1..r_len : dest[i] = rcvd + i
    BY <2>1 DEF IInv, ReadsInOrder
  <2>3. /\ Ramp(rcvd, r_len) \in Seq(Nat) /\ Len(Ramp(rcvd, r_len)) = r_len
        /\ \A i \in 1..r_len : Ramp(rcvd, r_len)[i] = rcvd + i
    BY <1>1, RampSeq DEF Ramp
  <2>4. QED
    BY <2>1, <2>2, <2>3, SeqEqual
<1>5. /\ SubSeq(Unread, 1, r_len) = Ramp(rcvd, r_len)
      /\ SubSeq(Unread, r_len + 1, sent - rcvd) = Ramp(rcvd + r_len, (sent - rcvd) - r_len)
  <2>1. sent - rcvd \in Nat /\ r_len \in 1..(sent - rcvd)
    BY <1>1
  <2>2. QED
    BY <1>1, <1>2, <2>1, RampSplit, Zenon
<1>6. (sent - rcvd) - r_len = sent - (rcvd + r_len)
  BY <1>1
<1>7. /\ r_len \in 1..(Size - 1)
      /\ Fifo!Get(r_len)
  BY <1>1, <1>2, <1>3, <1>4, <1>5, <1>6 DEF Fifo!Get
<1>8. QED
  BY <1>7 DEF Fifo!Next

(* Every other step changes nothing the queue shows. *)
LEMMA StepRefines == IInv /\ IInv' /\ [Next]_vars => [Fifo!Next]_(Fifo!vars)
<1> SUFFICES ASSUME IInv, IInv', [Next]_vars
             PROVE  [Fifo!Next]_(Fifo!vars)
  OBVIOUS
<1>1. CASE WritePublish
  BY <1>1, WritePublishRefines
<1>2. CASE ReadPublish
  BY <1>2, ReadPublishRefines
<1>3. CASE ~WritePublish /\ ~ReadPublish
  <2>1. sent' = sent /\ rcvd' = rcvd /\ got' = got
    BY <1>3 DEF Next, Writer, Reader, WriteRefused, WriteBegin, WriteByte, ReadRefused,
                ReadBegin, ReadByte, vars
  <2>2. Unread' = Unread
    BY <2>1, UnreadIsRamp, UnreadIsRampNext
  <2>3. QED
    BY <2>1, <2>2 DEF Fifo!vars
<1>4. QED
  BY <1>1, <1>2, <1>3

(* The ring buffer of every size implements the bounded byte queue. *)
THEOREM Refinement == Spec => RefinesFifo
<1>1. Spec => []IInv
  BY Invariance
<1>2. QED
  BY <1>1, InitRefines, StepRefines, PTL DEF Spec, RefinesFifo, Fifo!Spec
=============================================================================
