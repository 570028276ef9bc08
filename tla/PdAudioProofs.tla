---------------------------- MODULE PdAudioProofs ----------------------------
(***************************************************************************)
(* Proofs about PdAudio for every bound on the looper's queue: the poller  *)
(* and the flush are where they have to be, through any sequence of calls  *)
(* from any thread.                                                        *)
(*                                                                         *)
(* The three safety invariants are inductive together: that nothing the    *)
(* audio callback emits is left behind rests on audio being polled while   *)
(* it runs.  The type invariant needs one more fact, PollersFit.           *)
(***************************************************************************)
EXTENDS PdAudio, TLAPS

USE MaxPostedAssumption

(* An instance of pollRunner that reposts itself needs a place in the queue:
   the one that runs counts. *)
PollersFit == Pollers <= MaxPosted + 1

IInv == TypeOK /\ PollersFit /\ PolledWhileRunning /\ OnePoller /\ FlushedAfterStop

-----------------------------------------------------------------------------

(* Silent and closed, the device satisfies the invariant. *)
LEMMA InitIInv == Init => IInv
<1> SUFFICES ASSUME Init PROVE IInv
  OBVIOUS
<1> USE DEF Init
<1>0. 0 \in 0..(MaxPosted + 1) /\ 0 \in 0..MaxPosted
  OBVIOUS
<1>1. TypeOK
  BY <1>0, Zenon DEF TypeOK
<1>2. Pollers = 0
  BY DEF Pollers
<1>3. PollersFit /\ PolledWhileRunning /\ OnePoller
  BY <1>2 DEF PollersFit, PolledWhileRunning, OnePoller
<1>4. FlushedAfterStop
  BY Zenon DEF FlushedAfterStop
<1>5. QED
  BY <1>1, <1>3, <1>4 DEF IInv

(* The effect of stopAudio, shared by initAudio, stopAudio and release. *)
LEMMA StoppedKeeps ==
  ASSUME IInv, Stopped, open' \in BOOLEAN, UNCHANGED <<dsp, main, unread, late, twice>>
  PROVE  IInv'
<1> USE DEF IInv
<1>1. /\ running' = FALSE /\ polls' = 0 /\ started' = FALSE
      /\ flushes' \in 1..MaxPosted
  BY DEF Stopped, TypeOK
<1>2. overlap' \in BOOLEAN /\ (main = "poll" => overlap')
  BY Zenon DEF Stopped, TypeOK
<1>3. TypeOK'
  <2>1. polls' \in 0..(MaxPosted + 1) /\ flushes' \in 0..MaxPosted
    BY <1>1
  <2>2. QED
    BY <1>1, <1>2, <2>1, Zenon DEF TypeOK
<1>4. Pollers' \in {0, 1} /\ (~overlap' => Pollers' = 0)
  BY <1>1, <1>2 DEF Pollers
<1>5. PollersFit' /\ PolledWhileRunning' /\ FlushedAfterStop'
  BY <1>1, <1>4 DEF PollersFit, PolledWhileRunning, FlushedAfterStop
<1>6. OnePoller'
  BY <1>1, <1>4 DEF OnePoller
<1>7. QED
  BY <1>3, <1>5, <1>6

(* A start posts a poller where none is. *)
LEMMA StartKeeps == IInv /\ StartAudio => IInv'
<1> SUFFICES ASSUME IInv, StartAudio PROVE IInv'
  OBVIOUS
<1> USE DEF IInv
<1>1. /\ polls \in Nat /\ polls < MaxPosted /\ polls' = polls + 1
      /\ dsp' = TRUE /\ running' = open /\ started' = TRUE
      /\ UNCHANGED <<open, flushes, main, unread, late, overlap>>
  BY DEF StartAudio, TypeOK
<1>2. twice' \in BOOLEAN /\ (~twice' => ~(Pollers > 0))
  BY Zenon DEF StartAudio, TypeOK
<1>3. TypeOK'
  BY <1>1, <1>2 DEF TypeOK
<1>4. Pollers \in Nat /\ Pollers' = Pollers + 1 /\ Pollers' <= MaxPosted + 1
  BY <1>1 DEF Pollers
<1>5. PollersFit' /\ PolledWhileRunning' /\ FlushedAfterStop'
  BY <1>4 DEF PollersFit, PolledWhileRunning, FlushedAfterStop
<1>6. OnePoller'
  BY <1>1, <1>2, <1>4 DEF OnePoller
<1>7. QED
  BY <1>3, <1>5, <1>6

(* The looper moves the one instance between the queue and the thread. *)
LEMMA LooperKeeps == IInv /\ Looper => IInv'
<1> SUFFICES ASSUME IInv, Looper PROVE IInv'
  OBVIOUS
<1> USE DEF IInv
<1>1. /\ polls \in Nat /\ flushes \in Nat
      /\ UNCHANGED <<open, running, dsp, started, twice, overlap>>
  BY DEF Looper, RunPoll, EndPoll, RunFlush, EndFlush, TypeOK
<1>2. \/ Pollers' = Pollers /\ flushes' = flushes /\ UNCHANGED <<unread, late>>
      \/ Pollers' = Pollers /\ unread' = FALSE /\ late' = FALSE
  BY <1>1 DEF Looper, RunPoll, EndPoll, RunFlush, EndFlush, Pollers
<1>3. polls' \in 0..(MaxPosted + 1) /\ flushes' \in 0..MaxPosted /\ main' \in {"other", "poll", "flush"}
  BY DEF Looper, RunPoll, EndPoll, RunFlush, EndFlush, TypeOK, PollersFit, Pollers
<1>4. unread' \in BOOLEAN /\ late' \in BOOLEAN
  BY <1>2 DEF TypeOK
<1>5. TypeOK'
  BY <1>1, <1>3, <1>4 DEF TypeOK
<1>6. PollersFit' /\ PolledWhileRunning' /\ OnePoller'
  BY <1>1, <1>2 DEF PollersFit, PolledWhileRunning, OnePoller
<1>7. FlushedAfterStop'
  BY <1>2, Zenon DEF FlushedAfterStop
<1>8. QED
  BY <1>5, <1>6, <1>7

(* Emit can only run while somebody polls; Send keeps the record of what
   came too late. *)
LEMMA MessagesKeep == IInv /\ (Emit \/ Send) => IInv'
<1> SUFFICES ASSUME IInv, Emit \/ Send PROVE IInv'
  OBVIOUS
<1> USE DEF IInv
<1>1. /\ UNCHANGED <<open, running, dsp, polls, flushes, main, started, twice, overlap>>
      /\ unread' = TRUE
  BY DEF Emit, Send
<1>2. Pollers' = Pollers
  BY <1>1 DEF Pollers
<1>3. late' \in BOOLEAN
  BY Zenon DEF Emit, Send, TypeOK
<1>4. TypeOK'
  BY <1>1, <1>3 DEF TypeOK
<1>5. PollersFit' /\ PolledWhileRunning' /\ OnePoller'
  BY <1>1, <1>2 DEF PollersFit, PolledWhileRunning, OnePoller
<1>6. FlushedAfterStop'
  <2> SUFFICES ASSUME Pollers = 0, flushes = 0 PROVE late'
    BY <1>1, <1>2 DEF FlushedAfterStop
  <2>1. CASE Emit
    BY <2>1 DEF Emit, PolledWhileRunning
  <2>2. CASE Send
    <3>1. Pollers + flushes = 0
      OBVIOUS
    <3>2. QED
      BY <2>2, <3>1, Zenon DEF Send
  <2>3. QED
    BY <2>1, <2>2
<1>7. QED
  BY <1>4, <1>5, <1>6

(* A step that changes nothing keeps the invariant. *)
LEMMA StutterKeeps == IInv /\ UNCHANGED vars => IInv'
  BY DEF IInv, vars, TypeOK, PollersFit, PolledWhileRunning, OnePoller, FlushedAfterStop, Pollers

(* Every call, callback and message of the looper keeps the invariant. *)
LEMMA NextIInv == IInv /\ [Next]_vars => IInv'
<1> SUFFICES ASSUME IInv, [Next]_vars PROVE IInv'
  OBVIOUS
<1>1. CASE \E restart \in BOOLEAN : InitAudioKept(restart)
  BY <1>1, StutterKeeps DEF InitAudioKept
<1>2. CASE \E restart, ok \in BOOLEAN : InitAudio(restart, ok)
  BY <1>2, StoppedKeeps DEF InitAudio
<1>3. CASE StartAudio
  BY <1>3, StartKeeps
<1>4. CASE StopAudio
  BY <1>4, StoppedKeeps DEF StopAudio, IInv, TypeOK
<1>5. CASE Release
  BY <1>5, StoppedKeeps DEF Release
<1>6. CASE Looper
  BY <1>6, LooperKeeps
<1>7. CASE Emit \/ Send
  BY <1>7, MessagesKeep
<1>8. CASE UNCHANGED vars
  BY <1>8, StutterKeeps
<1>9. QED
  BY <1>1, <1>2, <1>3, <1>4, <1>5, <1>6, <1>7, <1>8 DEF Next

(* The inductive invariant of PdAudio.java's methods and main looper. *)
THEOREM Invariance == Spec => []IInv
  BY InitIInv, NextIInv, PTL DEF Spec

(* Runnables of PdAudio.java never pile up in the looper beyond the calls
   that posted them. *)
THEOREM TypeCorrect == Spec => []TypeOK
<1>1. IInv => TypeOK
  BY DEF IInv
<1>2. QED
  BY <1>1, Invariance, PTL

(* startAudio, stopAudio and pollRunner together: audio that runs is polled. *)
THEOREM Polled == Spec => []PolledWhileRunning
<1>1. IInv => PolledWhileRunning
  BY DEF IInv
<1>2. QED
  BY <1>1, Invariance, PTL

(* pollRunner is in the looper once between a start and the next stop, and
   not at all otherwise, as long as no second start and no stop during a
   poll came in between. *)
THEOREM Once == Spec => []OnePoller
<1>1. IInv => OnePoller
  BY DEF IInv
<1>2. QED
  BY <1>1, Invariance, PTL

(* The flush posted by stopAudio reads whatever the audio callback emitted. *)
THEOREM Flushed == Spec => []FlushedAfterStop
<1>1. IInv => FlushedAfterStop
  BY DEF IInv
<1>2. QED
  BY <1>1, Invariance, PTL
=============================================================================
