-------------------------- MODULE JavaAudioProofs ---------------------------
(***************************************************************************)
(* Proofs about JavaAudio, for any number of clients, starts and           *)
(* parameters: Pd is rendered by one thread at a time, into buffers of the *)
(* size it was opened for.                                                 *)
(***************************************************************************)
EXTENDS JavaAudio, FiniteSetTheorems, TLAPS

Alive(i) == apc[i] \in {"loop", "process", "deliver", "callback"}

(* The part of the types the argument needs. *)
ControlType ==
  /\ call \in [Threads -> Methods \cup {"none"}]
  /\ at \in [Threads -> {"out", "wait", "join"}]
  /\ wrapper \in Params \cup {NONE} /\ opened \in Params \cup {NONE}
  /\ starts \in 0..MaxStarts /\ audioThread \in 0..starts
  /\ apc \in [Renderers -> {"none", "loop", "process", "deliver", "callback", "ended"}]
  /\ aflag \in [Renderers -> BOOLEAN]
  /\ size \in [Renderers -> Params \cup {NONE}]
  /\ inner \in BOOLEAN /\ twice \in BOOLEAN /\ misfit \in BOOLEAN

(* Who waits for the rendering thread holds the monitors, so that nobody else
   exchanges it; and it is a client, as long as no callback makes a call. *)
JoinHolds ==
  /\ \A t \in Threads : at[t] = "join" => control = t /\ audioThread # NoThread
  /\ ~inner => \A i \in Renderers : at[i] = "out"

(* Threads to come have not begun, and of the others only the one that the
   wrapper knows may be alive. *)
OnlyKnown ==
  /\ \A i \in Renderers : i > starts => apc[i] = "none"
  /\ ~twice /\ ~inner => \A i \in Renderers : Alive(i) => i = audioThread /\ wrapper # NONE

(* The wrapper was built for the parameters Pd was opened with, and the thread
   for the wrapper's. *)
Fits ==
  ~twice /\ ~inner /\ ~misfit =>
    /\ wrapper # NONE => wrapper = opened
    /\ \A i \in Renderers : Alive(i) => size[i] = opened

(* Every start that was called for has its place among the renderers. *)
Starters == {t \in Threads : call[t] = "start"}

StartsBound == starts + Cardinality(Starters) <= MaxStarts

AudioInv == ControlType /\ JoinHolds /\ OnlyKnown /\ Fits /\ StartsBound

-----------------------------------------------------------------------------
(* Finitely many calls of start are under way. *)
LEMMA StartersFinite == IsFiniteSet(Starters)
<1>1. IsFiniteSet(Renderers)
  <2>1. 1 \in Int /\ MaxStarts \in Int
    BY JavaAudioAssumption
  <2> QED
    BY <2>1, FS_Interval DEF Renderers
<1>2. IsFiniteSet(Threads)
  BY <1>1, FS_Union, JavaAudioAssumption DEF Threads
<1> QED
  BY <1>2, FS_Subset DEF Starters

(* A step after which no more calls of start wait keeps their bound. *)
LEMMA NoMoreStarters ==
  ASSUME StartsBound, starts \in Nat, starts' = starts, Starters' \subseteq Starters
  PROVE  StartsBound'
<1>1. Cardinality(Starters') <= Cardinality(Starters)
  BY StartersFinite, FS_Subset
<1>2. Cardinality(Starters') \in Nat /\ Cardinality(Starters) \in Nat
  BY StartersFinite, FS_Subset, FS_CardinalityType
<1> QED
  BY <1>1, <1>2, JavaAudioAssumption DEF StartsBound

(* Whoever is past stopAudio finds no thread alive. *)
LEMMA StoppedMeansNone ==
  ASSUME AudioInv, NEW t \in Threads, Stopped(t)
  PROVE  ~twice /\ ~inner => \A i \in Renderers : ~Alive(i)
<1> SUFFICES ASSUME ~twice, ~inner, NEW i \in Renderers, Alive(i)
             PROVE  FALSE
  OBVIOUS
<1>1. i = audioThread /\ wrapper # NONE
  BY DEF AudioInv, OnlyKnown
<1>2. apc[audioThread] # "ended" /\ audioThread # NoThread
  BY <1>1, JavaAudioAssumption DEF Alive, Renderers, NoThread
<1>3. t \notin Renderers \/ at[t] = "out"
  BY DEF AudioInv, JoinHolds
<1> QED
  BY <1>1, <1>2, <1>3 DEF Stopped, isRunning

(* A call that came through stopAudio: it returns, leaves the threads alone
   and none of them alive, and opens Pd or drops the wrapper at most. *)
LEMMA AfterStopped ==
  ASSUME AudioInv, NEW t \in Threads, Stopped(t), Return(t),
         UNCHANGED <<starts, apc, aflag, size, inner, twice>>,
         wrapper' \in Params \cup {NONE}, opened' \in Params \cup {NONE}, misfit' \in BOOLEAN,
         ~misfit' /\ wrapper' # NONE => wrapper' = opened' \/ (UNCHANGED <<wrapper, opened, misfit>>)
  PROVE  AudioInv'
<1> USE JavaAudioAssumption
<1>1. ControlType'
  BY DEF AudioInv, ControlType, Stopped, Return, NoThread
<1>2. JoinHolds'
  <2>1. \A u \in Threads : u # t => at[u] # "join"
    BY DEF AudioInv, JoinHolds, Stopped, Threads, Renderers
  <2>2. at' = [at EXCEPT ![t] = "out"] /\ at \in [Threads -> {"out", "wait", "join"}]
    BY DEF Return, AudioInv, ControlType
  <2>3. \A u \in Threads : at'[u] # "join"
    BY <2>1, <2>2
  <2>4. ~inner' => \A i \in Renderers : at'[i] = "out"
    BY <2>2 DEF AudioInv, JoinHolds, Threads
  <2> QED
    BY <2>3, <2>4 DEF JoinHolds
<1>3. ~twice' /\ ~inner' => \A i \in Renderers : ~Alive(i)'
  BY StoppedMeansNone DEF Alive
<1>4. OnlyKnown'
  BY <1>3 DEF AudioInv, OnlyKnown
<1>5. Fits'
  BY <1>3 DEF AudioInv, Fits
<1>6. Starters' \subseteq Starters
  BY DEF Starters, Return, AudioInv, ControlType
<1>7. StartsBound'
  BY <1>6, NoMoreStarters DEF AudioInv, ControlType
<1> QED
  BY <1>1, <1>2, <1>4, <1>5, <1>7 DEF AudioInv

(* StopAudio, both outcomes of initAudio, and release come through stopAudio. *)
LEMMA StoppingCalls ==
  ASSUME AudioInv, NEW t \in Threads,
         \/ StopAudio(t) \/ InitAudioRefused(t) \/ Release(t)
         \/ \E p \in Params, constructed \in BOOLEAN : InitAudioOpens(t, p, constructed)
  PROVE  AudioInv'
<1> USE DEF device, history
<1>1. CASE StopAudio(t) \/ InitAudioRefused(t)
  BY <1>1, AfterStopped DEF StopAudio, InitAudioRefused, AudioInv, ControlType
<1>2. CASE Release(t)
  BY <1>2, AfterStopped DEF Release, AudioInv, ControlType
<1>3. ASSUME NEW p \in Params, NEW constructed \in BOOLEAN, InitAudioOpens(t, p, constructed)
      PROVE  AudioInv'
  BY <1>3, AfterStopped DEF InitAudioOpens, AudioInv, ControlType
<1> QED
  BY <1>1, <1>2, <1>3

(* A start over no live thread makes the new one the known one. *)
LEMMA Starting ==
  ASSUME AudioInv, NEW t \in Threads, StartAudio(t)
  PROVE  AudioInv'
<1> USE JavaAudioAssumption
<1>1. t \in Starters /\ t \notin Starters' /\ Starters' \subseteq Starters
  BY DEF Starters, StartAudio, Return, AudioInv, ControlType
<1>2. /\ IsFiniteSet(Starters') /\ Cardinality(Starters) \in Nat
      /\ Cardinality(Starters') \in Nat
      /\ Cardinality(Starters') + 1 <= Cardinality(Starters)
  <2>1. Starters' \subseteq Starters \ {t}
    BY <1>1
  <2>2. IsFiniteSet(Starters \ {t}) /\ Cardinality(Starters \ {t}) = Cardinality(Starters) - 1
    BY <1>1, StartersFinite, FS_RemoveElement
  <2>3. IsFiniteSet(Starters') /\ Cardinality(Starters') <= Cardinality(Starters \ {t})
    BY <2>1, <2>2, FS_Subset
  <2> QED
    BY <2>2, <2>3, StartersFinite, FS_CardinalityType
<1>3. starts + 1 \in Renderers /\ starts \in Nat
  BY <1>2 DEF AudioInv, StartsBound, ControlType, Renderers
<1>4. StartsBound'
  BY <1>2, <1>3 DEF StartAudio, AudioInv, StartsBound
<1>5. \A u \in Threads : at'[u] # "join"
  <2>1. \A u \in Threads : at[u] # "join"
    BY DEF AudioInv, JoinHolds, StartAudio, Threads, Renderers
  <2> QED
    BY <2>1 DEF StartAudio, Return, AudioInv, ControlType
<1>6. JoinHolds'
  BY <1>5 DEF AudioInv, ControlType, JoinHolds, StartAudio, Return, Threads
<1>7. CASE wrapper = NONE
  <2>1. UNCHANGED <<starts, audioThread, apc, aflag, size, twice, wrapper, opened, inner, misfit>>
    BY <1>7 DEF StartAudio, device
  <2>2. ControlType'
    BY <2>1 DEF AudioInv, ControlType, StartAudio, Return
  <2> QED
    BY <1>4, <1>6, <2>1, <2>2 DEF AudioInv, OnlyKnown, Fits, Alive
<1>8. CASE wrapper # NONE
  <2>1. /\ starts' = starts + 1 /\ audioThread' = starts + 1
        /\ apc' = [apc EXCEPT ![starts + 1] = "loop"]
        /\ size' = [size EXCEPT ![starts + 1] = wrapper]
        /\ twice' = (twice \/ isRunning)
        /\ UNCHANGED <<aflag, wrapper, opened, inner, misfit>>
    BY <1>8 DEF StartAudio, device
  <2>2. ControlType'
    BY <1>3, <2>1 DEF AudioInv, ControlType, StartAudio, Return, Renderers, isRunning
  <2>3. ~twice' /\ ~inner' => \A i \in Renderers : ~Alive(i)
    <3> SUFFICES ASSUME ~twice', ~inner', NEW i \in Renderers, Alive(i)
                 PROVE  FALSE
      OBVIOUS
    <3>1. ~twice /\ ~inner /\ ~isRunning
      BY <2>1 DEF AudioInv, ControlType
    <3>2. i = audioThread
      BY <3>1 DEF AudioInv, OnlyKnown
    <3> QED
      BY <1>8, <3>1, <3>2 DEF isRunning, Alive, Renderers, NoThread
  <2>4. \A i \in Renderers : i # starts + 1 => apc'[i] = apc[i] /\ size'[i] = size[i]
    BY <1>3, <2>1 DEF AudioInv, ControlType
  <2>5. OnlyKnown'
    BY <1>3, <1>8, <2>1, <2>3, <2>4 DEF AudioInv, OnlyKnown, Alive, Renderers
  <2>6. Fits'
    <3> SUFFICES ASSUME ~twice', ~inner', ~misfit'
                 PROVE  /\ wrapper' # NONE => wrapper' = opened'
                        /\ \A i \in Renderers : Alive(i)' => size'[i] = opened'
      BY DEF Fits
    <3>1. wrapper = opened
      BY <1>8, <2>1 DEF AudioInv, Fits
    <3>2. size'[starts + 1] = wrapper
      BY <1>3, <2>1 DEF AudioInv, ControlType
    <3> QED
      BY <2>1, <2>3, <2>4, <3>1, <3>2 DEF Alive
  <2> QED
    BY <1>4, <1>6, <2>2, <2>5, <2>6 DEF AudioInv
<1> QED
  BY <1>7, <1>8

(* Calling and waiting change neither threads nor wrapper. *)
LEMMA Calling ==
  ASSUME AudioInv, NEW t \in Threads, (\E m \in Methods : Call(t, m)) \/ StopFirst(t)
  PROVE  AudioInv'
<1> USE JavaAudioAssumption
<1>1. ASSUME NEW m \in Methods, Call(t, m)
      PROVE  AudioInv'
  <2>1. ControlType'
    BY <1>1 DEF AudioInv, ControlType, Call, device, render
  <2>2. JoinHolds'
    BY <1>1 DEF AudioInv, ControlType, JoinHolds, Call, render, Threads
  <2>3. StartsBound'
    <3>1. CASE m # "start"
      <4>1. Starters' \subseteq Starters
        BY <1>1, <3>1 DEF Starters, Call, AudioInv, ControlType
      <4> QED
        BY <1>1, <4>1, NoMoreStarters DEF AudioInv, ControlType, Call, render
    <3>2. CASE m = "start"
      <4>1. Starters' \subseteq Starters \cup {t}
        BY <1>1, <3>2 DEF Starters, Call, AudioInv, ControlType
      <4>2. IsFiniteSet(Starters \cup {t}) /\ Cardinality(Starters \cup {t}) <= Cardinality(Starters) + 1
        <5>1. Cardinality(Starters) \in Nat
          BY StartersFinite, FS_CardinalityType
        <5>2. Cardinality(Starters \cup {t}) \in {Cardinality(Starters), Cardinality(Starters) + 1}
          BY StartersFinite, FS_AddElement
        <5> QED
          BY <5>1, <5>2, StartersFinite, FS_AddElement
      <4>3. /\ Cardinality(Starters') <= Cardinality(Starters \cup {t})
            /\ IsFiniteSet(Starters')
        BY <4>1, <4>2, FS_Subset
      <4>4. /\ Cardinality(Starters') \in Nat /\ Cardinality(Starters) \in Nat
            /\ Cardinality(Starters \cup {t}) \in Nat
        BY <4>2, <4>3, StartersFinite, FS_CardinalityType
      <4>5. starts + Cardinality(Starters) < MaxStarts /\ starts' = starts
        BY <1>1, <3>2 DEF Call, Starters, render
      <4> QED
        BY <4>2, <4>3, <4>4, <4>5 DEF StartsBound, AudioInv, ControlType
    <3> QED
      BY <3>1, <3>2
  <2> QED
    BY <1>1, <2>1, <2>2, <2>3 DEF AudioInv, OnlyKnown, Fits, Alive, Call, device, render
<1>2. CASE StopFirst(t)
  <2>1. ControlType'
    BY <1>2 DEF AudioInv, ControlType, StopFirst, device, history
  <2>2. JoinHolds'
    <3>1. t \notin Renderers \/ inner
      BY <1>2 DEF AudioInv, JoinHolds, StopFirst
    <3>2. \A u \in Threads : at[u] # "join"
      BY <1>2 DEF AudioInv, JoinHolds, StopFirst, Threads, Renderers
    <3>3. audioThread' # NoThread /\ control' = t /\ at' = [at EXCEPT ![t] = "join"] /\ inner' = inner
      BY <1>2 DEF StopFirst, isRunning, history
    <3> QED
      BY <3>1, <3>2, <3>3 DEF AudioInv, ControlType, JoinHolds, Threads
  <2>3. StartsBound'
    BY <1>2, NoMoreStarters DEF AudioInv, ControlType, StopFirst, Starters
  <2> QED
    BY <1>2, <2>1, <2>2, <2>3 DEF AudioInv, OnlyKnown, Fits, Alive, StopFirst, device, history
<1> QED
  BY <1>1, <1>2

(* A step of a rendering thread keeps it alive or ends it. *)
LEMMA Looping ==
  ASSUME AudioInv, NEW i \in Renderers, Loop(i) \/ Deliver(i)
  PROVE  AudioInv'
<1>1. \E pc \in {"loop", "process", "deliver", "callback", "ended"} :
        /\ apc' = [apc EXCEPT ![i] = pc]
        /\ Alive(i)
  BY DEF Loop, Test, EndCallback, Process, Deliver, Alive
<1>2. UNCHANGED <<calls, device, starts, audioThread, size, history>>
  BY DEF Loop, Test, EndCallback, Process, Deliver, messages
<1>3. aflag' \in [Renderers -> BOOLEAN]
  BY DEF Loop, Test, EndCallback, Process, Deliver, AudioInv, ControlType
<1>4. ControlType'
  BY <1>1, <1>2, <1>3 DEF AudioInv, ControlType, calls, device, history
<1>5. JoinHolds'
  BY <1>2 DEF AudioInv, JoinHolds, calls, history
<1>6. \A j \in Renderers : Alive(j)' => Alive(j)
  BY <1>1 DEF Alive, AudioInv, ControlType
<1>7. OnlyKnown'
  BY <1>1, <1>2, <1>6 DEF AudioInv, ControlType, OnlyKnown, Alive, device, history
<1>8. Fits'
  BY <1>2, <1>6 DEF AudioInv, Fits, device, history
<1>9. StartsBound'
  BY <1>2, NoMoreStarters DEF AudioInv, ControlType, Starters, calls
<1> QED
  BY <1>4, <1>5, <1>7, <1>8, <1>9 DEF AudioInv

(* Messages and receivers are no part of the invariant. *)
LEMMA Elsewhere ==
  ASSUME AudioInv, UNCHANGED <<calls, device, render, history>>
  PROVE  AudioInv'
<1>1. StartsBound'
  BY NoMoreStarters DEF AudioInv, ControlType, Starters, calls, render
<1> QED
  BY <1>1 DEF AudioInv, ControlType, JoinHolds, OnlyKnown, Fits, Alive, calls, device, render, history

(* The invariant holds in every reachable state. *)
THEOREM AudioInvariance == Spec => []AudioInv
<1>1. Init => AudioInv
  <2> SUFFICES ASSUME Init
               PROVE  AudioInv
    OBVIOUS
  <2> USE JavaAudioAssumption DEF Init
  <2>1. Starters = {}
    BY DEF Starters
  <2>2. StartsBound
    BY <2>1, FS_EmptySet DEF StartsBound
  <2>3. ControlType
    <3>1. starts \in 0..MaxStarts /\ audioThread \in 0..starts
      BY DEF NoThread
    <3>2. inner \in BOOLEAN /\ twice \in BOOLEAN /\ misfit \in BOOLEAN
      BY Zenon
    <3>3. /\ call \in [Threads -> Methods \cup {"none"}]
          /\ at \in [Threads -> {"out", "wait", "join"}]
          /\ apc \in [Renderers -> {"none", "loop", "process", "deliver", "callback", "ended"}]
          /\ aflag \in [Renderers -> BOOLEAN]
          /\ size \in [Renderers -> Params \cup {NONE}]
      OBVIOUS
    <3> QED
      BY <3>1, <3>2, <3>3 DEF ControlType
  <2>4. JoinHolds /\ OnlyKnown /\ Fits
    BY DEF JoinHolds, OnlyKnown, Fits, Alive, Threads
  <2> QED
    BY <2>2, <2>3, <2>4 DEF AudioInv
<1>2. AudioInv /\ [Next]_vars => AudioInv'
  <2> SUFFICES ASSUME AudioInv, [Next]_vars
               PROVE  AudioInv'
    OBVIOUS
  <2>1. ASSUME NEW t \in Threads, Work(t) \/ \E m \in Methods : Call(t, m)
        PROVE  AudioInv'
    BY <2>1, StoppingCalls, Starting, Calling DEF Work
  <2>2. ASSUME NEW i \in Renderers, Loop(i) \/ Deliver(i)
        PROVE  AudioInv'
    BY <2>2, Looping
  <2>3. CASE UNCHANGED vars \/ RunPosted \/ EndPosted \/ \E kind \in {"plain", "ui"} : Connect(kind)
    BY <2>3, Elsewhere DEF vars, RunPosted, EndPosted, Connect
  <2> QED
    BY <2>1, <2>2, <2>3 DEF Next
<1> QED
  BY <1>1, <1>2, PTL DEF Spec

(* PdAudio and AudioWrapper never render with two threads, nor with one that
   the wrapper lost, through any sequence of calls of any number of clients. *)
THEOREM OneAtATime == Spec => []OneRenderer
<1>1. AudioInv => OneRenderer
  BY DEF AudioInv, OnlyKnown, OneRenderer, Alive, Rendering
<1> QED
  BY <1>1, AudioInvariance, PTL

(* process never fills buffers of another size than Pd was opened for. *)
THEOREM RightBuffers == Spec => []BufferFits
<1>1. AudioInv => BufferFits
  BY DEF AudioInv, Fits, BufferFits, Alive, Rendering
<1> QED
  BY <1>1, AudioInvariance, PTL

-----------------------------------------------------------------------------
(* The types of what the argument above leaves alone. *)

(* The renderers that are about to hand a message to the receiver. *)
Delivering == {i \in Renderers : apc[i] = "deliver"}

(* Process tests the main looper's queue before the message is posted, so each
   renderer may have one message more under way than there was room for. *)
MessageInv ==
  /\ control \in Threads \cup {NONE} /\ dispatch \in Threads \cup {NONE}
  /\ receiver \in {NONE, "plain", "ui"}
  /\ posted \in Nat /\ posted + Cardinality(Delivering) <= MaxPosted + MaxStarts

(* The renderers are finitely many. *)
LEMMA DeliveringFinite ==
  /\ IsFiniteSet(Delivering) /\ Cardinality(Delivering) \in 0..MaxStarts
  /\ IsFiniteSet(Delivering') /\ Cardinality(Delivering') \in 0..MaxStarts
<1>1. MaxStarts \in Nat /\ 1 \in Int /\ MaxStarts \in Int
  BY JavaAudioAssumption
<1>2. IsFiniteSet(Renderers) /\ Cardinality(Renderers) = MaxStarts
  <2>1. Cardinality(1..MaxStarts) = IF 1 > MaxStarts THEN 0 ELSE MaxStarts - 1 + 1
    BY <1>1, FS_Interval
  <2> QED BY <1>1, <2>1, FS_Interval DEF Renderers
<1>3. ASSUME NEW D, D \subseteq Renderers
      PROVE  IsFiniteSet(D) /\ Cardinality(D) \in 0..MaxStarts
  <2>1. IsFiniteSet(D) /\ Cardinality(D) <= MaxStarts
    BY <1>2, <1>3, FS_Subset
  <2> QED BY <1>1, <2>1, FS_CardinalityType
<1>4. Delivering \subseteq Renderers /\ Delivering' \subseteq Renderers
  BY DEF Delivering
<1> QED
  BY <1>3, <1>4

(* Every other step than a renderer's leaves the messages under way alone, or
   takes a posted one. *)
LEMMA FewerMessages ==
  ASSUME MessageInv, Delivering' \subseteq Delivering, posted' \in Nat, posted' <= posted,
         control' \in Threads \cup {NONE}, dispatch' \in Threads \cup {NONE},
         receiver' \in {NONE, "plain", "ui"}
  PROVE  MessageInv'
<1>1. Cardinality(Delivering') <= Cardinality(Delivering)
  BY DeliveringFinite, FS_Subset
<1>2. posted' + Cardinality(Delivering') <= MaxPosted + MaxStarts
  BY <1>1, DeliveringFinite, JavaAudioAssumption DEF MessageInv
<1> QED
  BY <1>2 DEF MessageInv

(* The calls of PdService touch no message under way, but a start and a stop
   take and give back the monitors. *)
LEMMA CallsKeepMessages ==
  ASSUME AudioInv, MessageInv, NEW t \in Threads, Work(t) \/ \E m \in Methods : Call(t, m)
  PROVE  MessageInv'
<1>1. control' \in Threads \cup {NONE} /\ receiver' \in {NONE, "plain", "ui"}
      /\ dispatch' = dispatch /\ posted' = posted
  BY DEF MessageInv, Work, Call, StartAudio, StopFirst, StopAudio, InitAudioRefused, Release,
         InitAudioOpens, Return, messages
<1>2. Delivering' \subseteq Delivering
  <2>1. CASE UNCHANGED apc
    BY <2>1 DEF Delivering
  <2>2. CASE StartAudio(t)
    BY <2>2 DEF Delivering, StartAudio, AudioInv, ControlType
  <2> QED
    BY <2>1, <2>2 DEF Work, Call, StopFirst, StopAudio, InitAudioRefused, Release, InitAudioOpens, render
<1> QED
  BY <1>1, <1>2, FewerMessages DEF MessageInv

(* A renderer turns to a delivery only below the bound, and posts at most one
   message when it is done with it. *)
LEMMA LoopKeepsMessages ==
  ASSUME AudioInv, MessageInv, NEW i \in Renderers, Loop(i) \/ Deliver(i)
  PROVE  MessageInv'
<1>1. control' = control /\ receiver' = receiver /\ dispatch' \in Threads \cup {NONE}
  BY DEF MessageInv, Loop, Deliver, Test, EndCallback, Process, messages, calls, Threads
<1>2. apc \in [Renderers -> {"none", "loop", "process", "deliver", "callback", "ended"}]
  BY DEF AudioInv, ControlType
<1>3. CASE Test(i) \/ EndCallback(i) \/ \E next \in {"loop", "ended"} : Process(i, next)
  <2>1. Delivering' \subseteq Delivering /\ posted' = posted
    BY <1>2, <1>3 DEF Delivering, Test, EndCallback, Process, messages
  <2> QED BY <1>1, <2>1, FewerMessages DEF MessageInv
<1>4. CASE Process(i, "deliver")
  <2>1. posted' = posted /\ posted < MaxPosted
    BY <1>4 DEF Process, messages
  <2>2. posted' + Cardinality(Delivering') <= MaxPosted + MaxStarts
    BY <2>1, DeliveringFinite, JavaAudioAssumption DEF MessageInv
  <2> QED BY <1>1, <2>1, <2>2 DEF MessageInv
<1>5. CASE Deliver(i)
  <2>1. posted' \in Nat /\ posted' <= posted + 1
    BY <1>5 DEF Deliver, MessageInv
  <2>2. i \in Delivering /\ Delivering' \subseteq Delivering \ {i}
    BY <1>2, <1>5 DEF Deliver, Delivering
  <2>3. /\ IsFiniteSet(Delivering \ {i})
        /\ Cardinality(Delivering \ {i}) = Cardinality(Delivering) - 1
    BY <2>2, DeliveringFinite, FS_RemoveElement
  <2>4. Cardinality(Delivering') <= Cardinality(Delivering \ {i})
    BY <2>2, <2>3, FS_Subset
  <2>5. posted' + Cardinality(Delivering') <= MaxPosted + MaxStarts
    BY <2>1, <2>3, <2>4, DeliveringFinite, JavaAudioAssumption DEF MessageInv
  <2> QED BY <1>1, <2>1, <2>5 DEF MessageInv
<1> QED
  BY <1>3, <1>4, <1>5 DEF Loop

(* TypeOK: every variable of the audio threads keeps its type, and no more
   messages wait in the main looper than the bound and the renderers allow. *)
THEOREM TypeCorrect == Spec => []TypeOK
<1>1. Init => MessageInv
  <2> SUFFICES ASSUME Init
               PROVE  MessageInv
    OBVIOUS
  <2>1. Cardinality(Delivering) <= MaxStarts
    BY DeliveringFinite, JavaAudioAssumption
  <2> QED
    BY <2>1, DeliveringFinite, JavaAudioAssumption DEF Init, MessageInv
<1>2. AudioInv /\ MessageInv /\ [Next]_vars => MessageInv'
  <2> SUFFICES ASSUME AudioInv, MessageInv, [Next]_vars
               PROVE  MessageInv'
    OBVIOUS
  <2>1. ASSUME NEW t \in Threads, Work(t) \/ \E m \in Methods : Call(t, m)
        PROVE  MessageInv'
    BY <2>1, CallsKeepMessages
  <2>2. ASSUME NEW i \in Renderers, Loop(i) \/ Deliver(i)
        PROVE  MessageInv'
    BY <2>2, LoopKeepsMessages
  <2>3. CASE UNCHANGED vars \/ RunPosted \/ EndPosted \/ \E kind \in {"plain", "ui"} : Connect(kind)
    <3>1. apc' = apc /\ control' = control
      BY <2>3 DEF vars, RunPosted, EndPosted, Connect, calls, render
    <3>2. Delivering' = Delivering
      BY <3>1 DEF Delivering
    <3>3. /\ posted' \in Nat /\ posted' <= posted
          /\ dispatch' \in Threads \cup {NONE} /\ receiver' \in {NONE, "plain", "ui"}
      BY <2>3, JavaAudioAssumption DEF vars, RunPosted, EndPosted, Connect, messages, MessageInv, Threads
    <3> QED
      BY <3>1, <3>2, <3>3, FewerMessages DEF MessageInv
  <2> QED
    BY <2>1, <2>2, <2>3 DEF Next
<1>3. AudioInv /\ MessageInv => TypeOK
  <2> SUFFICES ASSUME AudioInv, MessageInv
               PROVE  TypeOK
    OBVIOUS
  <2>1. posted \in 0..(MaxPosted + MaxStarts)
    BY DeliveringFinite, JavaAudioAssumption DEF MessageInv
  <2>2. starts \in 0..MaxStarts /\ audioThread \in 0..MaxStarts
    BY JavaAudioAssumption DEF AudioInv, ControlType
  <2> QED
    BY <2>1, <2>2 DEF AudioInv, ControlType, MessageInv, TypeOK
<1> QED
  BY <1>1, <1>2, <1>3, AudioInvariance, PTL DEF Spec
=============================================================================
