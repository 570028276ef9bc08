----------------------------- MODULE JavaAudio -----------------------------
(***************************************************************************)
(* PdService.java over PdAudio.java when Java renders the audio: calls of  *)
(* several threads, among them callbacks of Pd messages, under the         *)
(* monitors, and the rendering thread, which polls Pd's queue itself.      *)
(*                                                                         *)
(* Every call takes PdService's monitor and then PdAudio's and            *)
(* AudioWrapper's, so one lock stands for the three.  Pd's receiver is a   *)
(* PdDispatcher; its monitor is the other lock.  The input side and the    *)
(* AudioTrack are in AudioThreads, the listeners in PdDispatcher.          *)
(***************************************************************************)
EXTENDS Naturals, FiniteSets

CONSTANTS
  Clients,     \* threads of the app
  Main,
  NONE,
  Params,      \* the audio parameters clients ask for
  MaxStarts,   \* bounds of the model: calls of start,
  MaxPosted    \* deliveries waiting in the main looper

ASSUME JavaAudioAssumption ==
  /\ Main \in Clients /\ IsFiniteSet(Clients) /\ Clients \cap Nat = {}
  /\ NONE \notin Params \cup Clients \cup Nat
  /\ MaxStarts \in Nat /\ MaxPosted \in Nat

Renderers == 1..MaxStarts   \* rendering thread i belongs to the i-th start
NoThread == 0
Threads == Clients \cup Renderers

VARIABLES
  control,      \* who holds PdService's and PdAudio's monitors
  dispatch,     \* who holds the receiver's monitor while callbacks run
  call, at,     \* the method a thread calls: waiting for control, joining, out
  receiver,     \* NONE, or the kind of PdDispatcher: "plain", "ui"
  posted,       \* deliveries the PdUiDispatcher posted to the main looper
  opened,       \* the parameters Pd was opened with
  wrapper,      \* those the AudioWrapper was built for; NONE without one
  starts, audioThread, apc, aflag,
  size,         \* the parameters of a rendering thread's buffers
  \* history
  inner,        \* a callback called one of the methods
  twice,        \* audio was started over a live rendering thread
  misfit        \* initAudio failed after it had opened Pd

calls == <<control, call, at>>
device == <<opened, wrapper>>
render == <<starts, audioThread, apc, aflag, size>>
messages == <<dispatch, receiver, posted>>
history == <<inner, twice, misfit>>
vars == <<calls, device, render, messages, history>>

Init ==
  /\ control = NONE /\ dispatch = NONE /\ receiver = NONE /\ posted = 0
  /\ call = [t \in Threads |-> "none"] /\ at = [t \in Threads |-> "out"]
  /\ opened = NONE /\ wrapper = NONE
  /\ starts = 0 /\ audioThread = NoThread
  /\ apc = [i \in Renderers |-> "none"] /\ aflag = [i \in Renderers |-> FALSE]
  /\ size = [i \in Renderers |-> NONE]
  /\ inner = FALSE /\ twice = FALSE /\ misfit = FALSE

isRunning == wrapper # NONE /\ audioThread # NoThread /\ apc[audioThread] # "ended"

-----------------------------------------------------------------------------
(* The methods of PdService.                                               *)

Methods == {"init", "start", "stop", "release"}

(* A rendering thread calls them only from its callbacks. *)
Call(t, m) ==
  /\ at[t] = "out" /\ (t \in Renderers => dispatch = t)
  /\ m = "start" => starts + Cardinality({u \in Threads : call[u] = "start"}) < MaxStarts
  /\ call' = [call EXCEPT ![t] = m]
  /\ at' = [at EXCEPT ![t] = "wait"]
  /\ inner' = (inner \/ dispatch = t)
  /\ UNCHANGED <<control, device, render, messages, twice, misfit>>

Return(t) ==
  /\ control' = NONE
  /\ at' = [at EXCEPT ![t] = "out"]
  /\ call' = [call EXCEPT ![t] = "none"]

(* AudioWrapper.start: there is no test whether a thread is running.  Without
   a wrapper startAudio throws. *)
StartAudio(t) ==
  /\ at[t] = "wait" /\ call[t] = "start" /\ control = NONE
  /\ IF wrapper # NONE
     THEN /\ starts' = starts + 1
          /\ audioThread' = starts + 1
          /\ apc' = [apc EXCEPT ![starts + 1] = "loop"]
          /\ size' = [size EXCEPT ![starts + 1] = wrapper]
          /\ twice' = (twice \/ isRunning)
     ELSE UNCHANGED <<starts, audioThread, apc, size, twice>>
  /\ Return(t)
  /\ UNCHANGED <<aflag, device, messages, inner, misfit>>

(* Faulty variant: the thread is joined without being interrupted. *)
StopFirstWithoutInterrupt(t) ==
  /\ at[t] = "wait" /\ call[t] \in {"init", "stop", "release"} /\ control = NONE
  /\ isRunning
  /\ control' = t
  /\ at' = [at EXCEPT ![t] = "join"]
  /\ UNCHANGED <<call, render, device, messages, history>>

(* The other methods begin with stopAudio: they interrupt the thread and wait
   for it with the monitors held. *)
StopFirst(t) ==
  /\ at[t] = "wait" /\ call[t] \in {"init", "stop", "release"} /\ control = NONE
  /\ isRunning
  /\ aflag' = [aflag EXCEPT ![audioThread] = TRUE]
  /\ control' = t
  /\ at' = [at EXCEPT ![t] = "join"]
  /\ UNCHANGED <<call, starts, audioThread, apc, size, device, messages, history>>

(* Faulty variant: the thread is interrupted but not joined. *)
StoppedWithoutJoin(t) ==
  \/ /\ at[t] = "wait" /\ control = NONE /\ ~isRunning
     /\ UNCHANGED audioThread
  \/ /\ at[t] = "join"
     /\ audioThread' = NoThread

(* Faulty variant: initAudio does not stop the thread first. *)
StoppedUnlessInit(t) ==
  \/ /\ at[t] = "wait" /\ control = NONE /\ (~isRunning \/ call[t] = "init")
     /\ UNCHANGED audioThread
  \/ /\ at[t] = "join"
     /\ apc[audioThread] = "ended"
     /\ audioThread' = NoThread

(* A join ends at once in a thread whose interrupt flag is set, as it is when
   a rendering thread stops itself. *)
Stopped(t) ==
  \/ /\ at[t] = "wait" /\ control = NONE /\ ~isRunning
     /\ UNCHANGED audioThread
  \/ /\ at[t] = "join"
     /\ apc[audioThread] = "ended" \/ (t \in Renderers /\ aflag[t])
     /\ audioThread' = NoThread

StopAudio(t) ==
  /\ call[t] = "stop" /\ Stopped(t) /\ Return(t)
  /\ UNCHANGED <<starts, apc, aflag, size, device, messages, history>>

(* PdAudio.initAudio opens Pd and then constructs an AudioWrapper.  Either
   step may fail; the second one leaves the old wrapper in place. *)
InitAudioOpens(t, p, constructed) ==
  /\ call[t] = "init" /\ Stopped(t) /\ Return(t)
  /\ opened' = p
  /\ wrapper' = IF constructed THEN p ELSE wrapper
  /\ misfit' = ~constructed
  /\ UNCHANGED <<starts, apc, aflag, size, messages, inner, twice>>

InitAudioRefused(t) ==
  /\ call[t] = "init" /\ Stopped(t) /\ Return(t)
  /\ UNCHANGED <<starts, apc, aflag, size, device, messages, history>>

(* PdService.release, which onUnbind and onDestroy call: the wrapper and the
   receiver go. *)
Release(t) ==
  /\ call[t] = "release" /\ Stopped(t) /\ Return(t)
  /\ wrapper' = NONE
  /\ receiver' = NONE
  /\ UNCHANGED <<starts, apc, aflag, size, dispatch, posted, opened, history>>

(* PureDataHandler.initPd *)
Connect(kind) ==
  /\ receiver' = kind
  /\ UNCHANGED <<calls, device, render, dispatch, posted, history>>

-----------------------------------------------------------------------------
(* The rendering thread, and the main looper.                              *)

(* while (!Thread.interrupted()) *)
Test(i) ==
  /\ apc[i] = "loop"
  /\ apc' = [apc EXCEPT ![i] = IF aflag[i] THEN "ended" ELSE "process"]
  /\ aflag' = [aflag EXCEPT ![i] = FALSE]
  /\ UNCHANGED <<calls, device, starts, audioThread, size, messages, history>>

(* process: Pd computes, then the queues are polled; an error of Pd ends the
   loop after them, and a message to the receiver waits for its monitor. *)
Process(i, next) ==
  /\ apc[i] = "process"
  /\ next = "deliver" => receiver # NONE /\ posted < MaxPosted
  /\ apc' = [apc EXCEPT ![i] = next]
  /\ UNCHANGED <<calls, device, starts, audioThread, aflag, size, messages, history>>

(* Faulty variant: a message is posted twice. *)
DeliverTwice(i) ==
  /\ apc[i] = "deliver" /\ dispatch = NONE
  /\ posted' = posted + 2
  /\ apc' = [apc EXCEPT ![i] = "loop"]
  /\ UNCHANGED <<calls, device, starts, audioThread, aflag, size, receiver, dispatch, history>>

(* receiveX of PdUiDispatcher posts under the monitor; that of PdDispatcher
   keeps the monitor while the callbacks run. *)
Deliver(i) ==
  /\ apc[i] = "deliver" /\ dispatch = NONE
  /\ \/ /\ receiver = "ui"
        /\ posted' = posted + 1
        /\ apc' = [apc EXCEPT ![i] = "loop"]
        /\ UNCHANGED dispatch
     \/ /\ receiver = "plain"
        /\ dispatch' = i
        /\ apc' = [apc EXCEPT ![i] = "callback"]
        /\ UNCHANGED posted
     \/ /\ receiver = NONE
        /\ apc' = [apc EXCEPT ![i] = "loop"]
        /\ UNCHANGED <<dispatch, posted>>
  /\ UNCHANGED <<calls, device, starts, audioThread, aflag, size, receiver, history>>

EndCallback(i) ==
  /\ apc[i] = "callback" /\ at[i] = "out"
  /\ dispatch' = NONE
  /\ apc' = [apc EXCEPT ![i] = "loop"]
  /\ UNCHANGED <<calls, device, starts, audioThread, aflag, size, receiver, posted, history>>

RunPosted ==
  /\ posted > 0 /\ at[Main] = "out" /\ dispatch = NONE
  /\ dispatch' = Main
  /\ posted' = posted - 1
  /\ UNCHANGED <<calls, device, render, receiver, history>>

EndPosted ==
  /\ dispatch = Main /\ at[Main] = "out"
  /\ dispatch' = NONE
  /\ UNCHANGED <<calls, device, render, receiver, posted, history>>

Work(t) ==
  \/ StartAudio(t) \/ StopFirst(t) \/ StopAudio(t) \/ InitAudioRefused(t) \/ Release(t)
  \/ \E p \in Params, constructed \in BOOLEAN : InitAudioOpens(t, p, constructed)

Loop(i) ==
  \/ Test(i) \/ EndCallback(i)
  \/ \E next \in {"loop", "deliver", "ended"} : Process(i, next)

Next ==
  \/ \E t \in Threads : Work(t) \/ \E m \in Methods : Call(t, m)
  \/ \E kind \in {"plain", "ui"} : Connect(kind)
  \/ \E i \in Renderers : Loop(i) \/ Deliver(i)
  \/ RunPosted \/ EndPosted

(* Bound of the model: what follows a call from a callback is left out; no
   property below speaks of it. *)
UntilInner == ~inner

(* The threads run, callbacks return, and nobody waits for ever for a monitor
   that is free again and again. *)
Fairness ==
  /\ \A t \in Clients : SF_vars(Work(t))
  /\ \A i \in Renderers : WF_vars(Loop(i)) /\ SF_vars(Deliver(i))
  /\ WF_vars(EndPosted)

Spec == Init /\ [][Next]_vars /\ Fairness

-----------------------------------------------------------------------------
(* Properties.                                                             *)

(* Type correctness. *)
TypeOK ==
  /\ control \in Threads \cup {NONE} /\ dispatch \in Threads \cup {NONE}
  /\ call \in [Threads -> Methods \cup {"none"}]
  /\ at \in [Threads -> {"out", "wait", "join"}]
  /\ receiver \in {NONE, "plain", "ui"} /\ posted \in 0..(MaxPosted + MaxStarts)
  /\ opened \in Params \cup {NONE} /\ wrapper \in Params \cup {NONE}
  /\ size \in [Renderers -> Params \cup {NONE}]
  /\ starts \in 0..MaxStarts /\ audioThread \in 0..MaxStarts
  /\ apc \in [Renderers -> {"none", "loop", "process", "deliver", "callback", "ended"}]
  /\ aflag \in [Renderers -> BOOLEAN]
  /\ inner \in BOOLEAN /\ twice \in BOOLEAN /\ misfit \in BOOLEAN

Rendering(i) == apc[i] \in {"process", "deliver", "callback"}

(* Pd is rendered by one thread at a time, the one the wrapper knows and can
   stop, and by none after a stop or a release, whatever several threads start,
   stop and restart: unless audio is started over itself, or stopped from one
   of its own callbacks. *)
OneRenderer ==
  ~twice /\ ~inner =>
    \A i \in Renderers : Rendering(i) => i = audioThread /\ wrapper # NONE

(* The buffers Pd is computing into are of the size it was opened for, under
   restarts with other parameters: unless the last initAudio failed half way,
   after it had opened Pd. *)
BufferFits ==
  ~twice /\ ~inner /\ ~misfit => \A i \in Renderers : Rendering(i) => size[i] = opened

(* Every call returns, although stop waits for the rendering thread with all
   its monitors held; only a callback that makes such a call can hang it. *)
CallsReturn == \A t \in Clients : at[t] # "out" ~> at[t] = "out" \/ inner
=============================================================================
