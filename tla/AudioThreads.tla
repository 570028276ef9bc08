---------------------------- MODULE AudioThreads ----------------------------
(***************************************************************************)
(* The audio threads of pd-for-android when Java renders the audio:        *)
(* AudioWrapper's rendering thread and AudioRecordWrapper's input thread,  *)
(* which hands its buffers over through a SynchronousQueue, under a client *)
(* that starts, stops and releases them.                                   *)
(*                                                                         *)
(* Thread i of either kind belongs to the i-th start.  A buffer is the     *)
(* input thread that made it and 1 or 2.                                   *)
(***************************************************************************)
EXTENDS Naturals

CONSTANT MaxStarts   \* bound of the model: number of calls of start

ASSUME MaxStartsAssumption == MaxStarts \in Nat

Runs == 1..MaxStarts

None == 0

VARIABLES
  \* AudioWrapper
  owner,        \* the client: "idle", "stopping" in stop, "releasing" in release
  starts, audioThread,
  playing,      \* the AudioTrack plays
  released,
  apc, aflag,   \* the rendering threads and their interrupt flags
  inBuf,
  \* AudioRecordWrapper
  inputThread,
  ipc, iflag,   \* the input threads and their interrupt flags
  cur,          \* which of its two buffers "buf" is
  recording,    \* the AudioRecord records
  \* history
  cut,          \* a rendering thread was interrupted before its first buffer
  abandoned,    \* one was interrupted while it waited for its input thread
  orphaned,     \* inputThread was overwritten while that thread was alive
  twice         \* start was called while a rendering thread was running

client == <<owner, starts, audioThread, released>>
render == <<apc, aflag, inBuf, playing>>
input == <<inputThread, ipc, iflag, cur, recording>>
history == <<cut, abandoned, orphaned, twice>>
vars == <<client, render, input, history>>

Ended == {"none", "ended"}

(* rec.stop holds AudioRecordWrapper's monitor while it joins. *)
RecFree == owner # "releasing" /\ \A i \in Runs : apc[i] # "joinRec"

Init ==
  /\ owner = "idle" /\ starts = 0 /\ audioThread = None /\ released = FALSE
  /\ apc = [i \in Runs |-> "none"] /\ aflag = [i \in Runs |-> FALSE]
  /\ inBuf = [i \in Runs |-> <<>>] /\ playing = FALSE
  /\ inputThread = None
  /\ ipc = [i \in Runs |-> "none"] /\ iflag = [i \in Runs |-> FALSE]
  /\ cur = [i \in Runs |-> 1] /\ recording = FALSE
  /\ cut = FALSE /\ abandoned = FALSE /\ orphaned = FALSE /\ twice = FALSE

-----------------------------------------------------------------------------
(* The client.  start, stop and release are synchronized: one at a time.    *)

isRunning == audioThread # None /\ apc[audioThread] # "ended"

(* No caller tests whether a thread is running, and start overwrites the one it
   knows.  Nobody keeps a wrapper that was released. *)
Start ==
  /\ owner = "idle" /\ ~released
  /\ starts < MaxStarts
  /\ starts' = starts + 1
  /\ audioThread' = starts + 1
  /\ apc' = [apc EXCEPT ![starts + 1] = "begin"]
  /\ twice' = (twice \/ isRunning)
  /\ UNCHANGED <<owner, released, aflag, inBuf, playing, input, cut, abandoned, orphaned>>

Stop ==
  /\ owner = "idle"
  /\ audioThread # None
  /\ aflag' = [aflag EXCEPT ![audioThread] = TRUE]
  /\ owner' = "stopping"
  /\ UNCHANGED <<starts, audioThread, released, apc, inBuf, playing, input, history>>

StopJoined ==
  /\ owner = "stopping"
  /\ apc[audioThread] = "ended"
  /\ audioThread' = None
  /\ owner' = "idle"
  /\ UNCHANGED <<starts, released, render, input, history>>

(* Faulty variant: the recorder is released without being stopped. *)
ReleaseAtOnce ==
  /\ owner = "idle" /\ ~released
  /\ audioThread = None
  /\ released' = TRUE
  /\ UNCHANGED <<owner, starts, audioThread, render, input, history>>

(* release: its call of stop is a Stop before it, then rec.release stops and
   joins whatever input thread is left. *)
Release ==
  /\ owner = "idle" /\ ~released
  /\ audioThread = None
  /\ RecFree
  /\ \/ /\ inputThread = None
        /\ released' = TRUE
        /\ UNCHANGED <<owner, iflag>>
     \/ /\ inputThread # None
        /\ iflag' = [iflag EXCEPT ![inputThread] = TRUE]
        /\ owner' = "releasing"
        /\ UNCHANGED released
  /\ UNCHANGED <<starts, audioThread, render, inputThread, ipc, cur, recording, history>>

ReleaseJoined ==
  /\ owner = "releasing"
  /\ ipc[inputThread] = "ended"
  /\ inputThread' = None
  /\ released' = TRUE
  /\ owner' = "idle"
  /\ UNCHANGED <<starts, audioThread, render, ipc, iflag, cur, recording, history>>

-----------------------------------------------------------------------------
(* The rendering thread.                                                   *)

(* rec.start and track.play *)
Begin(i) ==
  /\ apc[i] = "begin"
  /\ RecFree
  /\ orphaned' = (orphaned \/ (inputThread # None /\ ipc[inputThread] # "ended"))
  /\ inputThread' = i
  /\ ipc' = [ipc EXCEPT ![i] = "start"]
  /\ playing' = TRUE
  /\ apc' = [apc EXCEPT ![i] = "take"]
  /\ UNCHANGED <<client, aflag, inBuf, iflag, cur, recording, cut, abandoned, twice>>

(* rec.take meets an input thread in its put. *)
Take(i, k) ==
  /\ apc[i] = "take" /\ ~aflag[i]
  /\ ipc[k] = "put"
  /\ inBuf' = [inBuf EXCEPT ![i] = <<k, cur[k]>>]
  /\ ipc' = [ipc EXCEPT ![k] = "swap"]
  /\ apc' = [apc EXCEPT ![i] = "test"]
  /\ UNCHANGED <<client, aflag, playing, inputThread, iflag, cur, recording, history>>

(* The handler of InterruptedException returns from run. *)
TakeInterrupted(i) ==
  /\ apc[i] = "take" /\ aflag[i]
  /\ aflag' = [aflag EXCEPT ![i] = FALSE]
  /\ apc' = [apc EXCEPT ![i] = "ended"]
  /\ cut' = TRUE
  /\ UNCHANGED <<client, inBuf, playing, input, abandoned, orphaned, twice>>

(* while (!Thread.interrupted()) *)
Test(i) ==
  /\ apc[i] = "test"
  /\ apc' = [apc EXCEPT ![i] = IF aflag[i] THEN "stopRec" ELSE "process"]
  /\ aflag' = [aflag EXCEPT ![i] = FALSE]
  /\ UNCHANGED <<client, inBuf, playing, input, history>>

(* process reads inBuf; an error ends the loop. *)
Process(i, ok) ==
  /\ apc[i] = "process"
  /\ apc' = [apc EXCEPT ![i] = IF ok THEN "poll" ELSE "stopRec"]
  /\ UNCHANGED <<client, aflag, inBuf, playing, input, history>>

Poll(i, k) ==
  /\ apc[i] = "poll"
  /\ ipc[k] = "put"
  /\ inBuf' = [inBuf EXCEPT ![i] = <<k, cur[k]>>]
  /\ ipc' = [ipc EXCEPT ![k] = "swap"]
  /\ apc' = [apc EXCEPT ![i] = "test"]
  /\ UNCHANGED <<client, aflag, playing, inputThread, iflag, cur, recording, history>>

(* "no input buffer available": the last one is processed again. *)
PollEmpty(i) ==
  /\ apc[i] = "poll"
  /\ \A k \in Runs : ipc[k] # "put"
  /\ apc' = [apc EXCEPT ![i] = "test"]
  /\ UNCHANGED <<client, aflag, inBuf, playing, input, history>>

(* rec.stop, which has nothing to join when another rendering thread or release
   has stopped the input thread: then track.stop follows at once. *)
StopRec(i) ==
  /\ apc[i] = "stopRec"
  /\ RecFree
  /\ \/ /\ inputThread # None
        /\ iflag' = [iflag EXCEPT ![inputThread] = TRUE]
        /\ apc' = [apc EXCEPT ![i] = "joinRec"]
        /\ UNCHANGED playing
     \/ /\ inputThread = None
        /\ playing' = FALSE
        /\ apc' = [apc EXCEPT ![i] = "ended"]
        /\ UNCHANGED iflag
  /\ UNCHANGED <<client, aflag, inBuf, inputThread, ipc, cur, recording, history>>

(* Faulty variant: the track is left playing. *)
JoinRecOnly(i) ==
  /\ apc[i] = "joinRec"
  /\ \/ ipc[inputThread] = "ended" /\ UNCHANGED abandoned
     \/ ipc[inputThread] # "ended" /\ aflag[i] /\ abandoned' = TRUE
  /\ inputThread' = None
  /\ apc' = [apc EXCEPT ![i] = "ended"]
  /\ UNCHANGED <<client, aflag, inBuf, playing, ipc, iflag, cur, recording, cut, orphaned, twice>>

(* Faulty variant: rec.stop interrupts its thread but does not join it. *)
JoinRecWithoutWaiting(i) ==
  /\ apc[i] = "joinRec"
  /\ inputThread' = None
  /\ playing' = FALSE
  /\ apc' = [apc EXCEPT ![i] = "ended"]
  /\ UNCHANGED <<client, aflag, inBuf, ipc, iflag, cur, recording, history>>

(* The join in rec.stop ends with the input thread or with an interrupt,
   which rec.stop preserves; then track.stop. *)
JoinRec(i) ==
  /\ apc[i] = "joinRec"
  /\ \/ ipc[inputThread] = "ended" /\ UNCHANGED abandoned
     \/ ipc[inputThread] # "ended" /\ aflag[i] /\ abandoned' = TRUE
  /\ inputThread' = None
  /\ playing' = FALSE
  /\ apc' = [apc EXCEPT ![i] = "ended"]
  /\ UNCHANGED <<client, aflag, inBuf, ipc, iflag, cur, recording, cut, orphaned, twice>>

-----------------------------------------------------------------------------
(* The input thread.                                                       *)

StartRecording(k) ==
  /\ ipc[k] = "start"
  /\ recording' = TRUE
  /\ ipc' = [ipc EXCEPT ![k] = "fill"]
  /\ UNCHANGED <<client, render, inputThread, iflag, cur, history>>

(* Faulty variant: the interrupt flag is cleared and nothing follows. *)
FillLosingInterrupt(k) ==
  /\ ipc[k] = "fill"
  /\ recording
  /\ ipc' = [ipc EXCEPT ![k] = "put"]
  /\ iflag' = [iflag EXCEPT ![k] = FALSE]
  /\ UNCHANGED <<client, render, inputThread, cur, recording, history>>

(* A buffer is filled, unless the recorder was stopped: then read returns an
   error and the inner loop spins. *)
Fill(k) ==
  /\ ipc[k] = "fill"
  /\ recording
  /\ ipc' = [ipc EXCEPT ![k] = "put"]
  /\ UNCHANGED <<client, render, inputThread, iflag, cur, recording, history>>

(* The interrupt is noticed by either loop, or by put, whichever comes first;
   all three lead to rec.stop of the AudioRecord. *)
InputInterrupted(k) ==
  /\ ipc[k] \in {"fill", "put", "swap"}
  /\ iflag[k]
  /\ iflag' = [iflag EXCEPT ![k] = FALSE]
  /\ ipc' = [ipc EXCEPT ![k] = "ended"]
  /\ recording' = FALSE
  /\ UNCHANGED <<client, render, inputThread, cur, history>>

(* Faulty variant: the buffer handed over is filled again. *)
SwapForgotten(k) ==
  /\ ipc[k] = "swap" /\ ~iflag[k]
  /\ ipc' = [ipc EXCEPT ![k] = "fill"]
  /\ UNCHANGED <<client, render, inputThread, iflag, cur, recording, history>>

(* Faulty variant: a third buffer is expected after the second. *)
SwapToThird(k) ==
  /\ ipc[k] = "swap" /\ ~iflag[k]
  /\ cur' = [cur EXCEPT ![k] = @ + 1]
  /\ ipc' = [ipc EXCEPT ![k] = "fill"]
  /\ UNCHANGED <<client, render, inputThread, iflag, recording, history>>

(* The buffers change roles, and the outer loop goes on if the flag is clear. *)
Swap(k) ==
  /\ ipc[k] = "swap" /\ ~iflag[k]
  /\ cur' = [cur EXCEPT ![k] = 3 - @]
  /\ ipc' = [ipc EXCEPT ![k] = "fill"]
  /\ UNCHANGED <<client, render, inputThread, iflag, recording, history>>

-----------------------------------------------------------------------------

Client == Start \/ Stop \/ StopJoined \/ Release \/ ReleaseJoined

Render(i) ==
  \/ Begin(i) \/ TakeInterrupted(i) \/ Test(i) \/ PollEmpty(i) \/ StopRec(i) \/ JoinRec(i)
  \/ \E k \in Runs : Take(i, k) \/ Poll(i, k)
  \/ \E ok \in BOOLEAN : Process(i, ok)

Input(k) == StartRecording(k) \/ Fill(k) \/ InputInterrupted(k) \/ Swap(k)

Next == Client \/ \E i \in Runs : Render(i) \/ Input(i)

(* Both threads run at audio priority and their blocking calls are bounded by
   the sample rate; the client is obliged only to return from its joins. *)
Fairness ==
  /\ WF_vars(StopJoined \/ ReleaseJoined)
  /\ \A i \in Runs : WF_vars(Render(i)) /\ WF_vars(Input(i))

Spec == Init /\ [][Next]_vars /\ Fairness

-----------------------------------------------------------------------------
(* Properties.                                                             *)

Buffers == {<<>>} \cup (Runs \X {1, 2})

(* Type correctness. *)
TypeOK ==
  /\ owner \in {"idle", "stopping", "releasing"}
  /\ starts \in 0..MaxStarts /\ audioThread \in 0..starts /\ inputThread \in Runs \cup {None}
  /\ playing \in BOOLEAN /\ released \in BOOLEAN /\ recording \in BOOLEAN
  /\ apc \in [Runs -> {"none", "begin", "take", "test", "process", "poll", "stopRec",
                       "joinRec", "ended"}]
  /\ ipc \in [Runs -> {"none", "start", "fill", "put", "swap", "ended"}]
  /\ aflag \in [Runs -> BOOLEAN] /\ iflag \in [Runs -> BOOLEAN]
  /\ inBuf \in [Runs -> Buffers] /\ cur \in [Runs -> {1, 2}]
  /\ cut \in BOOLEAN /\ abandoned \in BOOLEAN /\ orphaned \in BOOLEAN /\ twice \in BOOLEAN

(* Two buffers are enough for one rendering thread: none is filled while it
   still processes it, however many times poll comes too early.  A second start
   of a running wrapper breaks this: its thread takes the other buffer. *)
BufferExclusive ==
  ~twice =>
    \A i, k \in Runs : apc[i] = "process" /\ ipc[k] = "fill" => inBuf[i] # <<k, cur[k]>>

Silent == ~playing /\ \A k \in Runs : ipc[k] \in Ended

(* The comment of stop: "Stop the audio thread as well as AudioTrack and
   AudioRecord objects"; so both are silent whenever stop has returned. *)
StopMeansStopped == starts > 0 /\ audioThread = None => Silent

(* What the code does guarantee: stop silences everything if the one thread it
   knows is the only one rendering, had its first buffer and was not interrupted
   in its own clean-up. *)
StopSilencesUnlessCut == ~twice /\ ~cut /\ ~abandoned => StopMeansStopped

(* No thread of either kind touches the AudioTrack and the AudioRecord after
   release, unless it was forgotten: by an interrupted clean-up, or by a start
   over a live rendering or input thread. *)
ReleasedQuiet ==
  released /\ ~abandoned /\ ~orphaned /\ ~twice =>
    \A i \in Runs : apc[i] \in Ended /\ ipc[i] \in Ended

(* An input thread is forgotten alive only where a clean-up was left out or cut
   short or two threads render, and while none is, no input thread reads a
   recorder that another one has stopped, two rendering threads or not: it would
   spin on the error code and never hand over a buffer again. *)
FillsWhileRecording ==
  /\ orphaned => twice \/ cut \/ abandoned
  /\ ~abandoned /\ ~orphaned => \A k \in Runs : ipc[k] = "fill" => recording

(* stop and release return, however many threads render: the interrupt reaches
   the one joined wherever it is, and no flag that Thread.interrupted clears is
   lost.  The same holds of an input thread that nobody joins any more. *)
CallsReturn ==
  /\ owner # "idle" ~> owner = "idle"
  /\ \A k \in Runs : iflag[k] ~> ipc[k] = "ended"
=============================================================================
