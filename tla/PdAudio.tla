------------------------------ MODULE PdAudio ------------------------------
(***************************************************************************)
(* PdAudio.java when the native library renders the audio: its synchronized*)
(* static methods, called by any thread, the main looper's queue of        *)
(* Runnables, and the audio stream of z_jni_opensl.c.                      *)
(*                                                                         *)
(* The looper's queue is two counters: the instances of pollRunner and the *)
(* flushes that are waiting.  Pd's message queue is one bit, whether it    *)
(* holds messages (PdMessageQueue models the rest).                        *)
(***************************************************************************)
EXTENDS Naturals

CONSTANT MaxPosted   \* bound of the model: Runnables of a kind in the looper

ASSUME MaxPostedAssumption == MaxPosted \in Nat \ {0}

VARIABLES
  open,         \* streamPtr is not NULL
  running,      \* opensl_is_running
  dsp,          \* computeAudio(true) was called
  polls,        \* instances of pollRunner in the looper's queue
  flushes,      \* flushes in the looper's queue
  main,         \* what the main thread runs: "other", "poll", "flush"
  unread,       \* Pd's message queue is not empty
  late,         \* ... with a message sent when nobody was left to read it (history)
  started,      \* startAudio was called since the last stop (history)
  twice,        \* audio was started while a poller was there (history)
  overlap       \* audio was stopped while pollRunner ran (history)

vars == <<open, running, dsp, polls, flushes, main, unread, late, started, twice, overlap>>

Init ==
  /\ open = FALSE /\ running = FALSE /\ dsp = FALSE
  /\ polls = 0 /\ flushes = 0 /\ main = "other"
  /\ unread = FALSE /\ late = FALSE
  /\ started = FALSE /\ twice = FALSE /\ overlap = FALSE

Pollers == polls + IF main = "poll" THEN 1 ELSE 0

(* Faulty variant: the poller is left in the queue. *)
StoppedKeepingPoller ==
  /\ running' = FALSE
  /\ flushes < MaxPosted
  /\ polls' = polls
  /\ flushes' = flushes + 1
  /\ started' = FALSE
  /\ overlap' = (overlap \/ main = "poll")

(* stopAudio: pauseAudio, removeCallbacks, and a flush.  removeCallbacks does
   not reach an instance that runs, which will post itself again. *)
Stopped ==
  /\ running' = FALSE
  /\ flushes < MaxPosted
  /\ polls' = 0
  /\ flushes' = flushes + 1
  /\ started' = FALSE
  /\ overlap' = (overlap \/ main = "poll")

(* initAudio returns at once when audio runs and restart is false. *)
InitAudioKept(restart) ==
  /\ running /\ ~restart
  /\ UNCHANGED vars

(* Otherwise it stops audio, closes the stream, and opens a new one, which
   may fail with an IOException. *)
InitAudio(restart, ok) ==
  /\ ~running \/ restart
  /\ Stopped
  /\ open' = ok
  /\ UNCHANGED <<dsp, main, unread, late, twice>>

(* Faulty variant: the poller is not posted. *)
StartAudioWithoutPoller ==
  /\ dsp' = TRUE
  /\ polls' = polls
  /\ running' = open
  /\ started' = TRUE
  /\ twice' = (twice \/ Pollers > 0)
  /\ UNCHANGED <<open, flushes, main, unread, late, overlap>>

(* startAudio posts pollRunner whether or not one is there, and whatever the
   stream answers. *)
StartAudio ==
  /\ polls < MaxPosted
  /\ dsp' = TRUE
  /\ polls' = polls + 1
  /\ running' = open
  /\ started' = TRUE
  /\ twice' = (twice \/ Pollers > 0)
  /\ UNCHANGED <<open, flushes, main, unread, late, overlap>>

StopAudio ==
  /\ Stopped
  /\ UNCHANGED <<open, dsp, main, unread, late, twice>>

Release ==
  /\ Stopped
  /\ open' = FALSE
  /\ UNCHANGED <<dsp, main, unread, late, twice>>

-----------------------------------------------------------------------------
(* The main looper.                                                        *)

(* pollRunner polls the message queue; its callbacks may call the methods
   above before it ends. *)
RunPoll ==
  /\ main = "other"
  /\ polls > 0
  /\ polls' = polls - 1
  /\ main' = "poll"
  /\ unread' = FALSE /\ late' = FALSE
  /\ UNCHANGED <<open, running, dsp, flushes, started, twice, overlap>>

(* Faulty variant: the repost is missing. *)
EndPollForGood ==
  /\ main = "poll"
  /\ main' = "other"
  /\ UNCHANGED <<open, running, dsp, polls, flushes, unread, late, started, twice, overlap>>

(* Faulty variant: it posts itself twice. *)
EndPollPostingTwice ==
  /\ main = "poll"
  /\ main' = "other"
  /\ polls' = polls + 2
  /\ UNCHANGED <<open, running, dsp, flushes, unread, late, started, twice, overlap>>

(* handler.postDelayed(this, 5) *)
EndPoll ==
  /\ main = "poll"
  /\ main' = "other"
  /\ polls' = polls + 1
  /\ UNCHANGED <<open, running, dsp, flushes, unread, late, started, twice, overlap>>

(* Faulty variant: the flush leaves the messages where they are. *)
RunFlushOfMidiOnly ==
  /\ main = "other"
  /\ flushes > 0
  /\ flushes' = flushes - 1
  /\ main' = "flush"
  /\ UNCHANGED <<open, running, dsp, polls, unread, late, started, twice, overlap>>

RunFlush ==
  /\ main = "other"
  /\ flushes > 0
  /\ flushes' = flushes - 1
  /\ main' = "flush"
  /\ unread' = FALSE /\ late' = FALSE
  /\ UNCHANGED <<open, running, dsp, polls, started, twice, overlap>>

EndFlush ==
  /\ main = "flush"
  /\ main' = "other"
  /\ UNCHANGED <<open, running, dsp, polls, flushes, unread, late, started, twice, overlap>>

(* The audio callback emits messages while the stream runs. *)
Emit ==
  /\ running
  /\ unread' = TRUE
  /\ UNCHANGED <<open, running, dsp, polls, flushes, main, late, started, twice, overlap>>

(* What any thread sends to Pd may make the patch answer, audio or not. *)
Send ==
  /\ unread' = TRUE
  /\ late' = (late \/ Pollers + flushes = 0)
  /\ UNCHANGED <<open, running, dsp, polls, flushes, main, started, twice, overlap>>

Looper == RunPoll \/ EndPoll \/ RunFlush \/ EndFlush

Next ==
  \/ \E restart \in BOOLEAN : InitAudioKept(restart) \/ \E ok \in BOOLEAN : InitAudio(restart, ok)
  \/ StartAudio \/ StopAudio \/ Release
  \/ Looper
  \/ Emit \/ Send

(* The looper runs what is posted; a flush, posted without delay, is not
   overtaken for ever by delayed polls. *)
Fairness == WF_vars(Looper) /\ SF_vars(RunPoll) /\ SF_vars(RunFlush)

Spec == Init /\ [][Next]_vars /\ Fairness

-----------------------------------------------------------------------------
(* Properties.                                                             *)

(* Type correctness.  An instance of pollRunner that survives a stop may post
   itself on top of the others. *)
TypeOK ==
  /\ open \in BOOLEAN /\ running \in BOOLEAN /\ dsp \in BOOLEAN /\ unread \in BOOLEAN
  /\ late \in BOOLEAN
  /\ polls \in 0..(MaxPosted + 1) /\ flushes \in 0..MaxPosted
  /\ main \in {"other", "poll", "flush"}
  /\ started \in BOOLEAN /\ twice \in BOOLEAN /\ overlap \in BOOLEAN

(* While audio runs somebody polls, so Pd's bounded queue cannot fill up for
   good: through any sequence of starts, stops and restarts, from any thread
   and from inside the callbacks. *)
PolledWhileRunning == running => Pollers > 0

(* There is one poller between a start and the next stop and none after it,
   unless audio was started twice or stopped while a poll was running, be it
   by one of its callbacks or by another thread. *)
OnePoller == ~twice /\ ~overlap => Pollers = (IF started THEN 1 ELSE 0)

(* The comment in stopAudio: "Flush pending messages."  When the looper has
   nobody left to read the queue, all it can hold is what was sent to Pd
   after that, never something the audio callback emitted. *)
FlushedAfterStop == Pollers = 0 /\ flushes = 0 /\ unread => late

(* Messages that somebody is there to read are read, whatever is started,
   stopped or released in the meantime. *)
EventuallyRead == unread /\ ~late ~> ~unread
=============================================================================
