------------------------- MODULE AudioThreadsProofs -------------------------
(***************************************************************************)
(* Proofs about AudioThreads, for any number of starts: no buffer is       *)
(* filled while it is rendered, and what stop and release leave behind.    *)
(***************************************************************************)
EXTENDS AudioThreads, TLAPS

(* Where a rendering thread has an input thread of its own. *)
Paired == {"take", "test", "process", "poll", "stopRec", "joinRec"}

(* A rendering thread that joins its input thread holds the recorder's monitor,
   alone; and where the client is tells what it joins. *)
Monitored ==
  /\ \A i \in Runs : apc[i] = "joinRec" => inputThread # None /\ owner # "releasing"
  /\ \A i, j \in Runs : apc[i] = "joinRec" /\ apc[j] = "joinRec" => i = j
  /\ owner = "stopping" => audioThread # None
  /\ owner = "releasing" => audioThread = None /\ inputThread # None
  /\ released => audioThread = None

(* If no thread was started over a running one, the only rendering thread is the
   one the client knows, and its input thread is the one the recorder knows. *)
Hierarchy ==
  ~twice =>
    /\ \A i \in Runs : apc[i] \notin Ended => i = audioThread
    /\ \A i \in Runs : apc[i] \in Paired => inputThread = i

(* Then it also holds the buffer that an input thread handed over last: the
   other one is being filled, or the exchange is not finished. *)
LatestTaken ==
  ~twice =>
    \A i, k \in Runs : apc[i] \in {"test", "process", "poll"} =>
      /\ inBuf[i] = <<k, cur[k]>> => ipc[k] \in {"swap", "ended"}
      /\ inBuf[i] = <<k, 3 - cur[k]>> => ipc[k] \in {"fill", "put", "ended"}

(* Unless it was forgotten, the only input thread alive is the one that the
   recorder knows, and the recorder records for it. *)
Known ==
  ~abandoned /\ ~orphaned =>
    /\ \A k \in Runs : ipc[k] \notin Ended => k = inputThread
    /\ \A k \in Runs : ipc[k] \in {"fill", "put", "swap"} => recording
    /\ released /\ ~twice => inputThread = None

(* Unless a rendering thread ended without its clean-up or there were two, no
   input thread is forgotten, and the input and the track run only under a
   rendering thread. *)
CleanedUp ==
  ~twice /\ ~cut /\ ~abandoned =>
    /\ ~orphaned
    /\ \A k \in Runs : ipc[k] \notin Ended => k = inputThread
    /\ inputThread # None \/ playing =>
         audioThread # None /\ apc[audioThread] \in Paired

ThreadsInv == TypeOK /\ Monitored /\ Hierarchy /\ LatestTaken /\ Known /\ CleanedUp

-----------------------------------------------------------------------------
(* The invariant holds before anything is started. *)
LEMMA AtFirst == Init => ThreadsInv
<1> SUFFICES ASSUME Init PROVE ThreadsInv
  OBVIOUS
<1>1. TypeOK
  <2>1. 0 \in 0..MaxStarts /\ 0 \in 0..0 /\ 0 \in Runs \cup {0}
    BY MaxStartsAssumption
  <2> QED
    BY <2>1 DEF Init, TypeOK, None, Buffers
<1>2. Monitored /\ Hierarchy /\ LatestTaken /\ Known /\ CleanedUp
  BY DEF Init, Monitored, Hierarchy, LatestTaken, Known, CleanedUp, Ended, Paired, None
<1> QED
  BY <1>1, <1>2 DEF ThreadsInv

(* The client starts a rendering thread, over a running one or not. *)
LEMMA Starting ==
  ASSUME ThreadsInv, Start
  PROVE  ThreadsInv'
<1> USE MaxStartsAssumption DEF ThreadsInv, client, render, input, history, Runs, None
<1>0. ~twice' => ~twice /\ ~isRunning
  BY DEF Start
<1>1. TypeOK'
  BY DEF Start, TypeOK, Buffers
<1>6. Monitored'
  BY DEF Start, TypeOK, Monitored
<1>2. Hierarchy'
  <2> SUFFICES ASSUME ~twice, ~isRunning PROVE Hierarchy'
    BY <1>0 DEF Hierarchy
  <2>1. \A i \in Runs : apc[i] \in Ended
    BY DEF TypeOK, Hierarchy, Ended, isRunning
  <2> QED
    BY <2>1 DEF Start, TypeOK, Hierarchy, Ended, Paired
<1>3. LatestTaken'
  BY <1>0 DEF Start, TypeOK, LatestTaken
<1>4. Known'
  BY <1>0 DEF Start, TypeOK, Known
<1>5. CleanedUp'
  <2> SUFFICES ASSUME ~twice, ~isRunning, ~cut, ~abandoned PROVE CleanedUp'
    BY <1>0 DEF Start, CleanedUp
  <2>1. inputThread = None /\ ~playing
    BY DEF CleanedUp, Paired, isRunning
  <2> QED
    BY <2>1 DEF Start, TypeOK, CleanedUp, Ended
<1> QED
  BY <1>1, <1>2, <1>3, <1>4, <1>5, <1>6

(* It interrupts the rendering thread... *)
LEMMA Stopping ==
  ASSUME ThreadsInv, Stop
  PROVE  ThreadsInv'
<1> USE MaxStartsAssumption DEF ThreadsInv, Stop, client, render, input, history, Runs, None
<1>1. TypeOK'
  BY DEF TypeOK, Buffers
<1>6. Monitored'
  BY DEF TypeOK, Monitored, RecFree
<1>2. Hierarchy'
  BY DEF TypeOK, Monitored, Hierarchy, Ended, Paired
<1>3. LatestTaken'
  BY DEF TypeOK, Hierarchy, LatestTaken, Ended, Paired
<1>4. Known'
  BY DEF TypeOK, Monitored, Hierarchy, Known, Ended, Paired
<1>5. CleanedUp'
  BY DEF TypeOK, Monitored, Hierarchy, CleanedUp, Ended, Paired
<1> QED
  BY <1>1, <1>2, <1>3, <1>4, <1>5, <1>6

(* ...and waits for its end. *)
LEMMA StoppingJoined ==
  ASSUME ThreadsInv, StopJoined
  PROVE  ThreadsInv'
<1> USE MaxStartsAssumption DEF ThreadsInv, StopJoined, client, render, input, history, Runs, None
<1>1. TypeOK'
  BY DEF TypeOK, Buffers
<1>6. Monitored'
  BY DEF TypeOK, Monitored, RecFree
<1>2. Hierarchy'
  BY DEF TypeOK, Monitored, Hierarchy, Ended, Paired
<1>3. LatestTaken'
  BY DEF TypeOK, Hierarchy, LatestTaken, Ended, Paired
<1>4. Known'
  BY DEF TypeOK, Monitored, Hierarchy, Known, Ended, Paired
<1>5. CleanedUp'
  BY DEF TypeOK, Monitored, Hierarchy, CleanedUp, Ended, Paired
<1> QED
  BY <1>1, <1>2, <1>3, <1>4, <1>5, <1>6

(* It releases the recorder, interrupting the input thread that is left... *)
LEMMA Releasing ==
  ASSUME ThreadsInv, Release
  PROVE  ThreadsInv'
<1> USE MaxStartsAssumption DEF ThreadsInv, Release, client, render, input, history, Runs, None
<1>1. TypeOK'
  BY DEF TypeOK, Buffers
<1>6. Monitored'
  BY DEF TypeOK, Monitored, RecFree
<1>2. Hierarchy'
  BY DEF TypeOK, Monitored, Hierarchy, Ended, Paired
<1>3. LatestTaken'
  BY DEF TypeOK, Hierarchy, LatestTaken, Ended, Paired
<1>4. Known'
  BY DEF TypeOK, Monitored, Hierarchy, Known, Ended, Paired
<1>5. CleanedUp'
  BY DEF TypeOK, Monitored, Hierarchy, CleanedUp, Ended, Paired
<1> QED
  BY <1>1, <1>2, <1>3, <1>4, <1>5, <1>6

(* ...and waits for its end. *)
LEMMA ReleasingJoined ==
  ASSUME ThreadsInv, ReleaseJoined
  PROVE  ThreadsInv'
<1> USE MaxStartsAssumption DEF ThreadsInv, ReleaseJoined, client, render, input, history, Runs, None
<1>1. TypeOK'
  BY DEF TypeOK, Buffers
<1>6. Monitored'
  BY DEF TypeOK, Monitored, RecFree
<1>2. Hierarchy'
  BY DEF TypeOK, Monitored, Hierarchy, Ended, Paired
<1>3. LatestTaken'
  BY DEF TypeOK, Hierarchy, LatestTaken, Ended, Paired
<1>4. Known'
  BY DEF TypeOK, Monitored, Hierarchy, Known, Ended, Paired
<1>5. CleanedUp'
  BY DEF TypeOK, Monitored, Hierarchy, CleanedUp, Ended, Paired
<1> QED
  BY <1>1, <1>2, <1>3, <1>4, <1>5, <1>6

(* A rendering thread starts its input thread and the track. *)
LEMMA Beginning ==
  ASSUME ThreadsInv, NEW i \in Runs, Begin(i)
  PROVE  ThreadsInv'
<1> USE MaxStartsAssumption DEF ThreadsInv, Begin, client, render, input, history, Runs, None
<1>0. /\ inputThread' = i /\ playing'
      /\ apc' = [apc EXCEPT ![i] = "take"] /\ ipc' = [ipc EXCEPT ![i] = "start"]
      /\ \A k \in Runs : ipc'[k] = IF k = i THEN "start" ELSE ipc[k]
  BY DEF TypeOK
<1>9. ~twice => i = audioThread /\ \A j \in Runs : apc'[j] \in Ended \/ j = i
  BY DEF TypeOK, Hierarchy, Ended
<1>1. TypeOK'
  <2>1. orphaned' \in BOOLEAN
    BY DEF TypeOK
  <2> QED
    BY <1>0, <2>1 DEF TypeOK
<1>6. Monitored'
  BY DEF TypeOK, Monitored, RecFree
<1>2. Hierarchy'
  BY <1>0, <1>9 DEF TypeOK, Hierarchy, Ended, Paired
<1>3. LatestTaken'
  BY <1>0, <1>9 DEF TypeOK, LatestTaken, Ended
<1>7. (\A k \in Runs : ipc[k] \notin Ended => k = inputThread) /\ ~orphaned' =>
        \A k \in Runs : ipc'[k] \notin Ended => k = i
  <2> SUFFICES ASSUME \A k \in Runs : ipc[k] \notin Ended => k = inputThread, ~orphaned',
                      NEW k \in Runs, ipc'[k] \notin Ended, k # i
               PROVE  FALSE
    OBVIOUS
  <2>1. ipc[k] \notin Ended /\ k = inputThread
    BY <1>0
  <2>2. orphaned' = (orphaned \/ (inputThread # None /\ ipc[inputThread] # "ended"))
    OBVIOUS
  <2>3. inputThread # None /\ ipc[inputThread] # "ended"
    BY <2>1 DEF Ended
  <2>4. orphaned'
    BY <2>2, <2>3
  <2> QED
    BY <2>4
<1>8. ~orphaned' => ~orphaned
  <2>1. orphaned' = (orphaned \/ (inputThread # None /\ ipc[inputThread] # "ended"))
    OBVIOUS
  <2> QED
    BY <2>1
<1>4. Known'
  <2> SUFFICES ASSUME ~abandoned, ~orphaned' PROVE Known'
    BY DEF Known
  <2>1. \A k \in Runs : ipc'[k] \notin Ended => k = i
    BY <1>7, <1>8 DEF Known
  <2>2. \A k \in Runs : ipc'[k] \in {"fill", "put", "swap"} => recording
    BY <1>0, <1>8 DEF Known
  <2>3. ~twice => ~released
    BY <1>9 DEF Monitored
  <2> QED
    BY <1>0, <2>1, <2>2, <2>3 DEF Known
<1>5. CleanedUp'
  <2> SUFFICES ASSUME ~twice, ~cut, ~abandoned PROVE CleanedUp'
    BY DEF CleanedUp
  <2>1. inputThread = None
    BY <1>9 DEF CleanedUp, TypeOK, Paired
  <2>2. \A k \in Runs : ipc[k] \in Ended
    BY <2>1 DEF CleanedUp
  <2>3. apc'[i] \in Paired
    BY <1>0 DEF TypeOK, Paired
  <2>4. ~orphaned'
    <3>1. orphaned' = (orphaned \/ (inputThread # None /\ ipc[inputThread] # "ended"))
      OBVIOUS
    <3>2. ~orphaned
      BY DEF CleanedUp
    <3> QED
      BY <3>1, <3>2, <2>1
  <2> QED
    BY <1>0, <1>9, <2>2, <2>3, <2>4 DEF CleanedUp, Ended
<1> QED
  BY <1>1, <1>2, <1>3, <1>4, <1>5, <1>6

(* It takes its first buffer. *)
LEMMA Taking ==
  ASSUME ThreadsInv, NEW i \in Runs, NEW k \in Runs, Take(i, k)
  PROVE  ThreadsInv'
<1> USE MaxStartsAssumption DEF ThreadsInv, Take, client, render, input, history, Runs, None
<1>1. TypeOK'
  BY DEF TypeOK, Buffers
<1>6. Monitored'
  BY DEF TypeOK, Monitored, RecFree
<1>2. Hierarchy'
  BY DEF TypeOK, Monitored, Hierarchy, Ended, Paired
<1>3. LatestTaken'
  <2> SUFFICES ASSUME ~twice PROVE LatestTaken'
    BY DEF LatestTaken
  <2>1. /\ \A j \in Runs : apc'[j] \in {"test", "process", "poll"} => j = i
        /\ inBuf'[i] = <<k, cur[k]>> /\ ipc'[k] = "swap" /\ cur[k] \in {1, 2}
    BY DEF TypeOK, Hierarchy, Ended
  <2>2. \A m \in Runs : inBuf'[i] = <<m, cur[m]>> => m = k
    BY <2>1
  <2>3. \A m \in Runs : inBuf'[i] # <<m, 3 - cur[m]>>
    BY <2>1
  <2> QED
    BY <2>1, <2>2, <2>3 DEF LatestTaken
<1>4. Known'
  BY DEF TypeOK, Monitored, Hierarchy, Known, Ended, Paired
<1>5. CleanedUp'
  BY DEF TypeOK, Monitored, Hierarchy, CleanedUp, Ended, Paired
<1> QED
  BY <1>1, <1>2, <1>3, <1>4, <1>5, <1>6

(* It is interrupted before that. *)
LEMMA TakingInterrupted ==
  ASSUME ThreadsInv, NEW i \in Runs, TakeInterrupted(i)
  PROVE  ThreadsInv'
<1> USE MaxStartsAssumption DEF ThreadsInv, TakeInterrupted, client, render, input, history, Runs, None
<1>1. TypeOK'
  BY DEF TypeOK, Buffers
<1>6. Monitored'
  BY DEF TypeOK, Monitored, RecFree
<1>2. Hierarchy'
  BY DEF TypeOK, Monitored, Hierarchy, Ended, Paired
<1>3. LatestTaken'
  BY DEF TypeOK, Hierarchy, LatestTaken, Ended, Paired
<1>4. Known'
  BY DEF TypeOK, Monitored, Hierarchy, Known, Ended, Paired
<1>5. CleanedUp'
  BY DEF TypeOK, Monitored, Hierarchy, CleanedUp, Ended, Paired
<1> QED
  BY <1>1, <1>2, <1>3, <1>4, <1>5, <1>6

(* It tests its flag. *)
LEMMA Testing ==
  ASSUME ThreadsInv, NEW i \in Runs, Test(i)
  PROVE  ThreadsInv'
<1> USE MaxStartsAssumption DEF ThreadsInv, Test, client, render, input, history, Runs, None
<1>1. TypeOK'
  BY DEF TypeOK, Buffers
<1>6. Monitored'
  BY DEF TypeOK, Monitored, RecFree
<1>2. Hierarchy'
  BY DEF TypeOK, Monitored, Hierarchy, Ended, Paired
<1>3. LatestTaken'
  BY DEF TypeOK, Hierarchy, LatestTaken, Ended, Paired
<1>4. Known'
  BY DEF TypeOK, Monitored, Hierarchy, Known, Ended, Paired
<1>5. CleanedUp'
  BY DEF TypeOK, Monitored, Hierarchy, CleanedUp, Ended, Paired
<1> QED
  BY <1>1, <1>2, <1>3, <1>4, <1>5, <1>6

(* It renders a buffer. *)
LEMMA Processing ==
  ASSUME ThreadsInv, NEW i \in Runs, NEW ok \in BOOLEAN, Process(i, ok)
  PROVE  ThreadsInv'
<1> USE MaxStartsAssumption DEF ThreadsInv, Process, client, render, input, history, Runs, None
<1>1. TypeOK'
  BY DEF TypeOK, Buffers
<1>6. Monitored'
  BY DEF TypeOK, Monitored, RecFree
<1>2. Hierarchy'
  BY DEF TypeOK, Monitored, Hierarchy, Ended, Paired
<1>3. LatestTaken'
  BY DEF TypeOK, Hierarchy, LatestTaken, Ended, Paired
<1>4. Known'
  BY DEF TypeOK, Monitored, Hierarchy, Known, Ended, Paired
<1>5. CleanedUp'
  BY DEF TypeOK, Monitored, Hierarchy, CleanedUp, Ended, Paired
<1> QED
  BY <1>1, <1>2, <1>3, <1>4, <1>5, <1>6

(* It finds another buffer... *)
LEMMA Polling ==
  ASSUME ThreadsInv, NEW i \in Runs, NEW k \in Runs, Poll(i, k)
  PROVE  ThreadsInv'
<1> USE MaxStartsAssumption DEF ThreadsInv, Poll, client, render, input, history, Runs, None
<1>1. TypeOK'
  BY DEF TypeOK, Buffers
<1>6. Monitored'
  BY DEF TypeOK, Monitored, RecFree
<1>2. Hierarchy'
  BY DEF TypeOK, Monitored, Hierarchy, Ended, Paired
<1>3. LatestTaken'
  <2> SUFFICES ASSUME ~twice PROVE LatestTaken'
    BY DEF LatestTaken
  <2>1. /\ \A j \in Runs : apc'[j] \in {"test", "process", "poll"} => j = i
        /\ inBuf'[i] = <<k, cur[k]>> /\ ipc'[k] = "swap" /\ cur[k] \in {1, 2}
    BY DEF TypeOK, Hierarchy, Ended
  <2>2. \A m \in Runs : inBuf'[i] = <<m, cur[m]>> => m = k
    BY <2>1
  <2>3. \A m \in Runs : inBuf'[i] # <<m, 3 - cur[m]>>
    BY <2>1
  <2> QED
    BY <2>1, <2>2, <2>3 DEF LatestTaken
<1>4. Known'
  BY DEF TypeOK, Monitored, Hierarchy, Known, Ended, Paired
<1>5. CleanedUp'
  BY DEF TypeOK, Monitored, Hierarchy, CleanedUp, Ended, Paired
<1> QED
  BY <1>1, <1>2, <1>3, <1>4, <1>5, <1>6

(* ...or none. *)
LEMMA PollingEmpty ==
  ASSUME ThreadsInv, NEW i \in Runs, PollEmpty(i)
  PROVE  ThreadsInv'
<1> USE MaxStartsAssumption DEF ThreadsInv, PollEmpty, client, render, input, history, Runs, None
<1>1. TypeOK'
  BY DEF TypeOK, Buffers
<1>6. Monitored'
  BY DEF TypeOK, Monitored, RecFree
<1>2. Hierarchy'
  BY DEF TypeOK, Monitored, Hierarchy, Ended, Paired
<1>3. LatestTaken'
  BY DEF TypeOK, Hierarchy, LatestTaken, Ended, Paired
<1>4. Known'
  BY DEF TypeOK, Monitored, Hierarchy, Known, Ended, Paired
<1>5. CleanedUp'
  BY DEF TypeOK, Monitored, Hierarchy, CleanedUp, Ended, Paired
<1> QED
  BY <1>1, <1>2, <1>3, <1>4, <1>5, <1>6

(* It interrupts its input thread... *)
LEMMA StoppingRec ==
  ASSUME ThreadsInv, NEW i \in Runs, StopRec(i)
  PROVE  ThreadsInv'
<1> USE MaxStartsAssumption DEF ThreadsInv, StopRec, client, render, input, history, Runs, None
<1>1. TypeOK'
  BY DEF TypeOK, Buffers
<1>6. Monitored'
  BY DEF TypeOK, Monitored, RecFree
<1>2. Hierarchy'
  BY DEF TypeOK, Monitored, Hierarchy, Ended, Paired
<1>3. LatestTaken'
  BY DEF TypeOK, Hierarchy, LatestTaken, Ended, Paired
<1>4. Known'
  BY DEF TypeOK, Monitored, Hierarchy, Known, Ended, Paired
<1>5. CleanedUp'
  BY DEF TypeOK, Monitored, Hierarchy, CleanedUp, Ended, Paired
<1> QED
  BY <1>1, <1>2, <1>3, <1>4, <1>5, <1>6

(* ...and waits for its end, or is interrupted itself. *)
LEMMA JoiningRec ==
  ASSUME ThreadsInv, NEW i \in Runs, JoinRec(i)
  PROVE  ThreadsInv'
<1> USE MaxStartsAssumption DEF ThreadsInv, JoinRec, client, render, input, history, Runs, None
<1>1. TypeOK'
  <2>1. abandoned' \in BOOLEAN
    BY DEF TypeOK
  <2>2. inputThread' \in Runs \cup {None}
    BY DEF TypeOK
  <2>3. apc' \in [Runs -> {"none", "begin", "take", "test", "process", "poll", "stopRec",
                          "joinRec", "ended"}]
    BY DEF TypeOK
  <2> QED
    BY <2>1, <2>2, <2>3 DEF TypeOK
<1>6. Monitored'
  BY DEF TypeOK, Monitored, RecFree
<1>2. Hierarchy'
  BY DEF TypeOK, Monitored, Hierarchy, Ended, Paired
<1>3. LatestTaken'
  BY DEF TypeOK, Hierarchy, LatestTaken, Ended, Paired
<1>4. Known'
  BY DEF TypeOK, Monitored, Hierarchy, Known, Ended, Paired
<1>5. CleanedUp'
  BY DEF TypeOK, Monitored, Hierarchy, CleanedUp, Ended, Paired
<1> QED
  BY <1>1, <1>2, <1>3, <1>4, <1>5, <1>6

(* An input thread starts the recorder. *)
LEMMA StartingToRecord ==
  ASSUME ThreadsInv, NEW k \in Runs, StartRecording(k)
  PROVE  ThreadsInv'
<1> USE MaxStartsAssumption DEF ThreadsInv, StartRecording, client, render, input, history, Runs, None
<1>1. TypeOK'
  BY DEF TypeOK, Buffers
<1>6. Monitored'
  BY DEF TypeOK, Monitored, RecFree
<1>2. Hierarchy'
  BY DEF TypeOK, Monitored, Hierarchy, Ended, Paired
<1>3. LatestTaken'
  BY DEF TypeOK, Hierarchy, LatestTaken, Ended, Paired
<1>4. Known'
  BY DEF TypeOK, Monitored, Hierarchy, Known, Ended, Paired
<1>5. CleanedUp'
  BY DEF TypeOK, Monitored, Hierarchy, CleanedUp, Ended, Paired
<1> QED
  BY <1>1, <1>2, <1>3, <1>4, <1>5, <1>6

(* It fills a buffer. *)
LEMMA Filling ==
  ASSUME ThreadsInv, NEW k \in Runs, Fill(k)
  PROVE  ThreadsInv'
<1> USE MaxStartsAssumption DEF ThreadsInv, Fill, client, render, input, history, Runs, None
<1>1. TypeOK'
  BY DEF TypeOK, Buffers
<1>6. Monitored'
  BY DEF TypeOK, Monitored, RecFree
<1>2. Hierarchy'
  BY DEF TypeOK, Monitored, Hierarchy, Ended, Paired
<1>3. LatestTaken'
  BY DEF TypeOK, Hierarchy, LatestTaken, Ended, Paired
<1>4. Known'
  BY DEF TypeOK, Monitored, Hierarchy, Known, Ended, Paired
<1>5. CleanedUp'
  BY DEF TypeOK, Monitored, Hierarchy, CleanedUp, Ended, Paired
<1> QED
  BY <1>1, <1>2, <1>3, <1>4, <1>5, <1>6

(* It notices its interrupt and stops the recorder. *)
LEMMA InputEnding ==
  ASSUME ThreadsInv, NEW k \in Runs, InputInterrupted(k)
  PROVE  ThreadsInv'
<1> USE MaxStartsAssumption DEF ThreadsInv, InputInterrupted, client, render, input, history, Runs, None
<1>1. TypeOK'
  BY DEF TypeOK, Buffers
<1>6. Monitored'
  BY DEF TypeOK, Monitored, RecFree
<1>2. Hierarchy'
  BY DEF TypeOK, Monitored, Hierarchy, Ended, Paired
<1>3. LatestTaken'
  BY DEF TypeOK, Hierarchy, LatestTaken, Ended, Paired
<1>4. Known'
  BY DEF TypeOK, Monitored, Hierarchy, Known, Ended, Paired
<1>5. CleanedUp'
  BY DEF TypeOK, Monitored, Hierarchy, CleanedUp, Ended, Paired
<1> QED
  BY <1>1, <1>2, <1>3, <1>4, <1>5, <1>6

(* It turns to the other buffer. *)
LEMMA Swapping ==
  ASSUME ThreadsInv, NEW k \in Runs, Swap(k)
  PROVE  ThreadsInv'
<1> USE MaxStartsAssumption DEF ThreadsInv, Swap, client, render, input, history, Runs, None
<1>1. TypeOK'
  BY DEF TypeOK, Buffers
<1>6. Monitored'
  BY DEF TypeOK, Monitored, RecFree
<1>2. Hierarchy'
  BY DEF TypeOK, Monitored, Hierarchy, Ended, Paired
<1>3. LatestTaken'
  BY DEF TypeOK, Hierarchy, LatestTaken, Ended, Paired
<1>4. Known'
  BY DEF TypeOK, Monitored, Hierarchy, Known, Ended, Paired
<1>5. CleanedUp'
  BY DEF TypeOK, Monitored, Hierarchy, CleanedUp, Ended, Paired
<1> QED
  BY <1>1, <1>2, <1>3, <1>4, <1>5, <1>6

(* The inductive invariant of the threads and their owner holds for any number
   of starts. *)
THEOREM ThreadsInvariance == Spec => []ThreadsInv
<1>1. ThreadsInv /\ UNCHANGED vars => ThreadsInv'
  BY DEF vars, client, render, input, history, ThreadsInv, TypeOK, Monitored, Hierarchy, LatestTaken,
         Known, CleanedUp
<1>2. ThreadsInv /\ Next => ThreadsInv'
  <2> SUFFICES ASSUME ThreadsInv, Next PROVE ThreadsInv'
    OBVIOUS
  <2>1. CASE Client
    BY <2>1, Starting, Stopping, StoppingJoined, Releasing, ReleasingJoined
       DEF Client
  <2>2. ASSUME NEW i \in Runs, Render(i) PROVE ThreadsInv'
    BY <2>2, Beginning, Taking, TakingInterrupted, Testing, Processing, Polling, PollingEmpty, StoppingRec, JoiningRec
       DEF Render
  <2>3. ASSUME NEW k \in Runs, Input(k) PROVE ThreadsInv'
    BY <2>3, StartingToRecord, Filling, InputEnding, Swapping DEF Input
  <2> QED
    BY <2>1, <2>2, <2>3 DEF Next
<1> QED
  BY <1>1, <1>2, AtFirst, PTL DEF Spec

(* The threads and their owner are of their types in every reachable state. *)
THEOREM ThreadsTypeCorrect == Spec => []TypeOK
  BY ThreadsInvariance, PTL DEF ThreadsInv

(* Unless a thread was started over a running one, no buffer is filled while a
   rendering thread processes it, so two of them are enough however often poll
   comes too early. *)
THEOREM TwoBuffersSuffice == Spec => []BufferExclusive
<1>1. ThreadsInv => BufferExclusive
  BY DEF ThreadsInv, LatestTaken, BufferExclusive
<1> QED
  BY <1>1, ThreadsInvariance, PTL

(* When stop has returned, track and recorder are silent, unless two threads were
   rendering or the one was interrupted before its first buffer or in its
   clean-up. *)
THEOREM StopSilences == Spec => []StopSilencesUnlessCut
<1>1. ThreadsInv => StopSilencesUnlessCut
  BY DEF ThreadsInv, TypeOK, CleanedUp, StopSilencesUnlessCut, StopMeansStopped, Silent, Runs, None
<1> QED
  BY <1>1, ThreadsInvariance, PTL

(* After a release no thread is left that could touch the track or the recorder,
   unless it was forgotten before. *)
THEOREM ReleaseQuietens == Spec => []ReleasedQuiet
<1>1. ThreadsInv => ReleasedQuiet
  <2> SUFFICES ASSUME ThreadsInv, released, ~abandoned, ~orphaned, ~twice, NEW i \in Runs
               PROVE  apc[i] \in Ended /\ ipc[i] \in Ended
    BY DEF ReleasedQuiet
  <2>1. audioThread = None /\ inputThread = None
    BY DEF ThreadsInv, Monitored, Known
  <2>2. i # None
    BY DEF Runs, None
  <2> QED
    BY <2>1, <2>2 DEF ThreadsInv, Hierarchy, Known
<1> QED
  BY <1>1, ThreadsInvariance, PTL

(* Input threads are forgotten only where a clean-up was missed or two threads
   render; while none is, none of them fills its buffer from a recorder that
   another one stopped. *)
THEOREM NoSpinning == Spec => []FillsWhileRecording
<1>1. ThreadsInv => FillsWhileRecording
  BY DEF ThreadsInv, Known, CleanedUp, FillsWhileRecording
<1> QED
  BY <1>1, ThreadsInvariance, PTL
=============================================================================
