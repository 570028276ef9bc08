# A formal model of Elbil

Elbil is an Android application for electric cars. It reads the car's data from
a server, loads a planned route with its elevation from Google, draws the
estimated consumption along it, and turns the difference between estimated and
real consumption into a game played by sound: a Pure Data patch runs inside the
app through libpd. The application is `src/project elvizp`; the sound engine
and its Java and C layers are in `src/PdCore`.

This directory holds TLA+ modules for the parts whose correctness depends on
order, concurrency or long histories, the TLC configurations that check them,
and TLAPS proofs of every safety property the passing runs check.

## 1. The system

| Component | State | Operations | Threads |
|---|---|---|---|
| ring buffer (`ringbuffer.c`) | bytes, `read_idx`, `write_idx` | create, write, read | one writer, one reader, no lock |
| message queues (`z_queued.c`) | two ring buffers, `temp_buffer` | hooks called by Pd, polls called by Java | hooks under the JNI mutex, polls without |
| JNI layer (`z_jni_shared.c`, `z_jni_opensl.c`) | mutex, OpenSL stream | send, open, start, pause, close, poll | any thread; the audio callback |
| `PdAudio` | poller in the main looper, wrapper | initAudio, startAudio, stopAudio, release | any thread (one monitor); main looper |
| `AudioWrapper`, `AudioRecordWrapper` | AudioTrack, AudioRecord, two buffers | start, stop, release | rendering thread, input thread, owner |
| `PdBase`, `PdDispatcher` | handlers, listeners, subscriptions | open, send, subscribe, receive | any |
| `PdService`, `PureDataHandler`, `Patch` | service binding, patch handles | bind, init, open, close | main; one sender thread |
| `CarData`, `CarDataFetcher` | samples, integrals | set, calculate, notify every 500 ms | fetching thread |
| `RouteDataFetcher` | route, sampled route | load from Google, sample, notify | one thread per load |
| `RouteProgress`, `GPSHolder` | position along the route | update on a new location | main |
| `PdDataController` | route step, consumption | update on car data, start, stop | fetching thread; main; speech |
| `FineDriver` | mode, points, level | report a difference, reset | fetching thread; main |
| `RouteVizFragment`, `RouteBoxes` | route, estimation, distances | update, draw | fetching thread; loaders; drawer |
| `Drawer`, `CanvasSurface` | drawing thread | start, stop, redraw | main; drawer |

The car data fetcher notifies its observers (the route picture and the game) on
its own thread. Every route load notifies the same observers on a thread of its
own. The game sends floats and bangs to Pd on the fetching thread; Pd runs on
the audio thread, or on any thread that sends to it, and what it emits goes
through the message queue to the main looper.

What is hard: the lock-free ring buffer; messages published in pieces next to
an unlocked poll; the poller that reposts itself while somebody removes it;
interrupts that must reach two audio threads wherever they are; observers
called by several threads on unguarded fields, and exceptions on these threads
that are swallowed in one place and fatal in another; a game whose state is the
sum of a long history of reports. `PROJECT.json` lists each hazard at its line.

What makes each part correct:

- ring buffer: no shared slot, every byte once and in order;
- message queue: every accepted message delivered once, whole, in order;
- `PdAudio`: running audio is polled, by one poller; nothing is stranded by a stop;
- audio threads: a buffer is never filled and processed at once; stop and
  release return and leave silence;
- dispatchers: what is listened to is subscribed, nothing else is; a removed
  listener stays silent;
- service and audio on the Java path: one renderer, with buffers of the right
  size; every call returns;
- game: the level fits the points; a mode lasts as long as the delays say;
- controller: consumptions and route belong together, the index follows the
  odometer, and a report is missed only for a reason;
- route loading: it fails for short last steps only;
- route picture: it shows the last route with an estimation of that route; no
  failure outside the known circumstances.

## 2. Modules

| Module | Models | Checked by | Proved in |
|---|---|---|---|
| `ByteFifo` | the contract of `ringbuffer.h`, abstract | refinement | |
| `SpscRing` | `ringbuffer.c` | `SpscRing_safety` | `MessagePathProofs` |
| `MessageFifo` | what `PdBase` promises of its message queues, abstract | proof only | |
| `PdMessageQueue` (`MCPdMessageQueue`) | `z_queued.c`, the mutex and the polls of the JNI layer | two runs | `PdMessageQueueProofs` |
| `PdAudio` | `PdAudio.java` over OpenSL, the looper | `PdAudio_safety` | `PdAudioProofs` |
| `AudioThreads` | `AudioWrapper`, `AudioRecordWrapper` | two runs | `AudioThreadsProofs` |
| `JavaAudio` | `PdService` over `PdAudio` over `AudioWrapper`, callbacks, monitors | `JavaAudio_safety` | `JavaAudioProofs` |
| `PdDispatcher` | `PdDispatcher`, `PdUiDispatcher`, the bindings of `PdBase` | `PdDispatcher_safety` | `MessagePathProofs` |
| `FineDriver` | `FineDriver.java` | `FineDriver_safety` | `GameProofs` |
| `RouteData` | `RouteDataFetcher.run`, its index arithmetic | with the next | `GameProofs` |
| `PdDataController` (`MCPdDataController`) | `PdDataController.java`, the loaders | `PdDataController_safety` | `GameProofs` |
| `RouteViz` (`MCRouteViz`) | `RouteVizFragment`, `RouteBoxes`, their callers' exceptions | two runs | `RouteVizProofs` |

`SequenceLemmas` models nothing: it holds what the proofs need to know of
`FlattenSeq` and of sums over sequences.

The game's reports are where two modules meet: an update of `PdDataController`
that ends in "reported" is a step of `FineDriver`, its `start` is `reset` or
`resetDuring`. The three audio modules cut one stack at different depths:
`AudioThreads` has the two threads of one wrapper, `JavaAudio` the monitors and
callers above it, with the thread reduced to its loop, `PdAudio` the other
branch of the same class, over OpenSL.

Definitions named `...Without...`, `...OffByOne` and the like, each introduced
as a "Faulty variant" and placed before the definition it distorts, are never
part of a specification. `PROJECT.json` pairs each property with one of them:
with the variant in place of the definition, TLC finds the property violated.

### SpscRing and ByteFifo

A byte is its position in the writer's stream. A call of `rb_write_to_buffer`
is `WriteRefused`, or `WriteBegin` (the check against the atomic load of the
other index), one `WriteByte` per byte of the one or two `memcpy` calls, and
`WritePublish`, the compare-and-swap; likewise for reading. The steps of the two
threads interleave freely. `__sync` builtins are full barriers, so sequential
consistency is assumed of them and of the bytes they order. `len = 0` and a null
buffer return at once and change nothing. `ByteFifo` states what the header
promises as atomic `Put` and `Get`; the refinement maps its queue to the bytes
between the indices.

### PdMessageQueue

The ring buffer is used here as the bounded queue it is proved to implement.
Its unit is a word: a header is one word (in C it is a `pd_params` of several
bytes, always written in one call), an element of a payload is one. A hook is
`HookDrop` (no room) or `HookAccept` and one `HookWrite` per
`rb_write_to_buffer`: header; header and list; header, text and padding. Hooks
run with the mutex held (`Lock`, `Unlock`). A poll is `PollAvailable`,
`PollRead`, one `Dispatch` per turn of the loop, `PollReturn`. Bytes that are no
header, which a torn message leaves for the next poll, are `DispatchBogus`: a
nondeterministic choice of callback and advance, since their type and `argc` are
arbitrary (an advance backwards, from a negative `argc`, is left out). Callbacks
run inside `Dispatch`; that the main thread may send from them is `MayRun`.
The MIDI queues work alike, with messages of a single write; that shape is among
those checked. `temp_buffer` is static and keeps old bytes past `available`; they belong to no
message still to be delivered, so the model drops them.

### PdAudio

The looper's queue is two counters, the pollers and the flushes; messages are
one bit. The methods are synchronized, so each is one step, from any thread,
also while the main thread is inside a poll, and from its callbacks. `Emit` is
the audio callback, `Send` a message that some thread sends to Pd and that the
patch answers, with audio running or not. `Emit` needs `running`: the OpenSL
stream itself is a git submodule whose source is not in the repository, and
`opensl_pause` is assumed to return with no audio callback in flight.
`FlushedAfterStop` rests on that.

### AudioThreads

Thread `i` of either kind belongs to the `i`-th start. The `SynchronousQueue` is
a rendez-vous: `Take` and `Poll` meet an input thread in its `put`. Interrupt
flags are modelled as Java has them: tested and cleared by
`Thread.interrupted()`, and by the `InterruptedException` of `take`, `put` and
`join`. `start`, `stop` and `release` are synchronized, so the client is one
caller at a time; its own join in `stop` is not interrupted. `start` does not
test whether a thread is running, and neither do `PdAudio.startAudio` and
`PdService.startAudio` above it: a second start overwrites `audioThread`, and two
rendering threads then take from one queue. `twice` remembers that it happened.
The clean-up of a rendering thread waits for the recorder's monitor (`RecFree`)
and may find no input thread left to stop. `recording` and `playing` are what the last call
on recorder and track made of them: the end of `read` in a stopped recorder is
modelled (the loop spins), what a released one answers to a thread that was
forgotten is not. `AudioRecord.stop` and the end of the input thread are one
step, the end of the join in `rec.stop` and `track.stop` another. `rec` is
present (an app with input channels); without it there is no input thread and
nothing to model.

### JavaAudio

Where libpd has no audio of its own, `PdAudio` renders in Java. `PdService`'s
methods are synchronized, and so are those of `PdAudio` and `AudioWrapper` they
call, always in this order, so `control` stands for the three monitors. A call
waits for it (`Call`), and is then one step, but for the join: `StopFirst`
interrupts the rendering thread, and `Stopped`, the beginning of the rest,
follows when the thread has ended. The rendering thread polls the queue itself,
so callbacks run on it, under the dispatcher's monitor (`Deliver`,
`EndCallback`), or are posted to the main looper by a `PdUiDispatcher`. Calls
from callbacks are modelled up to the call itself (section 3 says why).
`BufferFits` compares the buffers of the thread with what Pd was opened for.

### PdDispatcher

A message is its symbol; a callback may call any method. Monitors are
reentrant, so a callback may change the set that is being iterated; the
iterator's exception is `EndVisit` with `changed`, as `HashMap`'s fail-fast
iterator has it: it notices a change at the next element, and misses it after
the last one. A message may arrive after its symbol was unsubscribed, from the
queue, and then finds no listeners. The collector may finalize a dispatcher that is not referenced
any more, long after others took over its symbols. `PdBase` keeps one binding
per symbol, whoever subscribed: `taken` records which dispatcher lost one.
`bindSymbol` is assumed to succeed.

### FineDriver

A report is reduced to its zone (good, bad, normal, or not a number), since the
code only compares it with two limits. A time stamp is kept as the time since,
capped where the code no longer distinguishes. A clock that is set back is
excluded. Messages to Pd and the view have no effect on the game and are left
out. A call is one step; `resetDuring` is a report and a reset that overlap,
whose lost updates are a choice over what either may leave behind.

### RouteData and PdDataController

`RouteData` computes, from the lengths of the steps Google returns, whether
`RouteDataFetcher.run` ends in an exception and what the combined route is.
Speeds are approximated in an array whose index advances by truncated shares;
the arithmetic is over integers, where the code has doubles. Steps of length 0
are excluded; section 6 says what they do.

`PdDataController` interleaves `update` with `setRouteData` of every loader,
assignment by assignment. `update` is cut into the test for a start, the
computation of the consumptions, the look at the step, the move to the next and
the estimate; within one of these it reads some fields more than once, and the
model once. The interleavings left out need an overlap of the two, which every
property but the types and `ConsumptionsOfRoute` excuses; that one rests on the
order of the assignments alone (a start is marked after the route was exchanged,
and unmarked before the route is read). What it compares is abstracted: an update ends without a report (no game,
or a route begins), reports, or throws, which its caller swallows. `Lost` is the
null route of a failed load.

### RouteViz

`update` is interleaved statement by statement, for the car data thread and for
the loaders. It asks `CarData` for the climate three times: to test, to estimate
and to record. Each answer is interpolated from 0, the previous value that
nothing ever assigns, to the value calculated last, by the time since then
(`CarData.java:81-87`, `:404-411`), so `CarTest`, `CarEstimate` and `CarRecord`
each choose one of `Climates`, 0 among them. No property says that the picture
or `climat` is that of some climate. An estimation is the route and climate it was computed from, and
as long as the route; `Covers` says that no loop over a route runs off an
estimation. `RouteBoxes` methods are synchronized and are one step each, but
keep the order of their assignments and their first exception. `Throw` ends an
update as its caller does: `fetchData` swallows it, unless the notification came
from its own `catch` block, where it ends the fetching thread; on a loader it is
uncaught. `alive = FALSE` means such an exception ended the app; nothing runs
after that. A fetched route has at least one step. Car data may arrive before
`onCreate`; a route may not, since `relayObservable` registers only a fragment
that is there, and without a route the boxes are not touched.

## 3. Runs

| Run | Shows | Bounds | States |
|---|---|---|---|
| `SpscRing_safety` | types, disjoint slots, order, refinement of `ByteFifo` | size 4 and a stream of 10 bytes, more than two rounds of the buffer, so both indices wrap and both copies split | 4592 |
| `PdMessageQueue_safety` | room reserved, stream contiguous, intact and eventually delivered unless a poll splits a message | 2 threads, 3 messages of 4 shapes of one to three writes, room for 4 words, so the queue fills and messages are dropped | 54811 |
| `PdMessageQueue_torn` | violation: a list can be delivered torn | | |
| `FineDriver_safety` | ladder, modes both ways | first level at 5 points, three levels up and down; delays of 2 and 3 with pauses of 1 and 2, so reports fall before, on and after a delay; one raced reset at a time | 325612 |
| `PdDataController_safety` | loads fail for short last steps only, consumptions and route match, exceptions explained, index follows the odometer | 2 loaders, every route of up to three steps of three lengths, an odometer up to 8 with two step sizes, so a route is driven to its end and past it while another one arrives | 822372 |
| `RouteViz_safety` | failures explained, picture of the last route, drawing safe | 2 loaders, 2 routes of different lengths, 2 loads, so a route replaces one and two loads overlap; a climate is 0 or not | 855813 |
| `RouteViz_climate` | violation: climate not recorded | | |
| `AudioThreads_safety` | buffers exclusive, silence after stop, quiet after release; stop and release return, interrupted threads end | 2 starts, so an old input thread meets a new one, and a start finds the last one running | 125736 |
| `AudioThreads_stop` | violation: stop without silence | same | |
| `PdAudio_safety` | polled while running, one poller, flush, all read | 2 Runnables of a kind in the looper, so pollers can be doubled | 576 |
| `PdDispatcher_safety` | subscriptions follow listeners, removed listeners silent | 2 dispatchers (one a `PdUiDispatcher`) that share a symbol, 2 listeners, main and another thread, 1 posted delivery | 199936 |
| `JavaAudio_safety` | one renderer, fitting buffers, calls return | main and another thread, 2 starts, 2 sets of parameters, 1 posted delivery | 140997 |

`CHECK_DEADLOCK FALSE` stands where the system may stop: the writer's stream,
the number of messages, loads, starts or the odometer is bounded, or an
exception ends the app. The other runs check for deadlock.

`JavaAudio_safety` explores no step after a callback called one of the service's
methods (`UntilInner`): from there two deadlocks are reachable, described in
section 6, and every property is stated for the time before.

## 4. Fairness

- `PdMessageQueue`: weak fairness for a hook and its critical section, which are
  straight-line code under a mutex. Strong fairness for the poll: it is a
  Runnable reposted every 5 ms, and Android's looper runs its messages in the
  order of their times, so other work on the main thread delays a poll but is
  not preferred to it for ever. No sender is obliged to send.
- `PdAudio`: weak fairness of the looper, strong fairness of each of its two
  kinds of Runnable, for the same reason. No caller is obliged to call.
- `AudioThreads`: weak fairness of both threads and of the owner's return from a
  join, once what it joins has ended. Nothing more is needed for the interrupts:
  after one, the input thread can go round its loop only up to the next test of
  its flag.
- `JavaAudio`: weak fairness of the rendering thread's loop and of the end of a
  callback on the main thread; strong fairness where a thread waits for a
  monitor that others take again and again (a call, a delivery), since a waiting
  thread is not passed over for ever. Callbacks are assumed to return.
- the other modules state safety only.

## 5. Proofs

All proofs hold for every value of the constants, under the named assumptions of
the modules (TLC evaluates each on its instances).

**SequenceLemmas.** The stream of `PdMessageQueue` is the concatenation of all
messages and the length of a route is a sum over its steps: `FlattenSeq` and
`FoldLeft`, both recursive functions under a `CHOOSE`. The library's induction
rules take an operator as parameter, which the provers cannot instantiate, so
`NatSetInduction` states induction for a set of numbers and derives it from the
well-foundedness of `<`. With it the recursions are shown to have a solution
(`FlatteningExists`, `SummationExists`), two solutions to agree where their
sequences do, and from that what the operators do to `Append`, to
concatenations and to prefixes (`FlattenAppend`, `FlattenConcat`,
`FlattenTail`, `SumAppend`, `SumPrefix`). These lemmas rest on no assumption.

**MessagePathProofs**, the ring buffer. From `SizeAssumption` and
`MaxBytesAssumption`. `NoSharedSlot` and `ReadsInOrder` are not inductive: that the reader finds its
bytes rests on what the writer left there many steps before. `IInv` adds
`CallsFit` (a call in progress still fits, since the other side only ever makes
room) and `Contents` (the slots after `read_idx` hold the unread and the copied
but unpublished bytes). There is one lemma per action. `RoomToRead` and
`RoomToWrite` turn the remainders into a case distinction; disjointness follows
from arithmetic on slots. For the refinement, the queue of `ByteFifo` is shown
equal to the sequence `rcvd+1 .. sent` (`UnreadIsRamp`), so that publishing is a
concatenation (`RampConcat`) and releasing a split (`RampSplit`); every other
step stutters. Theorems: `TypeCorrect`, `RaceFree`, `InOrder`, `FillKnown`,
`Refinement`.

**PdMessageQueueProofs.** `ReservedSpace`, `RingIsStream` and `IntactUnlessSplit`
are not inductive: that a dispatch hands over the right words rests on where the
last poll began to read and on what the hook in progress has yet to write. The
invariant (`QueueInv`) lays all of it on one `Tape`: what was read and not given
back, what is buffered, what the hook still owes. The tape is the end of the
stream. An accepted message lengthens both, a write and a read move words along
the tape, a poll's end cuts off its beginning, which the invariant keeps as the
part of the stream before the tape (`TapeInv`). While no message was split, the
poll's pointer is where the next message begins and what was read ends where a
message does (`DeliveredWhole`). `WritesAreWhole` says that the writes of a hook
make up its message, `StreamLaidOut` which word of which message is at each
place of the stream, `AtMessage` that a dispatch finds the next message whole.
`OwnerHasTodo` is the mutex: only its owner has anything left to write. TLC was
asked first, on the 54811 states of the run. Theorems: `TypeCorrect`,
`NoPieceRefused`, `RingHoldsStretch`, `DeliveryIntact`, and
`OneWordMessagesIntact`, which needs no `split`: a Pd patch that sends bangs,
floats, symbols and MIDI only is never read in the middle of a message.

`MessageFifo` is the abstract queue of whole messages: what `sent` counts reaches
the callbacks one by one, in order. Under the mapping `sent <- Len(accepted)`,
`received <- delivered`, `StepsOfContract` shows that a hook with room is an
`Accept`, a dispatch a `Deliver` and every other step a stutter, until a poll
splits a message. Theorems: `ContractUnlessSplit` and, for messages of one
write, the refinement itself, `OneWordMessagesImplement`. `MessageFifo` is not
among the properties of a run: for the shapes of `PdMessageQueue_safety` the
refinement is false after a split, and up to it `IntactUnlessSplit` says as much.

**MessagePathProofs**, the dispatchers. That no removed listener is called rests
on the iterator: whoever is still to be visited is registered, as long as the set was
neither changed nor cleared under the iteration (`TodoRegistered`).
`SubscribedAsHeard` is inductive with the types. Theorems:
`DispatchTypeCorrect`, `SubscriptionsFollow`, `RemovedIsSilent`.

**PdAudioProofs.** The three safety invariants are inductive together, with
`PollersFit` for the types: an emitted message cannot be stranded because audio
that runs is polled, and a stop that removes the poller posts a flush. Theorems:
`TypeCorrect`, `Polled`, `Once`, `Flushed`.

**GameProofs**, `FineDriver`. `Ladder` is not inductive: falling a level halves
`prevLevelPoints`, and that the result is the threshold of that level depends on
how it was reached. `Climb` carries a witness, a function from levels to
thresholds that doubles at each step; a raced reset suspends both. For the
modes, the time stamp the code keeps is compared with `stay`, the time the
reports really spent in their zone: it is never older, unless a crossing was
missed, and never younger while the mode lags behind. Theorems: `TypeCorrect`,
`LevelFitsPoints`, `ModeInTime`, `ModeNotEarly`.

**GameProofs**, `RouteData` and `PdDataController`. `ConsumptionsOfRoute` is
inductive with no more than the type of `loading`: a loader that exchanged the route is between its
assignments until it has set the mark that asks for a start, and an update that
takes the mark away goes on to compute the consumptions of the route then held.
From it follows `ThrowsExplained`: without an overlap the index that passed the
check against the route also fits the consumptions. `StepsFollowDistance` rests
on `StepsInv`: until a second route comes or a loader interferes, the index is 0
whenever a start is due, and `move` adds one step's length to both sides. Theorems:
`ConsumptionsFollowRoute`, `ControllerTypeCorrect`, `ThrowsNamed`, `StepsAgree`,
`RoutesLoad`, for any number of loaders and routes of any number of steps.
`RoutesLoad` is about the index arithmetic alone: by induction over
the steps they span together at most their share of the samples
(`SpannedAtMostShare`), so an index outside of the array leaves the last step no
more than one sample (`FailsOnlyLastShort`).

**JavaAudioProofs.** `OneRenderer` and `BufferFits` are inductive with: whoever
joins holds the monitors (`JoinHolds`), only the thread the wrapper knows may be
alive (`OnlyKnown`), wrapper, Pd and thread agree in their parameters (`Fits`),
and the calls of `start` that wait for a monitor are counted among the starts
(`StartsBound`, with the theorems on finite sets). Every call that comes through
`stopAudio` finds no thread alive (`StoppedMeansNone`). `TypeOK` bounds the deliveries that wait in the main
looper, for which `MessageInv` counts the renderers about to post one. Theorems: `OneAtATime`, `RightBuffers`, `TypeCorrect`.

**RouteVizProofs.** Two invariants, by the circumstances met. Without overlap
updates run one at a time (`Alone`), and the boxes hold distances and estimation
of one route even when an update failed half way, that of the fragment unless a
loader is on its way to show another (`BoxesFit`): `DrawSafe`, and the half of
`ShownIsCurrent` that holds whatever failed. When nothing unusual happened,
`OnCourse` says for each step of either kind of update what fragment and boxes
hold: no exception can occur, and between updates the route is shown with the
estimation made last. Nothing is assumed about the climates, which may differ
from read to read. Theorems: `RouteTypeCorrect`, `FailuresNamed`,
`PictureCurrent`, `FramesDrawn`, for any number of loaders, routes and climates.

**AudioThreadsProofs.** What holds through double starts comes first: whoever
joins an input thread holds the recorder's monitor and joins the one the
recorder knows (`Monitored`), and an input thread that was not forgotten is
known, with the recorder recording for it (`Known`). Until a start finds a
thread running (`~twice`), there is one rendering thread at a time, whose input
thread is the one the recorder knows (`Hierarchy`); the buffer it holds is the
one handed over last, so the other one is being filled (`LatestTaken`); and
without a cut clean-up nothing runs but under a rendering thread (`CleanedUp`).
Theorems: `ThreadsTypeCorrect`, `TwoBuffersSuffice`, `StopSilences`,
`ReleaseQuietens`, `NoSpinning`, for any number of starts.

**Model-checked only.** Liveness under fairness is out of TLAPS's reach here and
stays with TLC: `EventuallyRead`, `EventuallyDelivered`, `CallsReturn` (twice).
Every other property of a passing run is also a theorem.

## 6. Findings

1. A list, message or text is published by two or three writes, and the poll
   takes no mutex: a poll in between delivers a torn message and misreads the
   rest (`z_queued.c:139`; run `PdMessageQueue_torn`). `IntactUnlessSplit` shows
   that this is the only way to break delivery.
2. A route loaded before the first car data makes the next delivery fail in
   `updateEstimation`, before the climate is recorded and the route shown, and
   the ones after it too, until one happens to read a climate of exactly 0, the
   value `climat` still has
   (`RouteVizFragment.java:120`; run `RouteViz_climate`).
3. A stop that interrupts the rendering thread before its first input buffer
   leaves the track playing and the recorder recording
   (`AudioWrapper.java:105`; run `AudioThreads_stop`).

Observations, where a property carries the exception instead of a run of its
own:

- A report that is not a number hides the next crossing, and a mode may then
  start without its delay (`FineDriver.java:108`; `missed` in `ModeNeedsStay`).
  A step of Google's of no length and no duration makes one, by way of its speed
  (`RouteDataFetcher.java:162`).
- A reset in the middle of a report can leave a level below 0, or a threshold of
  0, from which the game climbs a level at every point
  (`FineDriver.java:89`; `raced` in `LadderUnlessRaced`).
- Once a route failed to load, every update throws before it reports, and the
  game stands still (`PdDataController.java:227`; `ThrowsExplained`). One report
  is lost the same way when the last step is passed (`:241`).
- The share of a step already driven leaves out the odometer's value at the
  start (`PdDataController.java:256`, against `:238`); no property sees it.
- A route whose last step is shorter than a sample may fail to load
  (`RouteDataFetcher.java:162`; `LoadsUnlessLastShort`).
- `routeStepIndex` is never set back: a second route is entered at the step
  reached on the first (`PdDataController.java:152`; `disturbed` in
  `StepsFollowDistance`).
- A callback on the audio thread that calls the service while the owner joins
  that thread waits for ever, and so does the owner. The same happens when the
  owner is a callback on the main thread, whose dispatcher the audio thread
  waits for (`PdAudio.java:101`; `inner` in `CallsReturn`).
- A second start of a running `AudioWrapper`, which no caller rules out, leaves
  two rendering threads that share the input buffers, and `stop` reaches only the
  last one: the first goes on playing (`AudioWrapper.java:93`; `twice` in
  `BufferExclusive`, `StopSilencesUnlessCut` and `ReleasedQuiet`).
- The climate that `update` of the route picture reads starts near 0 after every
  calculation and grows until the next, as the previous value it is interpolated
  from is never assigned (`RouteVizFragment.java:115`, `CarData.java:83`). The
  estimations are therefore made with almost no climate, and with another value
  than the one recorded.
- Two updates of the route picture that overlap can leave a route unshown: the
  first may clear `new_data` after the second has set it
  (`RouteVizFragment.java:136`; `overlap` in `ShownIsCurrent`).
- An update of the controller that overlaps `setRouteData` puts back the distance
  of the last route (`PdDataController.java:242`; `disturbed`).
- `PdBase.release`, and the finalizer of a forgotten dispatcher, take
  subscriptions from dispatchers that still have listeners
  (`PdBase.java:97`, `PdDispatcher.java:82`; `taken` in `SubscribedAsHeard`).
- The comment at `RouteVizFragment.java:104` says that `update` waits for the
  view. It does not, and need not: what is done before `onCreate` uses no view.

## 7. Plan

Left, in this order:

1. `PdBase`: messages composed by several threads, patches opened and closed;
   `PureDataHandler`'s sender threads.
2. `Drawer`: stop and start over a thread that still draws.
3. `RouteProgress`: the position along the route and the flag that ends it.
4. `DataAnalyser` and the interpolation of `CarData`, as operators over bounded
   inputs.

## 8. Not modelled

Floating-point physics (`EVEnergy`, `CarData`), HTTP and JSON, layout and
drawing on screen, preferences, Android's views and service plumbing except for
the order of calls the modules use. `DifferentiatedRange` is an earlier version
of the same application; `maps`, `Google API Utils`, the Pure Data engine and
its externals are vendored; `puredata_files` and `simserver` are patches and
binaries. The vendored C code is by far the largest part of the repository: the
modules here cover the project's own logic and the glue around that engine, not
the engine.
