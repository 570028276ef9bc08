---------------------------- MODULE PdDispatcher ----------------------------
(***************************************************************************)
(* PdDispatcher.java and PdUiDispatcher.java: who listens to which Pd      *)
(* symbol, which symbols are subscribed (PdBase.java), and the delivery of *)
(* a message to the listeners of its symbol, whose callbacks may call the  *)
(* dispatcher again.                                                       *)
(*                                                                         *)
(* A message is its symbol.  The monitor of a dispatcher is seen only      *)
(* while it is held across callbacks; every other method is one step.      *)
(***************************************************************************)
EXTENDS Naturals, Sequences

CONSTANTS
  Dispatchers, Symbols, Listeners,
  Threads,
  Main,        \* the main thread, the target of the PdUiDispatchers
  Ui,          \* the dispatchers that are PdUiDispatchers
  NONE,
  MaxPosted    \* bound of the model: deliveries waiting in the main looper

ASSUME DispatchAssumption ==
  /\ Main \in Threads /\ Ui \subseteq Dispatchers
  /\ NONE \notin Threads \cup Dispatchers \cup Symbols \cup Listeners
  /\ MaxPosted \in Nat

VARIABLES
  listeners,   \* each dispatcher's map; {} where it has no entry
  bindings,    \* PdBase.bindings: the symbols that are subscribed
  receiver,    \* PdBase.setReceiver
  dropped,     \* dispatchers the program holds no reference to
  monitor,     \* the thread that holds a dispatcher's monitor
  visit,       \* the iteration over a symbol's set of listeners
  posted,      \* the Runnables a PdUiDispatcher posted to the main looper
  taken        \* symbols a dispatcher lost to somebody's release (history)

registry == <<listeners, bindings, taken>>
delivery == <<monitor, visit, posted>>
dispatchVars == <<registry, receiver, dropped, delivery>>

(* cur is the listener whose callback runs; changed: the set was modified
   since the iteration began; cleared: release took it out of the map. *)
Visit(s, todo) ==
  [symbol |-> s, todo |-> todo, cur |-> NONE, changed |-> FALSE, cleared |-> FALSE]

NoVisit == Visit(NONE, {})

DispatchInit ==
  /\ listeners = [d \in Dispatchers |-> [s \in Symbols |-> {}]]
  /\ bindings = {} /\ receiver = NONE /\ dropped = {}
  /\ monitor = [d \in Dispatchers |-> NONE]
  /\ visit = [d \in Dispatchers |-> NoVisit]
  /\ posted = <<>>
  /\ taken = [d \in Dispatchers |-> {}]

Heard(d) == {s \in Symbols : listeners[d][s] # {}}

Delivering(t) == \E d \in Dispatchers : monitor[d] = t

(* t may enter a synchronized method of d; its own callbacks may as well. *)
CanEnter(t, d) == d \notin dropped /\ monitor[d] \in {NONE, t}

(* d gives up the symbols of S; PdBase has one binding per symbol, so every
   other dispatcher that listens to one of them loses it too. *)
Unsubscribe(d, S) ==
  /\ bindings' = bindings \ S
  /\ taken' = [e \in Dispatchers |->
                 IF e = d THEN taken[e] \ S ELSE taken[e] \cup (S \cap Heard(e))]

(* The set iterated is modified, if it is the one now in the map. *)
Modify(d, s) ==
  visit' = IF visit[d].symbol = s /\ ~visit[d].cleared
           THEN [visit EXCEPT ![d].changed = TRUE] ELSE visit

-----------------------------------------------------------------------------
(* The registry.                                                           *)

(* A listener that is there already changes nothing. *)
addListener(t, d, s, l) ==
  /\ CanEnter(t, d)
  /\ l \notin listeners[d][s]
  /\ bindings' = IF listeners[d][s] = {} THEN bindings \cup {s} ELSE bindings
  /\ listeners' = [listeners EXCEPT ![d][s] = @ \cup {l}]
  /\ Modify(d, s)
  /\ UNCHANGED <<taken, receiver, dropped, monitor, posted>>

(* Faulty variant: the first listener to go takes the subscription along. *)
removeListenerUnsubscribing(t, d, s, l) ==
  /\ CanEnter(t, d)
  /\ l \in listeners[d][s]
  /\ listeners' = [listeners EXCEPT ![d][s] = @ \ {l}]
  /\ Modify(d, s)
  /\ Unsubscribe(d, {s})
  /\ UNCHANGED <<receiver, dropped, monitor, posted>>

removeListener(t, d, s, l) ==
  /\ CanEnter(t, d)
  /\ l \in listeners[d][s]
  /\ listeners' = [listeners EXCEPT ![d][s] = @ \ {l}]
  /\ Modify(d, s)
  /\ IF listeners[d][s] = {l} THEN Unsubscribe(d, {s}) ELSE UNCHANGED <<bindings, taken>>
  /\ UNCHANGED <<receiver, dropped, monitor, posted>>

(* The sets themselves are not emptied: an iteration goes on over its own. *)
Release(d) ==
  /\ Unsubscribe(d, Heard(d))
  /\ listeners' = [listeners EXCEPT ![d] = [s \in Symbols |-> {}]]
  /\ visit' = IF monitor[d] = NONE THEN visit ELSE [visit EXCEPT ![d].cleared = TRUE]
  /\ UNCHANGED <<receiver, dropped, monitor, posted>>

release(t, d) == CanEnter(t, d) /\ Release(d)

(* The program forgets a dispatcher, and the collector may finalize it. *)
Drop(d) ==
  /\ receiver # d /\ monitor[d] = NONE
  /\ dropped' = dropped \cup {d}
  /\ UNCHANGED <<registry, receiver, delivery>>

finalize(d) ==
  /\ d \in dropped
  /\ \A i \in DOMAIN posted : posted[i][1] # d
  /\ monitor[d] = NONE
  /\ Release(d)

setReceiver(d) ==
  /\ d \notin dropped
  /\ receiver' = d
  /\ UNCHANGED <<registry, dropped, delivery>>

(* PdBase.release unbinds every symbol and tells no dispatcher. *)
PdBaseRelease ==
  /\ receiver' = NONE
  /\ bindings' = {}
  /\ taken' = [d \in Dispatchers |-> taken[d] \cup Heard(d)]
  /\ UNCHANGED <<listeners, dropped, delivery>>

-----------------------------------------------------------------------------
(* Delivery.                                                               *)

(* receiveX of PdDispatcher takes the monitor and begins its loop. *)
Begin(t, d, s) ==
  /\ monitor[d] = NONE
  /\ IF listeners[d][s] = {}
     THEN UNCHANGED <<monitor, visit>>
     ELSE /\ monitor' = [monitor EXCEPT ![d] = t]
          /\ visit' = [visit EXCEPT ![d] = Visit(s, listeners[d][s])]
  /\ UNCHANGED <<registry, receiver, dropped>>

(* A poll on thread t finds a message to s, perhaps queued before s was
   unsubscribed: receiveX of the receiver.  The PdUiDispatcher hands it to the
   main thread when it runs on another. *)
Receive(t, s) ==
  /\ receiver # NONE /\ ~Delivering(t)
  /\ IF receiver \in Ui /\ t # Main
     THEN /\ monitor[receiver] = NONE
          /\ Len(posted) < MaxPosted
          /\ posted' = Append(posted, <<receiver, s>>)
          /\ UNCHANGED <<registry, receiver, dropped, monitor, visit>>
     ELSE Begin(t, receiver, s) /\ UNCHANGED posted

RunPosted ==
  /\ posted # <<>> /\ ~Delivering(Main)
  /\ Begin(Main, posted[1][1], posted[1][2])
  /\ posted' = Tail(posted)

(* Faulty variant: the loop runs over a copy and never fails. *)
CallNextOfCopy(t, d, l) ==
  /\ monitor[d] = t /\ l \in visit[d].todo
  /\ visit' = [visit EXCEPT ![d].cur = l, ![d].todo = @ \ {l}]
  /\ UNCHANGED <<registry, receiver, dropped, monitor, posted>>

(* The iterator hands out the next listener, in any order. *)
CallNext(t, d, l) ==
  /\ monitor[d] = t /\ l \in visit[d].todo
  /\ ~visit[d].changed
  /\ visit' = [visit EXCEPT ![d].cur = l, ![d].todo = @ \ {l}]
  /\ UNCHANGED <<registry, receiver, dropped, monitor, posted>>

(* Faulty variant: an exception leaves the monitor taken. *)
EndVisitLocked(t, d) ==
  /\ monitor[d] = t
  /\ visit[d].todo = {} \/ visit[d].changed
  /\ monitor' = [monitor EXCEPT ![d] = IF visit[d].changed THEN t ELSE NONE]
  /\ visit' = [visit EXCEPT ![d] = NoVisit]
  /\ UNCHANGED <<registry, receiver, dropped, posted>>

(* The loop ends: after its last listener, or by the iterator's
   ConcurrentModificationException. *)
EndVisit(t, d) ==
  /\ monitor[d] = t
  /\ visit[d].todo = {} \/ visit[d].changed
  /\ monitor' = [monitor EXCEPT ![d] = NONE]
  /\ visit' = [visit EXCEPT ![d] = NoVisit]
  /\ UNCHANGED <<registry, receiver, dropped, posted>>

Deliver(t) ==
  \E d \in Dispatchers : EndVisit(t, d) \/ \E l \in Listeners : CallNext(t, d, l)

(* What a thread may call, from a callback or outside of one. *)
Client(t) ==
  \/ PdBaseRelease
  \/ \E d \in Dispatchers :
       \/ release(t, d) \/ setReceiver(d)
       \/ \E s \in Symbols, l \in Listeners : addListener(t, d, s, l) \/ removeListener(t, d, s, l)

Collector == \E d \in Dispatchers : Drop(d) \/ finalize(d)

DispatchNext ==
  \/ \E t \in Threads : Client(t) \/ Deliver(t) \/ \E s \in Symbols : Receive(t, s)
  \/ RunPosted
  \/ Collector

DispatchSpec == DispatchInit /\ [][DispatchNext]_dispatchVars

-----------------------------------------------------------------------------
(* Properties.                                                             *)

Visits == [symbol : Symbols \cup {NONE}, todo : SUBSET Listeners, cur : Listeners \cup {NONE},
           changed : BOOLEAN, cleared : BOOLEAN]

(* Type correctness; a monitor is held across callbacks for a loop only. *)
DispatchTypeOK ==
  /\ listeners \in [Dispatchers -> [Symbols -> SUBSET Listeners]]
  /\ bindings \in SUBSET Symbols
  /\ receiver \in Dispatchers \cup {NONE}
  /\ dropped \in SUBSET Dispatchers
  /\ monitor \in [Dispatchers -> Threads \cup {NONE}]
  /\ visit \in [Dispatchers -> Visits]
  /\ \A d \in Dispatchers : monitor[d] = NONE <=> visit[d].symbol = NONE
  /\ posted \in Seq(Dispatchers \X Symbols)
  /\ taken \in [Dispatchers -> SUBSET Symbols]

(* The class comment: "automatically handle subscriptions to Pd symbols".  A
   symbol somebody listens to is subscribed, unless another dispatcher or
   PdBase took the subscription away; and no symbol stays subscribed that
   nobody listens to, through any nesting of callbacks and finalizers. *)
SubscribedAsHeard ==
  /\ \A d \in Dispatchers : Heard(d) \subseteq bindings \cup taken[d]
  /\ bindings \subseteq UNION {Heard(d) : d \in Dispatchers}

(* No callback of a listener begins after it was removed, not even in the
   delivery during which another callback removed it; only a release from
   within a callback does not silence the rest of that delivery. *)
NoCallAfterRemoval ==
  [][\A d \in Dispatchers :
       visit'[d].todo # visit[d].todo /\ visit'[d].cur # NONE =>
         visit'[d].cur \in listeners[d][visit[d].symbol] \/ visit[d].cleared]_dispatchVars
=============================================================================
