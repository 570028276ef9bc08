------------------------------ MODULE RouteViz ------------------------------
(***************************************************************************)
(* The route picture of the main app: RouteVizFragment.update, called by   *)
(* the thread that fetches the car's data and by one thread per route the  *)
(* user loads, and RouteBoxes, which a drawer thread draws.  RouteBoxes    *)
(* methods hold its monitor; the fragment's fields are shared without one, *)
(* so its update is interleaved statement by statement.                    *)
(*                                                                         *)
(* An estimation is the route and the climate it was computed from, and as *)
(* long as that route.  What CarData says of the climate is interpolated   *)
(* between 0 and the climate calculated last by the time since then: each  *)
(* of the three calls in one update returns a value of its own.            *)
(***************************************************************************)
EXTENDS Naturals, FiniteSets

CONSTANTS
  Car,        \* the thread of CarDataFetcher
  Loaders,    \* threads of RouteDataFetchers
  Climates,   \* what getCurrentClimateConsumption may return, 0 among them
  Routes,     \* routes that can be fetched
  Steps,      \* the number of steps of each of them
  Null,
  MaxLoads    \* bound of the model: routes loaded

Threads == {Car} \cup Loaders

ASSUME ThreadsAssumption == Car \notin Loaders
ASSUME RoutesAssumption == Null \notin Routes /\ Steps \in [Routes -> Nat \ {0}]
ASSUME NullAssumption == \A r \in Routes, c \in Climates : [route |-> r, climate |-> c] # Null
ASSUME ClimatesAssumption == 0 \in Climates
ASSUME LoadsAssumption == MaxLoads \in Nat

VARIABLES
  \* RouteVizFragment
  created,    \* onCreate has run, so rb is not null
  ev,         \* ev is not null
  route, est_c, climat, new_data,
  \* RouteBoxes: its own route and est_c, and the length of dist
  rb_route, rb_est, rb_dist,
  \* the threads
  pc,
  guarded,    \* the delivery is inside fetchData's try block
  incoming,   \* for each loader, the route it fetched
  loads,
  alive,      \* no exception has left a thread
  \* history
  recorded,   \* the last delivery of CarData came to record the climate
  failed,     \* an update ended in an exception
  torn,       \* a drawing ended in an exception
  trouble     \* the unusual circumstances met so far

fragment == <<created, ev, route, est_c, climat, new_data>>
boxes == <<rb_route, rb_est, rb_dist>>
delivery == <<guarded, incoming, loads>>
history == <<recorded, torn, trouble>>
vars == <<fragment, boxes, pc, delivery, alive, failed, history>>

-----------------------------------------------------------------------------

(* Faulty variant: no route is taken for a route. *)
EstimateOfNull(r, c) == [route |-> r, climate |-> c]

(* consumptionOnRoute *)
Estimate(r, c) == IF r = Null THEN Null ELSE [route |-> r, climate |-> c]

Length(est) == Steps[est.route]

(* Faulty variant: the loop over the steps runs once too often. *)
CoversOffByOne(est, r) == r # Null /\ est # Null /\ Length(est) > Steps[r]

(* No loop over the route's steps runs off the estimation. *)
Covers(est, r) == r # Null /\ est # Null /\ Length(est) >= Steps[r]

Init ==
  /\ created = FALSE /\ ev = FALSE
  /\ route = Null /\ est_c = Null /\ climat = 0 /\ new_data = FALSE
  /\ rb_route = Null /\ rb_est = Null /\ rb_dist = 0
  /\ pc = [t \in Threads |-> "idle"]
  /\ guarded = TRUE
  /\ incoming = [t \in Loaders |-> Null] /\ loads = 0
  /\ alive = TRUE /\ failed = FALSE
  /\ recorded = FALSE /\ torn = FALSE /\ trouble = {}

(* The fragment is registered with CarData before it is created. *)
OnCreate ==
  /\ ~created
  /\ created' = TRUE
  /\ UNCHANGED <<ev, route, est_c, climat, new_data, boxes, pc, delivery, alive, failed, history>>

Goto(t, label) == pc' = [pc EXCEPT ![t] = label]

(* An exception ends the update.  fetchData swallows it, except on the path
   that notifies from its own catch block; on a loader it is uncaught. *)
Throw(t) ==
  /\ Goto(t, "idle")
  /\ failed' = TRUE
  /\ alive' = (t = Car /\ guarded)

Proceed(t, label) == Goto(t, label) /\ UNCHANGED <<failed, alive>>

Overlap(t) == IF \E u \in Threads \ {t} : pc[u] # "idle" THEN {"overlap"} ELSE {}

-----------------------------------------------------------------------------
(* update, called with CarData.                                            *)

CarUpdate(g) ==
  /\ alive
  /\ pc[Car] = "idle"
  /\ guarded' = g
  /\ ev' = TRUE
  /\ Proceed(Car, "test")
  /\ recorded' = FALSE
  /\ trouble' = trouble \cup Overlap(Car)
  /\ UNCHANGED <<created, route, est_c, climat, new_data, boxes, incoming, loads, torn>>

CarTest(c) ==
  /\ alive
  /\ pc[Car] = "test"
  /\ Proceed(Car, IF climat # c /\ route # Null THEN "estimate" ELSE "record")
  /\ UNCHANGED <<fragment, boxes, delivery, history>>

CarEstimate(c) ==
  /\ alive
  /\ pc[Car] = "estimate"
  /\ est_c' = Estimate(route, c)
  /\ Proceed(Car, "show")
  /\ UNCHANGED <<created, ev, route, climat, new_data, boxes, delivery, history>>

(* rb.updateEstimation(est_c): est_c is stored before anything can fail.  The
   exceptions: no route in the boxes, no dist, no or too short an estimation.
   There are boxes, since there was a route. *)
CarShow ==
  /\ alive
  /\ pc[Car] = "show"
  /\ rb_est' = est_c
  /\ \/ rb_dist > 0 /\ Covers(est_c, rb_route) /\ Proceed(Car, "record")
     \/ ~(rb_dist > 0 /\ Covers(est_c, rb_route)) /\ Throw(Car)
  /\ UNCHANGED <<fragment, rb_route, rb_dist, delivery, history>>

CarRecord(c) ==
  /\ alive
  /\ pc[Car] = "record"
  /\ climat' = c
  /\ recorded' = TRUE
  /\ Proceed(Car, "check")
  /\ UNCHANGED <<created, ev, route, est_c, new_data, boxes, delivery, torn, trouble>>

-----------------------------------------------------------------------------
(* update, called with a RouteDataFetcher, whose combined route is null when
   fetching failed.  relayObservable registers fragments that exist. *)

(* Faulty variant: that the route is new is not marked. *)
RouteUpdateUnmarked(t, r) ==
  /\ alive
  /\ pc[t] = "idle"
  /\ created
  /\ loads < MaxLoads
  /\ loads' = loads + 1
  /\ incoming' = [incoming EXCEPT ![t] = r]
  /\ Proceed(t, "assign")
  /\ trouble' = trouble \cup Overlap(t) \cup (IF r = Null THEN {"noRoute"} ELSE {})
                        \cup (IF ev THEN {} ELSE {"routeFirst"})
  /\ UNCHANGED <<created, ev, route, est_c, climat, new_data, boxes, guarded, recorded, torn>>

RouteUpdate(t, r) ==
  /\ alive
  /\ pc[t] = "idle"
  /\ created
  /\ loads < MaxLoads
  /\ loads' = loads + 1
  /\ new_data' = TRUE
  /\ incoming' = [incoming EXCEPT ![t] = r]
  /\ Proceed(t, "assign")
  /\ trouble' = trouble \cup Overlap(t) \cup (IF r = Null THEN {"noRoute"} ELSE {})
                        \cup (IF ev THEN {} ELSE {"routeFirst"})
  /\ UNCHANGED <<created, ev, route, est_c, climat, boxes, guarded, recorded, torn>>

RouteAssign(t) ==
  /\ alive
  /\ pc[t] = "assign"
  /\ route' = incoming[t]
  /\ Proceed(t, "check")
  /\ UNCHANGED <<created, ev, est_c, climat, new_data, boxes, delivery, history>>

-----------------------------------------------------------------------------
(* The last part of update, common to both.                                *)

Check(t) ==
  /\ alive
  /\ pc[t] = "check"
  /\ Proceed(t, IF new_data /\ ev THEN "build" ELSE "idle")
  /\ UNCHANGED <<fragment, boxes, delivery, history>>

Build(t) ==
  /\ alive
  /\ pc[t] = "build"
  /\ est_c' = Estimate(route, climat)
  /\ Proceed(t, "display")
  /\ UNCHANGED <<created, ev, route, climat, new_data, boxes, delivery, history>>

(* Faulty variant: the distances of the last route are kept. *)
DisplayKeepingDist(t) ==
  /\ alive
  /\ pc[t] = "display"
  /\ rb_route' = route
  /\ rb_est' = est_c
  /\ rb_dist' = IF rb_dist = 0 /\ est_c # Null THEN Length(est_c) ELSE rb_dist
  /\ \/ Covers(est_c, route) /\ Proceed(t, "clear")
     \/ ~Covers(est_c, route) /\ Throw(t)
  /\ UNCHANGED <<fragment, delivery, history>>

(* rb.updateData(route, est_c); both are stored before anything can fail, and
   dist is as long as the estimation. *)
Display(t) ==
  /\ alive
  /\ pc[t] = "display"
  /\ rb_route' = route
  /\ rb_est' = est_c
  /\ rb_dist' = IF est_c = Null THEN rb_dist ELSE Length(est_c)
  /\ \/ Covers(est_c, route) /\ Proceed(t, "clear")
     \/ ~Covers(est_c, route) /\ Throw(t)
  /\ UNCHANGED <<fragment, delivery, history>>

Clear(t) ==
  /\ alive
  /\ pc[t] = "clear"
  /\ new_data' = FALSE
  /\ Proceed(t, "idle")
  /\ UNCHANGED <<created, ev, route, est_c, climat, boxes, delivery, history>>

-----------------------------------------------------------------------------

(* RouteBoxes.draw, every half second: a box per element of est_c, placed by
   dist.  redraw swallows the exception, and the frame is lost. *)
Draw ==
  /\ alive
  /\ rb_route # Null /\ rb_est # Null
  /\ torn' = (torn \/ Length(rb_est) > rb_dist)
  /\ UNCHANGED <<fragment, boxes, pc, delivery, alive, failed, recorded, trouble>>

CarSteps ==
  \/ \E g \in BOOLEAN : CarUpdate(g)
  \/ \E c \in Climates : CarTest(c) \/ CarEstimate(c) \/ CarRecord(c)
  \/ CarShow

LoaderSteps(t) == (\E r \in Routes \cup {Null} : RouteUpdate(t, r)) \/ RouteAssign(t)

CommonSteps(t) == Check(t) \/ Build(t) \/ Display(t) \/ Clear(t)

Next ==
  \/ OnCreate
  \/ CarSteps
  \/ \E t \in Loaders : LoaderSteps(t)
  \/ \E t \in Threads : CommonSteps(t)
  \/ Draw

Spec == Init /\ [][Next]_vars

-----------------------------------------------------------------------------
(* Properties.                                                             *)

Estimations == [route : Routes, climate : Climates]

(* Type correctness of the fragment, the boxes and the threads. *)
TypeOK ==
  /\ created \in BOOLEAN /\ ev \in BOOLEAN /\ new_data \in BOOLEAN
  /\ route \in Routes \cup {Null} /\ est_c \in Estimations \cup {Null}
  /\ climat \in Climates
  /\ rb_route \in Routes \cup {Null} /\ rb_est \in Estimations \cup {Null} /\ rb_dist \in Nat
  /\ pc \in [Threads -> {"idle", "test", "estimate", "show", "record", "assign",
                         "check", "build", "display", "clear"}]
  /\ guarded \in BOOLEAN /\ recorded \in BOOLEAN
  /\ incoming \in [Loaders -> Routes \cup {Null}] /\ loads \in 0..MaxLoads
  /\ alive \in BOOLEAN /\ failed \in BOOLEAN /\ torn \in BOOLEAN
  /\ trouble \subseteq {"overlap", "noRoute", "routeFirst"}

(* An update fails only if two updates overlapped, a route could not be
   fetched, or a route came before the first CarData. *)
FailuresExplained == failed \/ ~alive => trouble # {}

(* Between updates that never overlapped, boxes that have a route have the
   fragment's, the last one loaded, with its own distances and an estimation of
   it, whatever failed on the way; and if nothing unusual happened they do have
   it, no route waits to be shown, and the estimation is the one made last. *)
ShownIsCurrent ==
  "overlap" \notin trouble /\ (\A t \in Threads : pc[t] = "idle") =>
    /\ rb_route # Null => /\ rb_route = route /\ rb_dist = Steps[route]
                          /\ rb_est # Null /\ rb_est.route = route
    /\ trouble = {} => rb_route = route /\ rb_est = est_c /\ ~new_data

(* As long as updates do not overlap, no frame is lost to boxes whose
   distances and estimation are of different lengths, whatever failed. *)
DrawSafe == "overlap" \notin trouble => ~torn

(* The class comment: "When CarData is received, the climate consumption is
   recorded", so every delivery that has ended did, at least while the app is
   alive, updates never overlapped and every route was fetched. *)
ClimateRecorded ==
  alive /\ trouble \subseteq {"routeFirst"} /\ ev /\ pc[Car] = "idle" => recorded
=============================================================================
