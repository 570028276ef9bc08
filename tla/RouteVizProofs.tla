--------------------------- MODULE RouteVizProofs ---------------------------
(***************************************************************************)
(* Proofs about RouteViz, for any number of loaders, routes and climates:  *)
(* what can make an update fail, what the picture shows, and that no frame *)
(* is lost as long as updates do not overlap.                              *)
(***************************************************************************)
EXTENDS RouteViz, TLAPS

(* The steps of update that each kind of thread goes through. *)
OwnSteps ==
  /\ pc[Car] # "assign"
  /\ \A t \in Loaders : pc[t] \notin {"test", "estimate", "show", "record"}

(* Without overlap, one update at a time. *)
Alone ==
  "overlap" \notin trouble =>
    \A t, u \in Threads : pc[t] # "idle" /\ pc[u] # "idle" => t = u

(* What an estimation must look like before it is handed to the boxes. *)
EstimationAtHand ==
  /\ \A t \in Threads : pc[t] = "display" => IF route = Null THEN est_c = Null
                                             ELSE est_c # Null /\ est_c.route = route
  /\ pc[Car] \in {"estimate", "show"} => route # Null
  /\ pc[Car] = "show" => est_c # Null /\ est_c.route = route

(* Without overlap, the boxes hold one route with its own distances and
   estimation, and it is the fragment's, except while a loader exchanges it. *)
BoxesFit ==
  /\ rb_route # Null => /\ rb_dist = Steps[rb_route] /\ ev
                        /\ rb_est # Null /\ rb_est.route = rb_route
  /\ (\A t \in Loaders : pc[t] \notin {"check", "build", "display"}) =>
       (rb_route # Null => rb_route = route)
  /\ \A t \in Loaders : pc[t] # "idle" => new_data
  /\ \A t \in Threads : pc[t] \in {"build", "display"} => ev

InStep == "overlap" \notin trouble => EstimationAtHand /\ BoxesFit /\ ~torn

LoadersIdle == \A t \in Loaders : pc[t] = "idle"

Shown == rb_route = route /\ (route # Null => rb_dist = Steps[route])

Fresh == rb_est = est_c

(* The course of a loader's update when nothing unusual happened... *)
LoaderOnCourse ==
  \A t \in Loaders :
    /\ pc[t] # "idle" => ev /\ created /\ incoming[t] # Null
    /\ pc[t] \in {"check", "build", "display", "clear"} => route # Null
    /\ pc[t] = "display" => est_c = Estimate(route, climat)
    /\ pc[t] = "clear" => Shown /\ Fresh

(* ...and of an update with the car's data. *)
CarOnCourse ==
  /\ pc[Car] \notin {"build", "display", "clear"}
  /\ pc[Car] # "idle" => ev
  /\ LoadersIdle => ~new_data /\ Shown
  /\ LoadersIdle /\ pc[Car] # "show" => Fresh

OnCourse ==
  trouble = {} =>
    /\ ~failed /\ alive
    /\ route # Null => ev /\ created
    /\ LoaderOnCourse
    /\ CarOnCourse

RouteInv == TypeOK /\ OwnSteps /\ Alone /\ InStep /\ OnCourse

-----------------------------------------------------------------------------
(* An estimation is one of the route it was asked for. *)
LEMMA EstimateFits ==
  ASSUME NEW r \in Routes \cup {Null}, NEW c \in Climates
  PROVE  /\ Estimate(r, c) \in Estimations \cup {Null}
         /\ r = Null => Estimate(r, c) = Null
         /\ r # Null => Estimate(r, c) # Null /\ Estimate(r, c).route = r
                        /\ Length(Estimate(r, c)) = Steps[r]
  BY RoutesAssumption, NullAssumption DEF Estimate, Estimations, Length

(* An estimation of the route itself covers it. *)
LEMMA OwnCovers ==
  ASSUME NEW r \in Routes, NEW est, est # Null, est.route = r
  PROVE  Covers(est, r) /\ Length(est) = Steps[r] /\ Steps[r] > 0
  BY RoutesAssumption DEF Covers, Length

(* The invariant holds before the fragment is created. *)
LEMMA Started == Init => RouteInv
<1> SUFFICES ASSUME Init PROVE RouteInv
  OBVIOUS
<1>1. TypeOK
  <2>1. loads \in 0..MaxLoads
    BY LoadsAssumption DEF Init
  <2>2. incoming \in [Loaders -> Routes \cup {Null}]
    BY DEF Init
  <2>3. pc \in [Threads -> {"idle"}]
    BY DEF Init
  <2> QED
    BY ClimatesAssumption, <2>1, <2>2, <2>3 DEF Init, TypeOK
<1>2. OwnSteps /\ Alone
  BY DEF Init, OwnSteps, Alone, Threads
<1>3. InStep
  BY DEF Init, InStep, EstimationAtHand, BoxesFit, Threads
<1>4. OnCourse
  BY DEF Init, OnCourse, LoaderOnCourse, CarOnCourse, LoadersIdle, Shown, Fresh, Threads
<1> QED
  BY <1>1, <1>2, <1>3, <1>4 DEF RouteInv

(* The fragment is created. *)
LEMMA Creating ==
  ASSUME RouteInv, OnCreate
  PROVE  RouteInv'
<1> USE ThreadsAssumption, RoutesAssumption, LoadsAssumption DEF RouteInv, OnCreate, fragment, boxes, delivery, history
<1>1. TypeOK'
  BY EstimateFits DEF TypeOK
<1>2. OwnSteps'
  BY DEF TypeOK, OwnSteps, Threads
<1>3. Alone'
  BY DEF TypeOK, Alone, Threads
<1>4. InStep'
  <2> SUFFICES ASSUME "overlap" \notin trouble'
               PROVE  EstimationAtHand' /\ BoxesFit' /\ ~torn'
    BY DEF InStep
  <2>1. EstimationAtHand'
    BY EstimateFits DEF TypeOK, OwnSteps, Alone, InStep, EstimationAtHand, Threads
  <2>2. BoxesFit'
    BY EstimateFits DEF TypeOK, OwnSteps, Alone, InStep, EstimationAtHand, BoxesFit, Threads, Length
  <2>3. ~torn'
    BY DEF InStep
  <2> QED
    BY <2>1, <2>2, <2>3
<1>5. OnCourse'
  <2> SUFFICES ASSUME trouble' = {}
               PROVE  /\ ~failed' /\ alive' /\ (route' # Null => ev' /\ created')
                      /\ LoaderOnCourse' /\ CarOnCourse'
    BY DEF OnCourse
  <2> USE DEF TypeOK, OwnSteps, Alone, InStep, OnCourse, LoaderOnCourse, CarOnCourse, Threads
  <2>1. ~failed' /\ alive' /\ (route' # Null => ev' /\ created')
    BY EstimateFits
  <2>2. LoaderOnCourse'
    BY EstimateFits DEF LoadersIdle, Shown, Fresh
  <2>3. CarOnCourse'
    BY EstimateFits DEF LoadersIdle, Shown, Fresh
  <2> QED
    BY <2>1, <2>2, <2>3
<1> QED
  BY <1>1, <1>2, <1>3, <1>4, <1>5

(* A delivery of the car's data begins. *)
LEMMA CarUpdating ==
  ASSUME RouteInv, NEW g \in BOOLEAN, CarUpdate(g)
  PROVE  RouteInv'
<1> USE ThreadsAssumption, RoutesAssumption, LoadsAssumption DEF RouteInv, CarUpdate, Overlap, Goto, Proceed, fragment, boxes, delivery, history
<1>1. TypeOK'
  BY EstimateFits DEF TypeOK
<1>2. OwnSteps'
  BY DEF TypeOK, OwnSteps, Threads
<1>3. Alone'
  BY DEF TypeOK, Alone, Threads
<1>4. InStep'
  <2> SUFFICES ASSUME "overlap" \notin trouble'
               PROVE  EstimationAtHand' /\ BoxesFit' /\ ~torn'
    BY DEF InStep
  <2>1. EstimationAtHand'
    BY EstimateFits DEF TypeOK, OwnSteps, Alone, InStep, EstimationAtHand, Threads
  <2>2. BoxesFit'
    BY EstimateFits DEF TypeOK, OwnSteps, Alone, InStep, EstimationAtHand, BoxesFit, Threads, Length
  <2>3. ~torn'
    BY DEF InStep
  <2> QED
    BY <2>1, <2>2, <2>3
<1>5. OnCourse'
  <2> SUFFICES ASSUME trouble' = {}
               PROVE  /\ ~failed' /\ alive' /\ (route' # Null => ev' /\ created')
                      /\ LoaderOnCourse' /\ CarOnCourse'
    BY DEF OnCourse
  <2> USE DEF TypeOK, OwnSteps, Alone, InStep, OnCourse, LoaderOnCourse, CarOnCourse, Threads
  <2>1. ~failed' /\ alive' /\ (route' # Null => ev' /\ created')
    BY EstimateFits
  <2>2. LoaderOnCourse'
    BY EstimateFits DEF LoadersIdle, Shown, Fresh
  <2>3. CarOnCourse'
    BY EstimateFits DEF LoadersIdle, Shown, Fresh
  <2> QED
    BY <2>1, <2>2, <2>3
<1> QED
  BY <1>1, <1>2, <1>3, <1>4, <1>5

(* It looks for another climate. *)
LEMMA CarTesting ==
  ASSUME RouteInv, NEW c \in Climates, CarTest(c)
  PROVE  RouteInv'
<1> USE ThreadsAssumption, RoutesAssumption, LoadsAssumption DEF RouteInv, CarTest, Goto, Proceed, fragment, boxes, delivery, history
<1>1. TypeOK'
  BY EstimateFits DEF TypeOK
<1>2. OwnSteps'
  BY DEF TypeOK, OwnSteps, Threads
<1>3. Alone'
  BY DEF TypeOK, Alone, Threads
<1>4. InStep'
  <2> SUFFICES ASSUME "overlap" \notin trouble'
               PROVE  EstimationAtHand' /\ BoxesFit' /\ ~torn'
    BY DEF InStep
  <2>1. EstimationAtHand'
    BY EstimateFits DEF TypeOK, OwnSteps, Alone, InStep, EstimationAtHand, Threads
  <2>2. BoxesFit'
    BY EstimateFits DEF TypeOK, OwnSteps, Alone, InStep, EstimationAtHand, BoxesFit, Threads, Length
  <2>3. ~torn'
    BY DEF InStep
  <2> QED
    BY <2>1, <2>2, <2>3
<1>5. OnCourse'
  <2> SUFFICES ASSUME trouble' = {}
               PROVE  /\ ~failed' /\ alive' /\ (route' # Null => ev' /\ created')
                      /\ LoaderOnCourse' /\ CarOnCourse'
    BY DEF OnCourse
  <2> USE DEF TypeOK, OwnSteps, Alone, InStep, OnCourse, LoaderOnCourse, CarOnCourse, Threads
  <2>1. ~failed' /\ alive' /\ (route' # Null => ev' /\ created')
    BY EstimateFits
  <2>2. LoaderOnCourse'
    BY EstimateFits DEF LoadersIdle, Shown, Fresh
  <2>3. CarOnCourse'
    BY EstimateFits DEF LoadersIdle, Shown, Fresh
  <2> QED
    BY <2>1, <2>2, <2>3
<1> QED
  BY <1>1, <1>2, <1>3, <1>4, <1>5

(* It computes the estimation again. *)
LEMMA CarEstimating ==
  ASSUME RouteInv, NEW c \in Climates, CarEstimate(c)
  PROVE  RouteInv'
<1> USE ThreadsAssumption, RoutesAssumption, LoadsAssumption DEF RouteInv, CarEstimate, Goto, Proceed, fragment, boxes, delivery, history
<1>1. TypeOK'
  BY EstimateFits DEF TypeOK
<1>2. OwnSteps'
  BY DEF TypeOK, OwnSteps, Threads
<1>3. Alone'
  BY DEF TypeOK, Alone, Threads
<1>4. InStep'
  <2> SUFFICES ASSUME "overlap" \notin trouble'
               PROVE  EstimationAtHand' /\ BoxesFit' /\ ~torn'
    BY DEF InStep
  <2>1. EstimationAtHand'
    BY EstimateFits DEF TypeOK, OwnSteps, Alone, InStep, EstimationAtHand, Threads
  <2>2. BoxesFit'
    BY EstimateFits DEF TypeOK, OwnSteps, Alone, InStep, EstimationAtHand, BoxesFit, Threads, Length
  <2>3. ~torn'
    BY DEF InStep
  <2> QED
    BY <2>1, <2>2, <2>3
<1>5. OnCourse'
  <2> SUFFICES ASSUME trouble' = {}
               PROVE  /\ ~failed' /\ alive' /\ (route' # Null => ev' /\ created')
                      /\ LoaderOnCourse' /\ CarOnCourse'
    BY DEF OnCourse
  <2> USE DEF TypeOK, OwnSteps, Alone, InStep, OnCourse, LoaderOnCourse, CarOnCourse, Threads
  <2>1. ~failed' /\ alive' /\ (route' # Null => ev' /\ created')
    BY EstimateFits
  <2>2. LoaderOnCourse'
    BY EstimateFits DEF LoadersIdle, Shown, Fresh
  <2>3. CarOnCourse'
    BY EstimateFits DEF LoadersIdle, Shown, Fresh
  <2> QED
    BY <2>1, <2>2, <2>3
<1> QED
  BY <1>1, <1>2, <1>3, <1>4, <1>5

(* It shows the new estimation, or fails. *)
LEMMA CarShowing ==
  ASSUME RouteInv, CarShow
  PROVE  RouteInv'
<1> USE ThreadsAssumption, RoutesAssumption, LoadsAssumption DEF RouteInv, CarShow, Throw, Goto, Proceed, fragment, boxes, delivery, history
<1>1. TypeOK'
  BY EstimateFits DEF TypeOK
<1>2. OwnSteps'
  BY DEF TypeOK, OwnSteps, Threads
<1>3. Alone'
  BY DEF TypeOK, Alone, Threads
<1>4. InStep'
  <2> SUFFICES ASSUME "overlap" \notin trouble'
               PROVE  EstimationAtHand' /\ BoxesFit' /\ ~torn'
    BY DEF InStep
  <2>0. LoadersIdle
    BY DEF TypeOK, Alone, LoadersIdle, Threads
  <2>4. rb_route # Null => rb_route = route
    BY <2>0 DEF InStep, BoxesFit, LoadersIdle
  <2>5. pc' = [pc EXCEPT ![Car] = pc'[Car]] /\ pc[Car] = "show"
        /\ pc'[Car] \in {"idle", "record"}
    BY DEF TypeOK, Threads
  <2>6. \A t \in Loaders : pc'[t] = "idle"
    BY <2>0, <2>5 DEF LoadersIdle, TypeOK, Threads
  <2>7. rb_route # Null => rb_est' # Null /\ rb_est'.route = rb_route
    BY <2>4, <2>5 DEF InStep, BoxesFit, EstimationAtHand
  <2>1. EstimationAtHand'
    BY EstimateFits DEF TypeOK, OwnSteps, Alone, InStep, EstimationAtHand, Threads
  <2>2. BoxesFit'
    BY <2>4, <2>5, <2>6, <2>7 DEF InStep, BoxesFit, Threads
  <2>3. ~torn'
    BY DEF InStep
  <2> QED
    BY <2>1, <2>2, <2>3
<1>5. OnCourse'
  <2> SUFFICES ASSUME trouble' = {}
               PROVE  /\ ~failed' /\ alive' /\ (route' # Null => ev' /\ created')
                      /\ LoaderOnCourse' /\ CarOnCourse'
    BY DEF OnCourse
  <2>4. pc[Car] = "show" /\ LoadersIdle
    BY DEF TypeOK, Alone, LoadersIdle, Threads
  <2>5. /\ alive /\ ~failed /\ created /\ ev /\ route \in Routes
        /\ rb_route = route /\ rb_dist = Steps[route]
        /\ est_c # Null /\ est_c.route = route
    BY <2>4 DEF TypeOK, InStep, EstimationAtHand, OnCourse, CarOnCourse, Shown
  <2>6. rb_dist > 0 /\ Covers(est_c, rb_route)
    BY <2>5, OwnCovers
  <2>7. /\ pc' = [pc EXCEPT ![Car] = "record"] /\ UNCHANGED <<failed, alive>>
        /\ rb_est' = est_c
    BY <2>5, <2>6
  <2>8. pc'[Car] = "record" /\ LoadersIdle'
    BY <2>4, <2>7 DEF LoadersIdle, TypeOK, Threads
  <2>1. ~failed' /\ alive' /\ (route' # Null => ev' /\ created')
    BY <2>5, <2>7
  <2>2. LoaderOnCourse'
    BY <2>8 DEF LoaderOnCourse, LoadersIdle
  <2>3. CarOnCourse'
    BY <2>4, <2>5, <2>7, <2>8 DEF OnCourse, CarOnCourse, Shown, Fresh
  <2> QED
    BY <2>1, <2>2, <2>3
<1> QED
  BY <1>1, <1>2, <1>3, <1>4, <1>5

(* It records the climate. *)
LEMMA CarRecording ==
  ASSUME RouteInv, NEW c \in Climates, CarRecord(c)
  PROVE  RouteInv'
<1> USE ThreadsAssumption, RoutesAssumption, LoadsAssumption DEF RouteInv, CarRecord, Goto, Proceed, fragment, boxes, delivery, history
<1>1. TypeOK'
  BY EstimateFits DEF TypeOK
<1>2. OwnSteps'
  BY DEF TypeOK, OwnSteps, Threads
<1>3. Alone'
  BY DEF TypeOK, Alone, Threads
<1>4. InStep'
  <2> SUFFICES ASSUME "overlap" \notin trouble'
               PROVE  EstimationAtHand' /\ BoxesFit' /\ ~torn'
    BY DEF InStep
  <2>1. EstimationAtHand'
    BY EstimateFits DEF TypeOK, OwnSteps, Alone, InStep, EstimationAtHand, Threads
  <2>2. BoxesFit'
    BY EstimateFits DEF TypeOK, OwnSteps, Alone, InStep, EstimationAtHand, BoxesFit, Threads, Length
  <2>3. ~torn'
    BY DEF InStep
  <2> QED
    BY <2>1, <2>2, <2>3
<1>5. OnCourse'
  <2> SUFFICES ASSUME trouble' = {}
               PROVE  /\ ~failed' /\ alive' /\ (route' # Null => ev' /\ created')
                      /\ LoaderOnCourse' /\ CarOnCourse'
    BY DEF OnCourse
  <2> USE DEF TypeOK, OwnSteps, Alone, InStep, OnCourse, LoaderOnCourse, CarOnCourse, Threads
  <2>1. ~failed' /\ alive' /\ (route' # Null => ev' /\ created')
    BY EstimateFits
  <2>2. LoaderOnCourse'
    BY EstimateFits DEF LoadersIdle, Shown, Fresh
  <2>3. CarOnCourse'
    BY EstimateFits DEF LoadersIdle, Shown, Fresh
  <2> QED
    BY <2>1, <2>2, <2>3
<1> QED
  BY <1>1, <1>2, <1>3, <1>4, <1>5

(* A loader brings a route. *)
LEMMA RouteUpdating ==
  ASSUME RouteInv, NEW t \in Loaders, NEW r \in Routes \cup {Null}, RouteUpdate(t, r)
  PROVE  RouteInv'
<1> USE ThreadsAssumption, RoutesAssumption, LoadsAssumption DEF RouteInv, RouteUpdate, Overlap, Goto, Proceed, fragment, boxes, delivery, history
<1>1. TypeOK'
  <2>1. loads' \in 0..MaxLoads
    BY DEF TypeOK
  <2>2. pc' \in [Threads -> {"idle", "test", "estimate", "show", "record", "assign",
                            "check", "build", "display", "clear"}]
    BY DEF TypeOK
  <2>3. incoming' \in [Loaders -> Routes \cup {Null}]
    BY DEF TypeOK
  <2>4. trouble' \subseteq {"overlap", "noRoute", "routeFirst"}
    BY DEF TypeOK
  <2> QED
    BY <2>1, <2>2, <2>3, <2>4 DEF TypeOK
<1>2. OwnSteps'
  BY DEF TypeOK, OwnSteps, Threads
<1>3. Alone'
  BY DEF TypeOK, Alone, Threads
<1>4. InStep'
  <2> SUFFICES ASSUME "overlap" \notin trouble'
               PROVE  EstimationAtHand' /\ BoxesFit' /\ ~torn'
    BY DEF InStep
  <2>1. EstimationAtHand'
    BY EstimateFits DEF TypeOK, OwnSteps, Alone, InStep, EstimationAtHand, Threads
  <2>2. BoxesFit'
    BY EstimateFits DEF TypeOK, OwnSteps, Alone, InStep, EstimationAtHand, BoxesFit, Threads, Length
  <2>3. ~torn'
    BY DEF InStep
  <2> QED
    BY <2>1, <2>2, <2>3
<1>5. OnCourse'
  <2> SUFFICES ASSUME trouble' = {}
               PROVE  /\ ~failed' /\ alive' /\ (route' # Null => ev' /\ created')
                      /\ LoaderOnCourse' /\ CarOnCourse'
    BY DEF OnCourse
  <2> USE DEF TypeOK, OwnSteps, Alone, InStep, OnCourse, LoaderOnCourse, CarOnCourse, Threads
  <2>1. ~failed' /\ alive' /\ (route' # Null => ev' /\ created')
    BY EstimateFits
  <2>2. LoaderOnCourse'
    BY EstimateFits DEF LoadersIdle, Shown, Fresh
  <2>3. CarOnCourse'
    BY EstimateFits DEF LoadersIdle, Shown, Fresh
  <2> QED
    BY <2>1, <2>2, <2>3
<1> QED
  BY <1>1, <1>2, <1>3, <1>4, <1>5

(* The route is exchanged. *)
LEMMA RouteAssigning ==
  ASSUME RouteInv, NEW t \in Loaders, RouteAssign(t)
  PROVE  RouteInv'
<1> USE ThreadsAssumption, RoutesAssumption, LoadsAssumption DEF RouteInv, RouteAssign, Goto, Proceed, fragment, boxes, delivery, history
<1>1. TypeOK'
  BY EstimateFits DEF TypeOK
<1>2. OwnSteps'
  BY DEF TypeOK, OwnSteps, Threads
<1>3. Alone'
  BY DEF TypeOK, Alone, Threads
<1>4. InStep'
  <2> SUFFICES ASSUME "overlap" \notin trouble'
               PROVE  EstimationAtHand' /\ BoxesFit' /\ ~torn'
    BY DEF InStep
  <2>1. EstimationAtHand'
    BY EstimateFits DEF TypeOK, OwnSteps, Alone, InStep, EstimationAtHand, Threads
  <2>2. BoxesFit'
    BY EstimateFits DEF TypeOK, OwnSteps, Alone, InStep, EstimationAtHand, BoxesFit, Threads, Length
  <2>3. ~torn'
    BY DEF InStep
  <2> QED
    BY <2>1, <2>2, <2>3
<1>5. OnCourse'
  <2> SUFFICES ASSUME trouble' = {}
               PROVE  /\ ~failed' /\ alive' /\ (route' # Null => ev' /\ created')
                      /\ LoaderOnCourse' /\ CarOnCourse'
    BY DEF OnCourse
  <2> USE DEF TypeOK, OwnSteps, Alone, InStep, OnCourse, LoaderOnCourse, CarOnCourse, Threads
  <2>1. ~failed' /\ alive' /\ (route' # Null => ev' /\ created')
    BY EstimateFits
  <2>2. LoaderOnCourse'
    BY EstimateFits DEF LoadersIdle, Shown, Fresh
  <2>3. CarOnCourse'
    BY EstimateFits DEF LoadersIdle, Shown, Fresh
  <2> QED
    BY <2>1, <2>2, <2>3
<1> QED
  BY <1>1, <1>2, <1>3, <1>4, <1>5

(* The update finds whether there is a route to show. *)
LEMMA Checking ==
  ASSUME RouteInv, NEW t \in Threads, Check(t)
  PROVE  RouteInv'
<1> USE ThreadsAssumption, RoutesAssumption, LoadsAssumption DEF RouteInv, Check, Goto, Proceed, fragment, boxes, delivery, history
<1>1. TypeOK'
  BY EstimateFits DEF TypeOK
<1>2. OwnSteps'
  BY DEF TypeOK, OwnSteps, Threads
<1>3. Alone'
  BY DEF TypeOK, Alone, Threads
<1>4. InStep'
  <2> SUFFICES ASSUME "overlap" \notin trouble'
               PROVE  EstimationAtHand' /\ BoxesFit' /\ ~torn'
    BY DEF InStep
  <2>1. EstimationAtHand'
    BY EstimateFits DEF TypeOK, OwnSteps, Alone, InStep, EstimationAtHand, Threads
  <2>2. BoxesFit'
    BY EstimateFits DEF TypeOK, OwnSteps, Alone, InStep, EstimationAtHand, BoxesFit, Threads, Length
  <2>3. ~torn'
    BY DEF InStep
  <2> QED
    BY <2>1, <2>2, <2>3
<1>5. OnCourse'
  <2> SUFFICES ASSUME trouble' = {}
               PROVE  /\ ~failed' /\ alive' /\ (route' # Null => ev' /\ created')
                      /\ LoaderOnCourse' /\ CarOnCourse'
    BY DEF OnCourse
  <2> USE DEF TypeOK, OwnSteps, Alone, InStep, OnCourse, LoaderOnCourse, CarOnCourse, Threads
  <2>1. ~failed' /\ alive' /\ (route' # Null => ev' /\ created')
    BY EstimateFits
  <2>2. LoaderOnCourse'
    BY EstimateFits DEF LoadersIdle, Shown, Fresh
  <2>3. CarOnCourse'
    <3>1. CASE t = Car
      <4>1. LoadersIdle /\ ~new_data /\ ev
        BY <3>1 DEF LoadersIdle
      <4>2. pc'[Car] = "idle" /\ LoadersIdle'
        BY <3>1, <4>1 DEF LoadersIdle
      <4> QED
        BY <3>1, <4>1, <4>2 DEF Shown, Fresh
    <3>2. CASE t \in Loaders
      <4>1. ev /\ new_data
        BY <3>2 DEF BoxesFit
      <4>2. pc'[t] = "build" /\ pc'[Car] = "idle" /\ pc[Car] = "idle"
        BY <3>2, <4>1
      <4> QED
        BY <3>2, <4>2 DEF LoadersIdle
    <3> QED
      BY <3>1, <3>2
  <2> QED
    BY <2>1, <2>2, <2>3
<1> QED
  BY <1>1, <1>2, <1>3, <1>4, <1>5

(* The estimation of the route is computed. *)
LEMMA Building ==
  ASSUME RouteInv, NEW t \in Threads, Build(t)
  PROVE  RouteInv'
<1> USE ThreadsAssumption, RoutesAssumption, LoadsAssumption DEF RouteInv, Build, Goto, Proceed, fragment, boxes, delivery, history
<1>1. TypeOK'
  BY EstimateFits DEF TypeOK
<1>2. OwnSteps'
  BY DEF TypeOK, OwnSteps, Threads
<1>3. Alone'
  BY DEF TypeOK, Alone, Threads
<1>4. InStep'
  <2> SUFFICES ASSUME "overlap" \notin trouble'
               PROVE  EstimationAtHand' /\ BoxesFit' /\ ~torn'
    BY DEF InStep
  <2>1. EstimationAtHand'
    BY EstimateFits DEF TypeOK, OwnSteps, Alone, InStep, EstimationAtHand, Threads
  <2>2. BoxesFit'
    BY EstimateFits DEF TypeOK, OwnSteps, Alone, InStep, EstimationAtHand, BoxesFit, Threads, Length
  <2>3. ~torn'
    BY DEF InStep
  <2> QED
    BY <2>1, <2>2, <2>3
<1>5. OnCourse'
  <2> SUFFICES ASSUME trouble' = {}
               PROVE  /\ ~failed' /\ alive' /\ (route' # Null => ev' /\ created')
                      /\ LoaderOnCourse' /\ CarOnCourse'
    BY DEF OnCourse
  <2> USE DEF TypeOK, OwnSteps, Alone, InStep, OnCourse, LoaderOnCourse, CarOnCourse, Threads
  <2>1. ~failed' /\ alive' /\ (route' # Null => ev' /\ created')
    BY EstimateFits
  <2>2. LoaderOnCourse'
    BY EstimateFits DEF LoadersIdle, Shown, Fresh
  <2>3. CarOnCourse'
    BY EstimateFits DEF LoadersIdle, Shown, Fresh
  <2> QED
    BY <2>1, <2>2, <2>3
<1> QED
  BY <1>1, <1>2, <1>3, <1>4, <1>5

(* The boxes get route and estimation. *)
LEMMA Displaying ==
  ASSUME RouteInv, NEW t \in Threads, Display(t)
  PROVE  RouteInv'
<1> USE ThreadsAssumption, RoutesAssumption, LoadsAssumption DEF RouteInv, Display, Throw, Goto, Proceed, fragment, boxes, delivery, history
<1>1. TypeOK'
  <2>1. est_c # Null => Length(est_c) \in Nat
    BY DEF TypeOK, Estimations, Length
  <2>2. pc' \in [Threads -> {"idle", "test", "estimate", "show", "record", "assign",
                            "check", "build", "display", "clear"}]
    BY DEF TypeOK
  <2>3. alive' \in BOOLEAN /\ failed' \in BOOLEAN
    BY DEF TypeOK
  <2>4. rb_dist' \in Nat
    BY <2>1 DEF TypeOK
  <2> QED
    BY <2>2, <2>3, <2>4 DEF TypeOK
<1>2. OwnSteps'
  BY DEF TypeOK, OwnSteps, Threads
<1>3. Alone'
  BY DEF TypeOK, Alone, Threads
<1>4. InStep'
  <2> SUFFICES ASSUME "overlap" \notin trouble'
               PROVE  EstimationAtHand' /\ BoxesFit' /\ ~torn'
    BY DEF InStep
  <2>0. /\ pc[t] = "display" /\ pc' = [pc EXCEPT ![t] = pc'[t]] /\ pc'[t] \in {"clear", "idle"}
        /\ \A u \in Threads : u # t => pc'[u] = "idle"
    BY DEF TypeOK, Alone
  <2>1. EstimationAtHand'
    BY <2>0 DEF EstimationAtHand, Threads
  <2>4. rb_route' # Null => /\ rb_dist' = Steps[rb_route']
                            /\ rb_est' # Null /\ rb_est'.route = rb_route'
    BY <2>0 DEF InStep, EstimationAtHand, Length
  <2>5. ev
    BY <2>0 DEF InStep, BoxesFit
  <2>2. BoxesFit'
    BY <2>0, <2>4, <2>5 DEF InStep, BoxesFit, Threads
  <2>3. ~torn'
    BY DEF InStep
  <2> QED
    BY <2>1, <2>2, <2>3
<1>5. OnCourse'
  <2> SUFFICES ASSUME trouble' = {}
               PROVE  /\ ~failed' /\ alive' /\ (route' # Null => ev' /\ created')
                      /\ LoaderOnCourse' /\ CarOnCourse'
    BY DEF OnCourse
  <2>4. t \in Loaders /\ pc[t] = "display" /\ pc[Car] = "idle"
    BY DEF OnCourse, CarOnCourse, Alone, Threads
  <2>5. /\ alive /\ ~failed /\ created /\ ev /\ route \in Routes /\ incoming[t] # Null
        /\ climat \in Climates /\ est_c = Estimate(route, climat)
    BY <2>4 DEF TypeOK, OnCourse, LoaderOnCourse
  <2>6. Covers(est_c, route) /\ est_c # Null /\ Length(est_c) = Steps[route]
    BY <2>5, OwnCovers, EstimateFits
  <2>7. /\ pc' = [pc EXCEPT ![t] = "clear"] /\ UNCHANGED <<failed, alive>>
        /\ rb_route' = route /\ rb_est' = est_c /\ rb_dist' = Steps[route]
    BY <2>5, <2>6
  <2>8. pc'[t] = "clear" /\ pc'[Car] = "idle" /\ \A u \in Loaders : u # t => pc'[u] = "idle"
    BY <2>4, <2>7 DEF TypeOK, Alone, Threads
  <2>1. ~failed' /\ alive' /\ (route' # Null => ev' /\ created')
    BY <2>5, <2>7
  <2>2. LoaderOnCourse'
    BY <2>5, <2>7, <2>8 DEF LoaderOnCourse, Shown, Fresh
  <2>3. CarOnCourse'
    BY <2>4, <2>5, <2>8 DEF CarOnCourse, LoadersIdle
  <2> QED
    BY <2>1, <2>2, <2>3
<1> QED
  BY <1>1, <1>2, <1>3, <1>4, <1>5

(* The mark of a new route is taken away. *)
LEMMA Clearing ==
  ASSUME RouteInv, NEW t \in Threads, Clear(t)
  PROVE  RouteInv'
<1> USE ThreadsAssumption, RoutesAssumption, LoadsAssumption DEF RouteInv, Clear, Goto, Proceed, fragment, boxes, delivery, history
<1>1. TypeOK'
  BY EstimateFits DEF TypeOK
<1>2. OwnSteps'
  BY DEF TypeOK, OwnSteps, Threads
<1>3. Alone'
  BY DEF TypeOK, Alone, Threads
<1>4. InStep'
  <2> SUFFICES ASSUME "overlap" \notin trouble'
               PROVE  EstimationAtHand' /\ BoxesFit' /\ ~torn'
    BY DEF InStep
  <2>1. EstimationAtHand'
    BY EstimateFits DEF TypeOK, OwnSteps, Alone, InStep, EstimationAtHand, Threads
  <2>2. BoxesFit'
    BY EstimateFits DEF TypeOK, OwnSteps, Alone, InStep, EstimationAtHand, BoxesFit, Threads, Length
  <2>3. ~torn'
    BY DEF InStep
  <2> QED
    BY <2>1, <2>2, <2>3
<1>5. OnCourse'
  <2> SUFFICES ASSUME trouble' = {}
               PROVE  /\ ~failed' /\ alive' /\ (route' # Null => ev' /\ created')
                      /\ LoaderOnCourse' /\ CarOnCourse'
    BY DEF OnCourse
  <2> USE DEF TypeOK, OwnSteps, Alone, InStep, OnCourse, LoaderOnCourse, CarOnCourse, Threads
  <2>1. ~failed' /\ alive' /\ (route' # Null => ev' /\ created')
    BY EstimateFits
  <2>2. LoaderOnCourse'
    BY EstimateFits DEF LoadersIdle, Shown, Fresh
  <2>3. CarOnCourse'
    BY EstimateFits DEF LoadersIdle, Shown, Fresh
  <2> QED
    BY <2>1, <2>2, <2>3
<1> QED
  BY <1>1, <1>2, <1>3, <1>4, <1>5

(* Drawing finds as many distances as the estimation is long. *)
LEMMA Drawing ==
  ASSUME RouteInv, Draw
  PROVE  RouteInv'
<1> USE DEF Draw, fragment, boxes, delivery, history, RouteInv
<1>1. TypeOK'
  BY DEF TypeOK
<1>2. OwnSteps' /\ Alone'
  BY DEF OwnSteps, Alone
<1>3. InStep'
  <2> SUFFICES ASSUME "overlap" \notin trouble
               PROVE  EstimationAtHand' /\ BoxesFit' /\ ~torn'
    BY DEF InStep
  <2>1. EstimationAtHand' /\ BoxesFit'
    BY DEF InStep, EstimationAtHand, BoxesFit
  <2>2. Length(rb_est) = rb_dist /\ rb_dist \in Nat /\ ~torn
    BY DEF InStep, BoxesFit, Length, TypeOK
  <2>3. ~(Length(rb_est) > rb_dist)
    BY <2>2
  <2> QED
    BY <2>1, <2>2, <2>3
<1>4. OnCourse'
  BY DEF OnCourse, LoaderOnCourse, CarOnCourse, LoadersIdle, Shown, Fresh
<1> QED
  BY <1>1, <1>2, <1>3, <1>4

(* The inductive invariant of fragment, boxes and threads holds for any loaders,
   routes and climates. *)
THEOREM RouteInvariance == Spec => []RouteInv
<1>1. RouteInv /\ UNCHANGED vars => RouteInv'
  BY DEF vars, fragment, boxes, delivery, history, RouteInv, TypeOK, OwnSteps, Alone, InStep,
         EstimationAtHand, BoxesFit, OnCourse, LoaderOnCourse, CarOnCourse, LoadersIdle, Shown, Fresh
<1>2. RouteInv /\ Next => RouteInv'
  <2> SUFFICES ASSUME RouteInv, Next PROVE RouteInv'
    OBVIOUS
  <2>1. CASE OnCreate
    BY <2>1, Creating
  <2>2. CASE CarSteps
    BY <2>2, CarUpdating, CarTesting, CarEstimating, CarShowing, CarRecording DEF CarSteps
  <2>3. CASE \E t \in Loaders : LoaderSteps(t)
    BY <2>3, RouteUpdating, RouteAssigning DEF LoaderSteps
  <2>4. CASE \E t \in Threads : CommonSteps(t)
    BY <2>4, Checking, Building, Displaying, Clearing DEF CommonSteps
  <2>5. CASE Draw
    BY <2>5, Drawing
  <2> QED
    BY <2>1, <2>2, <2>3, <2>4, <2>5 DEF Next
<1> QED
  BY <1>1, <1>2, Started, PTL DEF Spec

(* Fragment, boxes and threads are of their types in every reachable state. *)
THEOREM RouteTypeCorrect == Spec => []TypeOK
  BY RouteInvariance, PTL DEF RouteInv

(* An update ends in an exception only in the three circumstances that are
   named, for any number of loaders and routes. *)
THEOREM FailuresNamed == Spec => []FailuresExplained
<1>1. RouteInv => FailuresExplained
  BY DEF RouteInv, OnCourse, FailuresExplained
<1> QED
  BY <1>1, RouteInvariance, PTL

(* Between updates that did not overlap the picture is that of the last route,
   whatever failed; if nothing unusual occurred the last route is shown, with the
   last estimation. *)
THEOREM PictureCurrent == Spec => []ShownIsCurrent
<1>1. RouteInv => ShownIsCurrent
  BY DEF RouteInv, InStep, BoxesFit, OnCourse, CarOnCourse, LoadersIdle, Shown, Fresh, ShownIsCurrent,
         Threads
<1> QED
  BY <1>1, RouteInvariance, PTL

(* No frame is lost to boxes whose lengths differ, as long as updates do not
   overlap, whatever failed. *)
THEOREM FramesDrawn == Spec => []DrawSafe
<1>1. RouteInv => DrawSafe
  BY DEF RouteInv, InStep, DrawSafe
<1> QED
  BY <1>1, RouteInvariance, PTL
=============================================================================
