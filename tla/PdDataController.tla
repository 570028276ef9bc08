-------------------------- MODULE PdDataController --------------------------
(***************************************************************************)
(* The controller of the driving game (PdDataController.java): it follows  *)
(* the car along the combined route, step by step, and reports to the game *)
(* (FineDriver) how the consumption compares with the route's.             *)
(*                                                                         *)
(* update runs on the thread that fetches the car's data; setRouteData on  *)
(* the thread of each RouteDataFetcher, with no lock between them.  Of     *)
(* setRouteData each assignment is a step.  update is cut where what it    *)
(* read before is used later; the reads and writes of one such step are    *)
(* taken at once.  What is compared of the consumptions is left out: an    *)
(* update ends in a report or in an exception, which the fetcher of the    *)
(* car's data catches.                                                     *)
(***************************************************************************)
EXTENDS Integers, RouteData

CONSTANTS
  Loaders,       \* the RouteDataFetchers the user starts
  Routes,        \* the directions Google may answer with
  Advances,      \* how far the car gets between two updates
  NONE,
  MaxDistance    \* bound of the model: the odometer

ASSUME RoutesAssumption ==
  /\ Routes \subseteq Seq(Nat \ {0}) /\ <<>> \notin Routes
  /\ \A r \in Routes : LoadFails(r) \/ Dist(r) % SampleSize(r) = 0    \* avg is whole
ASSUME NoneAssumption == NONE \notin [size : Nat, len : Nat]
ASSUME AdvancesAssumption == Advances \subseteq Nat /\ MaxDistance \in Nat

VARIABLES
  gameRunning,
  loading,       \* where each fetcher is: its run, or its call of setRouteData
  directions,    \* what it got from Google, until it hands over the result
  routeData,     \* the data_combined of the fetcher the controller holds
  routeDistanceTraveled, distanceTraveledStart, routeStepIndex,
  routeConsumptions,    \* the combined route they were computed for
  distance,      \* the car's odometer
  update,        \* where update is
  step,          \* its locals: the step's length and distanceSum
  outcome,       \* how the last update ended
  \* history
  overlapped,    \* setRouteData was under way during the update
  disturbed      \* ... during some update, or the route is not the first

loads == <<loading, directions>>
progress == <<routeDistanceTraveled, distanceTraveledStart, routeStepIndex, routeConsumptions>>
controllerVars ==
  <<gameRunning, loads, routeData, progress, distance, update, step, outcome, overlapped, disturbed>>

(* What comes of each answer, <<>> standing for none. *)
DataCombined ==
  [r \in Routes \cup {<<>>} |-> IF r = <<>> \/ LoadFails(r) THEN Lost ELSE Combined(r)]

NoStep == [len |-> 0, sum |-> 0]

ControllerInit ==
  /\ gameRunning = FALSE
  /\ loading = [l \in Loaders |-> "run"]
  /\ directions = [l \in Loaders |-> <<>>]
  /\ routeData = NONE
  /\ routeDistanceTraveled = 0 /\ distanceTraveledStart = 0 /\ routeStepIndex = 0
  /\ routeConsumptions = NONE
  /\ distance = 0
  /\ update = "idle" /\ step = NoStep /\ outcome = "none"
  /\ overlapped = FALSE /\ disturbed = FALSE

-----------------------------------------------------------------------------
(* The game's button; start also resets the game. *)

start ==
  /\ ~gameRunning
  /\ gameRunning' = TRUE
  /\ UNCHANGED <<loads, routeData, progress, distance, update, step, outcome, overlapped, disturbed>>

stop ==
  /\ gameRunning
  /\ gameRunning' = FALSE
  /\ UNCHANGED <<loads, routeData, progress, distance, update, step, outcome, overlapped, disturbed>>

-----------------------------------------------------------------------------
(* A fetcher: run, then setRouteData, its three assignments in order. *)

Fetch(l, r) ==
  /\ loading[l] = "run"
  /\ directions' = [directions EXCEPT ![l] = r]
  /\ loading' = [loading EXCEPT ![l] = "notify"]
  /\ UNCHANGED <<gameRunning, routeData, progress, distance, update, step, outcome, overlapped, disturbed>>

(* No answer, of the directions or of the elevations. *)
FetchNothing(l) ==
  /\ loading[l] = "run"
  /\ loading' = [loading EXCEPT ![l] = "notify"]
  /\ UNCHANGED <<gameRunning, directions, routeData, progress, distance, update, step,
                 outcome, overlapped, disturbed>>

Overlap == overlapped' = TRUE /\ disturbed' = (disturbed \/ update # "idle" \/ routeData # NONE)

AssignRoute(l) ==
  /\ loading[l] = "notify"
  /\ routeData' = DataCombined[directions[l]]
  /\ loading' = [loading EXCEPT ![l] = "distance"]
  /\ directions' = [directions EXCEPT ![l] = <<>>]
  /\ Overlap
  /\ UNCHANGED <<gameRunning, progress, distance, update, step, outcome>>

AssignDistance(l) ==
  /\ loading[l] = "distance"
  /\ routeDistanceTraveled' = 0
  /\ loading' = [loading EXCEPT ![l] = "start"]
  /\ overlapped' = TRUE
  /\ UNCHANGED <<gameRunning, directions, routeData, distanceTraveledStart, routeStepIndex,
                 routeConsumptions, distance, update, step, outcome, disturbed>>

(* Faulty variant: only the first route is marked as to be started. *)
AssignStartOfFirst(l) ==
  /\ loading[l] = "start"
  /\ distanceTraveledStart' = IF routeConsumptions = NONE THEN -1 ELSE distanceTraveledStart
  /\ loading' = [loading EXCEPT ![l] = "done"]
  /\ overlapped' = TRUE
  /\ UNCHANGED <<gameRunning, directions, routeData, routeDistanceTraveled, routeStepIndex,
                 routeConsumptions, distance, update, step, outcome, disturbed>>

AssignStart(l) ==
  /\ loading[l] = "start"
  /\ distanceTraveledStart' = -1
  /\ loading' = [loading EXCEPT ![l] = "done"]
  /\ overlapped' = TRUE
  /\ UNCHANGED <<gameRunning, directions, routeData, routeDistanceTraveled, routeStepIndex,
                 routeConsumptions, distance, update, step, outcome, disturbed>>

-----------------------------------------------------------------------------
(* update, in steps that read the shared fields at once. *)

Loading == \E l \in Loaders : loading[l] \in {"distance", "start"}

(* It reports, a difference or 0, or it throws: no report then. *)
Ends(result) == update' = "idle" /\ step' = NoStep /\ outcome' = result

BeginUpdate(advance) ==
  /\ update = "idle"
  /\ distance + advance <= MaxDistance
  /\ distance' = distance + advance
  /\ overlapped' = Loading
  /\ disturbed' = (disturbed \/ Loading)
  /\ \/ /\ ~gameRunning
        /\ update' = "idle" /\ outcome' = "none"
        /\ UNCHANGED distanceTraveledStart
     \/ /\ gameRunning /\ routeData = NONE
        /\ update' = "idle" /\ outcome' = "reported"
        /\ UNCHANGED distanceTraveledStart
     \/ /\ gameRunning /\ routeData # NONE /\ distanceTraveledStart = -1
        /\ distanceTraveledStart' = distance'
        /\ update' = "start" /\ outcome' = "none"
     \/ /\ gameRunning /\ routeData # NONE /\ distanceTraveledStart # -1
        /\ update' = "look" /\ outcome' = "none"
        /\ UNCHANGED distanceTraveledStart
  /\ UNCHANGED <<gameRunning, loads, routeData, routeDistanceTraveled, routeStepIndex,
                 routeConsumptions, step>>

(* consumptionOnRoute returns null for a null route, and the log line after
   it throws. *)
StartRoute ==
  /\ update = "start"
  /\ routeConsumptions' = routeData
  /\ Ends(IF routeData = Lost THEN "thrown" ELSE "reported")
  /\ UNCHANGED <<gameRunning, loads, routeData, routeDistanceTraveled, distanceTraveledStart,
                 routeStepIndex, distance, overlapped, disturbed>>

(* Faulty variant: the index is not compared with the size. *)
LookAtStepUnchecked ==
  /\ update = "look"
  /\ IF routeStepIndex < routeData.size
     THEN /\ step' = [len |-> routeData.len, sum |-> routeDistanceTraveled + routeData.len]
          /\ update' = "move"
          /\ UNCHANGED outcome
     ELSE Ends("thrown")
  /\ UNCHANGED <<gameRunning, loads, routeData, progress, distance, overlapped, disturbed>>

LookAtStep ==
  /\ update = "look"
  /\ \/ /\ routeStepIndex < routeData.size
        /\ step' = [len |-> routeData.len, sum |-> routeDistanceTraveled + routeData.len]
        /\ update' = "move"
        /\ UNCHANGED outcome
     \/ routeStepIndex >= routeData.size /\ Ends(IF routeData = Lost THEN "thrown" ELSE "reported")
  /\ UNCHANGED <<gameRunning, loads, routeData, progress, distance, overlapped, disturbed>>

(* Faulty variant: a step is left at its very end. *)
PassedAtEnd == distance - distanceTraveledStart >= step.sum

Passed == distance - distanceTraveledStart > step.sum

(* Faulty variant: the next length is added before the sum is kept. *)
NextStepAfterSum ==
  /\ routeStepIndex' = routeStepIndex + 1
  /\ IF routeStepIndex' < routeData.size
     THEN /\ routeDistanceTraveled' = step.sum + routeData.len
          /\ update' = "estimate"
          /\ UNCHANGED <<step, outcome>>
     ELSE Ends("thrown") /\ UNCHANGED routeDistanceTraveled

(* The index moves on, and the step there is fetched before anything else:
   past the last step this throws. *)
NextStep ==
  /\ routeStepIndex' = routeStepIndex + 1
  /\ IF routeStepIndex' < routeData.size
     THEN /\ routeDistanceTraveled' = step.sum
          /\ update' = "estimate"
          /\ UNCHANGED <<step, outcome>>
     ELSE Ends("thrown") /\ UNCHANGED routeDistanceTraveled

MoveOn ==
  /\ update = "move"
  /\ \/ Passed /\ routeData # Lost /\ routeStepIndex < routeData.size /\ NextStep
     \/ Passed /\ routeData = Lost /\ Ends("thrown") /\ UNCHANGED <<routeStepIndex, routeDistanceTraveled>>
     \/ /\ ~Passed \/ (routeData # Lost /\ routeStepIndex >= routeData.size)
        /\ update' = "estimate"
        /\ UNCHANGED <<routeStepIndex, routeDistanceTraveled, step, outcome>>
  /\ UNCHANGED <<gameRunning, loads, routeData, distanceTraveledStart, routeConsumptions, distance,
                 overlapped, disturbed>>

(* The consumptions hold one number for each step of the route they were
   computed for.  In the last step, and after it, the difference is 0. *)
Estimate ==
  /\ update = "estimate"
  /\ Ends(IF routeData = Lost THEN "thrown"
          ELSE IF routeStepIndex >= routeData.size - 1 THEN "reported"
          ELSE IF routeConsumptions # NONE /\ routeStepIndex < routeConsumptions.size
               THEN "reported" ELSE "thrown")
  /\ UNCHANGED <<gameRunning, loads, routeData, progress, distance, overlapped, disturbed>>

-----------------------------------------------------------------------------

Loader(l) ==
  \/ FetchNothing(l) \/ \E r \in Routes : Fetch(l, r)
  \/ AssignRoute(l) \/ AssignDistance(l) \/ AssignStart(l)

Update ==
  \/ \E advance \in Advances : BeginUpdate(advance)
  \/ StartRoute \/ LookAtStep \/ MoveOn \/ Estimate

ControllerNext == start \/ stop \/ Update \/ \E l \in Loaders : Loader(l)

ControllerSpec == ControllerInit /\ [][ControllerNext]_controllerVars

-----------------------------------------------------------------------------
(* Properties.                                                             *)

CombinedRoutes == [size : Nat, len : Nat]

(* Type correctness; the steps behind the car never sum up to more than the
   odometer, and update looks at a route only when it holds one. *)
ControllerTypeOK ==
  /\ gameRunning \in BOOLEAN
  /\ loading \in [Loaders -> {"run", "notify", "distance", "start", "done"}]
  /\ directions \in [Loaders -> Routes \cup {<<>>}]
  /\ routeData \in CombinedRoutes \cup {NONE} /\ routeConsumptions \in CombinedRoutes \cup {NONE}
  /\ routeStepIndex \in Nat /\ distance \in 0..MaxDistance
  /\ routeDistanceTraveled \in 0..distance /\ distanceTraveledStart \in (-1)..distance
  /\ update \in {"idle", "start", "look", "move", "estimate"}
  /\ update # "idle" => routeData # NONE
  /\ step \in [len : Nat, sum : Nat]
  /\ outcome \in {"none", "reported", "thrown"}
  /\ overlapped \in BOOLEAN /\ disturbed \in BOOLEAN

(* A route that Google knows is loaded as soon as its last step is longer than
   a sample: the truncated indices of the speeds stay inside of the array,
   however short the other steps are. *)
LoadsUnlessLastShort ==
  \A l \in Loaders :
    LET d == directions[l] IN
    loading[l] = "notify" /\ d # <<>> /\ SampleSize(d) > 0 /\ DataCombined[d] = Lost =>
      d[Len(d)] * SampleSize(d) <= Dist(d)

(* Once no setRouteData and no start is under way, the consumptions compared
   with are those of the route held, whatever the calls ran into: this rests on
   setRouteData marking the start last and update taking the mark away first. *)
ConsumptionsOfRoute ==
  ~Loading /\ update # "start" /\ routeData # NONE /\ distanceTraveledStart # -1 =>
    routeConsumptions = routeData

(* An update throws, and the game gets no report, only if the route failed to
   load, or the car just passed its last step, or setRouteData ran meanwhile. *)
ThrowsExplained ==
  outcome = "thrown" => overlapped \/ routeData = Lost \/ routeStepIndex = routeData.size

(* On the first route, started undisturbed, the distance behind the car is that
   of the steps counted, and the car is beyond it. *)
StepsFollowDistance ==
  LET behind == IF routeStepIndex = routeData.size THEN routeStepIndex - 1 ELSE routeStepIndex IN
  routeData \notin {NONE, Lost} /\ ~Loading /\ ~disturbed =>
    /\ routeDistanceTraveled = behind * routeData.len
    /\ routeStepIndex > 0 => distance - distanceTraveledStart > routeStepIndex * routeData.len
=============================================================================
