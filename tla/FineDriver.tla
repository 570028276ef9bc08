----------------------------- MODULE FineDriver -----------------------------
(***************************************************************************)
(* The driving game (FineDriver.java): every half second the app reports   *)
(* how far the car's consumption is from the one computed for the route.   *)
(* The game turns the reports into a mode (GOOD, NORMAL, BAD), the mode    *)
(* into points, and the points into levels.                                *)
(*                                                                         *)
(* A report is reduced to its zone.  A Java time stamp is kept as the time *)
(* that has passed since, capped where the code no longer tells ages apart.*)
(***************************************************************************)
EXTENDS Integers

CONSTANTS
  ACTIVATION_TIME, DEACTIVATION_TIME,
  NORMAL_POINTS_INTERVAL, GOOD_POINTS_INTERVAL, BAD_POINTS_INTERVAL,
  MODE_OVERRIDE_TIME,
  FirstLevel,   \* nextLevelPoints of level 0
  Zones,        \* the zones reports fall in
  Pauses,       \* the times between two calls
  MaxDebt, MaxPoints, MaxLevel   \* bounds of the model

GOOD == "good"
BAD == "bad"
NORMAL == "normal"
NAN == "nan"    \* a report that compares false with every limit

Modes == {GOOD, BAD, NORMAL}

ASSUME TimesAssumption ==
  /\ ACTIVATION_TIME \in Nat /\ DEACTIVATION_TIME \in Nat
  /\ NORMAL_POINTS_INTERVAL \in Nat /\ GOOD_POINTS_INTERVAL \in Nat
  /\ BAD_POINTS_INTERVAL \in Nat /\ MODE_OVERRIDE_TIME \in Nat
  /\ Pauses \subseteq Nat
ASSUME LevelAssumption == FirstLevel \in Nat \ {0, 1}
ASSUME ZonesAssumption == Zones \subseteq Modes \cup {NAN}
ASSUME BoundsAssumption == MaxDebt \in Nat /\ MaxPoints \in Nat /\ MaxLevel \in Nat

VARIABLES
  mode, currentMode,
  consumptionDifference,   \* the zone of the last report
  modeAge,                 \* time - modeTimeStamp
  startAge,                \* time - modeStartTimeStamp
  pointsAge,               \* time - pointsTimeStamp
  points, level, prevLevelPoints, nextLevelPoints,
  \* history
  stay,                    \* time since the reports entered their zone
  missed,                  \* ... which the time stamp of the mode does not show
  raced                    \* the last reset ran while a report was handled

modes == <<mode, currentMode, consumptionDifference>>
ages == <<modeAge, startAge, pointsAge>>
score == <<points, level, prevLevelPoints, nextLevelPoints>>
history == <<stay, missed, raced>>
vars == <<modes, ages, score, history>>

-----------------------------------------------------------------------------

Later(age, dt, cap) == IF age + dt > cap THEN cap ELSE age + dt

ModeCap == ACTIVATION_TIME + DEACTIVATION_TIME + 1
PointsCap == NORMAL_POINTS_INTERVAL + GOOD_POINTS_INTERVAL + BAD_POINTS_INTERVAL + 1

(* The mode a report speaks for: a NaN takes the code's last branch. *)
ModeOf(zone) == IF zone = NAN THEN NORMAL ELSE zone

Init ==
  /\ mode = NORMAL /\ currentMode = NORMAL /\ consumptionDifference = NORMAL
  /\ modeAge = ModeCap /\ startAge = 0 /\ pointsAge = PointsCap
  /\ points = 0 /\ level = 0 /\ prevLevelPoints = 0 /\ nextLevelPoints = FirstLevel
  /\ stay = 0 /\ missed = FALSE /\ raced = FALSE

(* Faulty variant: the jump from one extreme zone to the other is missed. *)
CrossedFromNormal(zone) ==
  \/ zone \in {GOOD, BAD} /\ consumptionDifference = NORMAL
  \/ ModeOf(zone) = NORMAL /\ mode # NORMAL /\ consumptionDifference \in {GOOD, BAD}

(* "check if the consumption just passed the limit", branch by branch. *)
Crossed(zone) ==
  \/ zone = GOOD /\ consumptionDifference \in {BAD, NORMAL}
  \/ zone = BAD /\ consumptionDifference \in {GOOD, NORMAL}
  \/ ModeOf(zone) = NORMAL /\ mode # NORMAL /\ consumptionDifference \in {GOOD, BAD}

(* Faulty variant: a good or bad mode is left only through normal. *)
DelayWithoutEscape(zone) ==
  IF zone = NORMAL THEN DEACTIVATION_TIME
  ELSE IF mode = NORMAL THEN ACTIVATION_TIME ELSE ModeCap

Delay(zone) == IF zone \in {GOOD, BAD} THEN ACTIVATION_TIME ELSE DEACTIVATION_TIME

UpdateMode(zone, dt) ==
  LET age == IF Crossed(zone) THEN 0 ELSE Later(modeAge, dt, ModeCap)
      switch == mode # ModeOf(zone) /\ age > Delay(zone)
  IN  /\ currentMode' = ModeOf(zone)
      /\ modeAge' = age
      /\ mode' = IF switch THEN ModeOf(zone) ELSE mode
      /\ startAge' = IF switch THEN 0 ELSE Later(startAge, dt, MODE_OVERRIDE_TIME)

(* The interval between two points shrinks with the time spent in the mode:
   by half in NORMAL, by four fifths in the other modes. *)
PointDue(m, waited, inMode) ==
  IF m = NORMAL
  THEN 2 * MODE_OVERRIDE_TIME * waited > NORMAL_POINTS_INTERVAL * (2 * MODE_OVERRIDE_TIME - inMode)
  ELSE 5 * MODE_OVERRIDE_TIME * waited >
         (IF m = GOOD THEN GOOD_POINTS_INTERVAL ELSE BAD_POINTS_INTERVAL)
           * (5 * MODE_OVERRIDE_TIME - 4 * inMode)

BelowLevel(p) == p > 0 /\ 10 * p <= 9 * prevLevelPoints

LevelDown ==
  /\ level' = level - 1
  /\ nextLevelPoints' = prevLevelPoints
  /\ prevLevelPoints' = prevLevelPoints \div 2

(* Faulty variant: the next threshold moves by a constant. *)
LevelUpByConstant ==
  /\ level' = level + 1
  /\ prevLevelPoints' = nextLevelPoints
  /\ nextLevelPoints' = nextLevelPoints + FirstLevel

LevelUp ==
  /\ level' = level + 1
  /\ prevLevelPoints' = nextLevelPoints
  /\ nextLevelPoints' = nextLevelPoints * 2

LevelSame == UNCHANGED <<level, prevLevelPoints, nextLevelPoints>>

(* Faulty variant: the level can be lost below the first one. *)
ManagePointsWithoutFloor(p) ==
  \/ BelowLevel(p) /\ LevelDown
  \/ ~BelowLevel(p) /\ p >= nextLevelPoints /\ LevelUp
  \/ ~BelowLevel(p) /\ p < nextLevelPoints /\ LevelSame

(* The inner "level > 0" has no else: a score that low on level 0 is left. *)
ManagePoints(p) ==
  \/ BelowLevel(p) /\ level > 0 /\ LevelDown
  \/ BelowLevel(p) /\ level <= 0 /\ LevelSame
  \/ ~BelowLevel(p) /\ p >= nextLevelPoints /\ LevelUp
  \/ ~BelowLevel(p) /\ p < nextLevelPoints /\ LevelSame

UpdatePoints(dt) ==
  LET waited == Later(pointsAge, dt, PointsCap) IN
  IF PointDue(mode', waited, startAge')
  THEN /\ points' = IF mode' = GOOD THEN points + 1 ELSE points - 1
       /\ ManagePoints(points')
       /\ pointsAge' = 0
  ELSE /\ pointsAge' = waited
       /\ UNCHANGED score

(* A report of the given zone, dt after the last call; it runs to its end on
   the thread that fetches the car's data. *)
setConsumptionDifference(zone, dt) ==
  /\ UpdateMode(zone, dt)
  /\ UpdatePoints(dt)
  /\ consumptionDifference' = zone
  /\ stay' = IF ModeOf(zone) # ModeOf(consumptionDifference) THEN 0 ELSE Later(stay, dt, ModeCap)
  /\ missed' = ((consumptionDifference = NAN /\ zone \in {GOOD, BAD}) \/ (missed /\ ~Crossed(zone)))
  /\ points' \in (-MaxDebt)..MaxPoints /\ level' <= MaxLevel
  /\ UNCHANGED raced

(* Faulty variant: the thresholds of the last game are kept. *)
ResetPointsOnly(dt) ==
  /\ mode' = NORMAL /\ currentMode' = NORMAL /\ consumptionDifference' = NORMAL
  /\ modeAge' = Later(modeAge, dt, ModeCap)
  /\ startAge' = 0
  /\ pointsAge' = Later(pointsAge, dt, PointsCap)
  /\ points' = 0 /\ level' = 0
  /\ stay' = 0 /\ missed' = FALSE /\ raced' = FALSE
  /\ UNCHANGED <<prevLevelPoints, nextLevelPoints>>

(* start() of PdDataController, from the game's button. *)
reset(dt) ==
  /\ mode' = NORMAL /\ currentMode' = NORMAL /\ consumptionDifference' = NORMAL
  /\ modeAge' = Later(modeAge, dt, ModeCap)
  /\ startAge' = 0
  /\ pointsAge' = Later(pointsAge, dt, PointsCap)
  /\ points' = 0 /\ level' = 0 /\ prevLevelPoints' = 0 /\ nextLevelPoints' = FirstLevel
  /\ stay' = 0 /\ missed' = FALSE /\ raced' = FALSE

(* What a point and managePoints leave of a score that is reset meanwhile: an
   assignment may come before the reset, or after it with a value computed
   before it, or from the values it set. *)
TornScore ==
  /\ points' \in {0, -1, 1, points - 1, points + 1}
  /\ \/ /\ level > 0
        /\ level' \in {0, -1, level - 1}
        /\ nextLevelPoints' \in {FirstLevel, 0, prevLevelPoints}
        /\ prevLevelPoints' \in {0, prevLevelPoints \div 2}
     \/ /\ level' \in {0, 1, level + 1}
        /\ prevLevelPoints' \in {0, FirstLevel, nextLevelPoints}
        /\ nextLevelPoints' \in {FirstLevel, FirstLevel * 2, nextLevelPoints * 2}

(* A reset on its thread while a report is handled on another: what the report
   assigns after it stays, among it the mode it chose and always the last
   difference.  Bound of the model: one such race until the next reset. *)
resetDuring(zone, dt) ==
  /\ ~raced
  /\ mode' \in {NORMAL, ModeOf(zone)} /\ currentMode' \in {NORMAL, ModeOf(zone)}
  /\ consumptionDifference' = zone
  /\ modeAge' \in {0, Later(modeAge, dt, ModeCap)}
  /\ startAge' = 0
  /\ pointsAge' \in {0, Later(pointsAge, dt, PointsCap)}
  /\ TornScore
  /\ points' \in (-MaxDebt)..MaxPoints /\ level' <= MaxLevel
  /\ stay' = 0 /\ missed' = TRUE /\ raced' = TRUE

Next ==
  \E dt \in Pauses :
    \/ reset(dt)
    \/ \E zone \in Zones : setConsumptionDifference(zone, dt) \/ resetDuring(zone, dt)

Spec == Init /\ [][Next]_vars

-----------------------------------------------------------------------------
(* Properties.                                                             *)

(* Type correctness: the thresholds never go below zero, and the level only
   when a restart falls between its test and its decrement. *)
TypeOK ==
  /\ mode \in Modes /\ currentMode \in Modes
  /\ consumptionDifference \in Modes \cup {NAN}
  /\ modeAge \in 0..ModeCap /\ startAge \in 0..MODE_OVERRIDE_TIME /\ pointsAge \in 0..PointsCap
  /\ points \in (-MaxDebt)..MaxPoints
  /\ level \in (-1)..MaxLevel /\ (level >= 0 \/ raced)
  /\ prevLevelPoints \in Nat /\ nextLevelPoints \in Nat
  /\ stay \in 0..ModeCap /\ missed \in BOOLEAN /\ raced \in BOOLEAN

(* The level fits the points: below the next threshold, above nine tenths of
   the last, on a ladder that starts at FirstLevel. *)
Ladder ==
  /\ points < nextLevelPoints
  /\ level = 0 => nextLevelPoints = FirstLevel
  /\ level > 0 => nextLevelPoints = 2 * prevLevelPoints /\ 10 * points > 9 * prevLevelPoints

(* It fits at all times, through any climbing, falling and restarting of the
   game, unless the last restart cut into a report; the next one heals it. *)
LadderUnlessRaced == ~raced => Ladder

StayNeeded(m) == IF m = NORMAL THEN DEACTIVATION_TIME ELSE ACTIVATION_TIME

(* "time before a good/bad mode kicks in", and before it is left: a mode
   changes only after the reports have spoken for the new mode without a break
   for longer than the delay, unless a NaN or a restart in the middle of a
   report hid that they crossed a limit. *)
ModeNeedsStay ==
  [][mode' # mode => \/ mode' = currentMode' /\ stay' > StayNeeded(mode')
                     \/ missed'
                     \/ \E dt \in Pauses : reset(dt)]_vars

(* And it does change at the first report after that delay, from whichever
   mode the game was in, even after a NaN or such a restart. *)
ModeFollowsStay == stay > StayNeeded(currentMode) => mode = currentMode
=============================================================================
