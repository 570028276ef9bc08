----------------------------- MODULE GameProofs -----------------------------
(***************************************************************************)
(* Proofs about the driving game, whose two halves are apart: FineDriver,  *)
(* which turns reports into points, levels and modes, and                  *)
(* PdDataController, which follows the car along the route and makes the   *)
(* reports.                                                                *)
(***************************************************************************)
EXTENDS FineDriver, PdDataController, SequenceLemmas

(***************************************************************************)
(* FineDriver, for every choice of delays, intervals, pauses, first        *)
(* threshold and score bounds: the type invariant, that the level fits the *)
(* points, and that modes change neither early nor late.                   *)
(*                                                                         *)
(* Ladder is not inductive: falling from level l halves prevLevelPoints,   *)
(* and that this restores the threshold of level l - 1 follows only from   *)
(* how the thresholds were reached.  Climb remembers it as a function f    *)
(* from levels to thresholds.  Both are lost when a restart cuts into a    *)
(* report, and restored by the next restart that does not.                 *)
(***************************************************************************)

Rungs == {f \in [Nat -> Nat] : f[0] = FirstLevel}

Climb ==
  /\ prevLevelPoints <= nextLevelPoints
  /\ \E f \in Rungs :
       /\ f[level] = nextLevelPoints
       /\ \A i \in 1..level : f[i] = 2 * f[i - 1]
       /\ \A i \in 0..level : f[i] >= FirstLevel

IInv == TypeOK /\ (raced \/ (Ladder /\ Climb))

-----------------------------------------------------------------------------

(* Time passes up to the cap, and a new time stamp is 0. *)
LEMMA LaterType ==
  ASSUME NEW cap \in Nat, NEW age \in 0..cap, NEW dt \in Nat
  PROVE  Later(age, dt, cap) \in 0..cap /\ 0 \in 0..cap
  BY DEF Later

(* The caps of the time stamps are numbers. *)
LEMMA CapsType == ModeCap \in Nat /\ PointsCap \in Nat
  BY TimesAssumption DEF ModeCap, PointsCap

(* A new game satisfies the invariant. *)
LEMMA InitIInv == Init => IInv
<1> SUFFICES ASSUME Init PROVE IInv
  OBVIOUS
<1>1. TypeOK
  <2>1. /\ 0 \in (-MaxDebt)..MaxPoints /\ 0 \in (-1)..MaxLevel /\ 0 \in 0..MODE_OVERRIDE_TIME
        /\ 0 \in 0..ModeCap /\ ModeCap \in 0..ModeCap /\ PointsCap \in 0..PointsCap
    BY CapsType, TimesAssumption, BoundsAssumption
  <2>2. mode \in Modes /\ currentMode \in Modes /\ consumptionDifference \in Modes
    BY DEF Init, Modes
  <2>3. level = 0 /\ 0 >= 0 /\ missed = FALSE /\ raced = FALSE
    BY DEF Init
  <2>4. QED
    BY <2>1, <2>2, <2>3, LevelAssumption DEF Init, TypeOK
<1>2. Ladder
  BY LevelAssumption DEF Init, Ladder
<1>3. Climb
  <2> DEFINE f == [i \in Nat |-> FirstLevel]
  <2>1. f \in Rungs /\ f[0] = FirstLevel
    BY LevelAssumption DEF Rungs
  <2>2. level = 0 /\ nextLevelPoints = FirstLevel /\ prevLevelPoints = 0
    BY DEF Init
  <2>3. \A i \in 1..0 : f[i] = 2 * f[i - 1]
    OBVIOUS
  <2>4. \A i \in 0..0 : f[i] >= FirstLevel
    BY LevelAssumption
  <2> HIDE DEF f
  <2>5. QED
    BY <2>1, <2>2, <2>3, <2>4, LevelAssumption DEF Climb
<1>4. QED
  BY <1>1, <1>2, <1>3 DEF IInv

(* Whatever the thresholds are, a point leaves them and the level typed. *)
LEMMA ManageTyped ==
  ASSUME TypeOK, NEW p \in Int, ManagePoints(p)
  PROVE  /\ level' \in Int /\ level' >= -1 /\ (level >= 0 => level' >= 0)
         /\ prevLevelPoints' \in Nat /\ nextLevelPoints' \in Nat
<1>1. level \in Int /\ level >= -1 /\ prevLevelPoints \in Nat /\ nextLevelPoints \in Nat
  BY BoundsAssumption DEF TypeOK
<1>2. CASE level > 0 /\ LevelDown
  BY <1>1, <1>2 DEF LevelDown
<1>3. CASE LevelUp
  BY <1>1, <1>3 DEF LevelUp
<1>4. CASE LevelSame
  BY <1>1, <1>4 DEF LevelSame
<1>5. QED
  BY <1>2, <1>3, <1>4 DEF ManagePoints

(* Both ways down and up the ladder, and staying on a rung, for a score that
   moved by one point. *)
LEMMA ManageKeepsLadder ==
  ASSUME TypeOK, ~raced, Ladder, Climb,
         NEW p \in Int, p = points + 1 \/ p = points - 1,
         points' = p, ManagePoints(p)
  PROVE  level' \in Nat /\ prevLevelPoints' \in Nat /\ nextLevelPoints' \in Nat
         /\ Ladder' /\ Climb'
<1>1. PICK f \in Rungs :
        /\ f[level] = nextLevelPoints
        /\ \A i \in 1..level : f[i] = 2 * f[i - 1]
        /\ \A i \in 0..level : f[i] >= FirstLevel
  BY DEF Climb
<1>2. f \in [Nat -> Nat] /\ f[0] = FirstLevel
  BY DEF Rungs
<1>3. /\ level \in Nat /\ prevLevelPoints \in Nat /\ nextLevelPoints \in Nat /\ points \in Int
      /\ prevLevelPoints <= nextLevelPoints
      /\ FirstLevel \in Nat /\ FirstLevel >= 2
      /\ nextLevelPoints >= FirstLevel
  <2>1. level \in Nat /\ level \in 0..level
    BY DEF TypeOK
  <2>2. QED
    BY <1>1, <2>1, LevelAssumption, BoundsAssumption DEF TypeOK, Climb
<1>4. level > 0 => f[level - 1] = prevLevelPoints /\ prevLevelPoints >= FirstLevel
  <2> SUFFICES ASSUME level > 0 PROVE f[level - 1] = prevLevelPoints /\ prevLevelPoints >= FirstLevel
    OBVIOUS
  <2>1. level \in 1..level /\ level - 1 \in 0..level /\ level - 1 \in Nat
    BY <1>3
  <2>2. f[level] = 2 * f[level - 1] /\ f[level - 1] >= FirstLevel
    BY <1>1, <2>1
  <2>3. nextLevelPoints = 2 * prevLevelPoints
    BY DEF Ladder
  <2> DEFINE below == f[level - 1]
  <2>4. below \in Nat /\ nextLevelPoints = 2 * below /\ below >= FirstLevel
    BY <1>1, <1>2, <2>1, <2>2
  <2> HIDE DEF below
  <2>5. below = prevLevelPoints
    BY <1>3, <2>3, <2>4
  <2>6. QED
    BY <2>4, <2>5 DEF below
<1>5. CASE LevelSame /\ (BelowLevel(p) => level <= 0) /\ (~BelowLevel(p) => p < nextLevelPoints)
  <2>1. level' = level /\ prevLevelPoints' = prevLevelPoints /\ nextLevelPoints' = nextLevelPoints
    BY <1>5 DEF LevelSame
  <2>2. p < nextLevelPoints
    BY <1>3, <1>5 DEF BelowLevel
  <2>3. level > 0 => 10 * p > 9 * prevLevelPoints
    BY <1>3, <1>4, <1>5 DEF BelowLevel, Ladder
  <2>4. Ladder'
    BY <2>1, <2>2, <2>3 DEF Ladder
  <2>5. Climb'
    BY <2>1 DEF Climb
  <2>6. QED
    BY <1>3, <2>1, <2>4, <2>5
<1>6. CASE BelowLevel(p) /\ level > 0 /\ LevelDown
  <2>1. /\ level' = level - 1 /\ level' \in Nat
        /\ nextLevelPoints' = prevLevelPoints
        /\ prevLevelPoints' = prevLevelPoints \div 2
        /\ prevLevelPoints' \in Nat
        /\ prevLevelPoints' <= prevLevelPoints
    BY <1>3, <1>6 DEF LevelDown
  <2>2. f[level'] = nextLevelPoints' /\ nextLevelPoints' >= FirstLevel
    BY <1>4, <1>6, <2>1
  <2>3. level' > 0 => /\ nextLevelPoints' = 2 * prevLevelPoints'
                      /\ nextLevelPoints' >= 4
    <3> SUFFICES ASSUME level' > 0
                 PROVE  nextLevelPoints' = 2 * prevLevelPoints' /\ nextLevelPoints' >= 4
      OBVIOUS
    <3>1. /\ level - 1 \in 1..level /\ (level - 1) - 1 \in 0..level
          /\ (level - 1) - 1 \in Nat
      BY <1>3, <2>1
    <3>2. f[level - 1] = 2 * f[(level - 1) - 1] /\ f[(level - 1) - 1] >= FirstLevel
      BY <1>1, <3>1
    <3> DEFINE below == f[(level - 1) - 1]
    <3>3. below \in Nat /\ prevLevelPoints = 2 * below /\ below >= 2
      BY <1>2, <1>3, <1>4, <1>6, <3>1, <3>2
    <3> HIDE DEF below
    <3>4. prevLevelPoints \div 2 = below
      BY <3>3
    <3>5. QED
      BY <2>1, <3>3, <3>4
  <2>4. level' = 0 => nextLevelPoints' = FirstLevel
    BY <1>2, <2>2
  <2>5. Ladder'
    <3>1. p < nextLevelPoints'
      <4>1. 10 * p <= 9 * prevLevelPoints /\ prevLevelPoints >= 2
        BY <1>3, <1>4, <1>6 DEF BelowLevel
      <4>2. p < prevLevelPoints
        BY <1>3, <4>1
      <4>3. QED
        BY <2>1, <4>2
    <3>2. level' > 0 => 10 * p > 9 * prevLevelPoints'
      <4>1. 10 * points > 9 * prevLevelPoints
        BY <1>6 DEF Ladder
      <4>2. level' > 0 => /\ prevLevelPoints = 2 * prevLevelPoints'
                          /\ prevLevelPoints' >= 2
        BY <2>1, <2>3
      <4>3. 10 * p >= 10 * points - 10
        BY <1>3
      <4>4. QED
        BY <1>3, <2>1, <4>1, <4>2, <4>3
    <3>3. QED
      BY <2>3, <2>4, <3>1, <3>2 DEF Ladder
  <2>6. /\ \A i \in 1..level' : f[i] = 2 * f[i - 1]
        /\ \A i \in 0..level' : f[i] >= FirstLevel
    <3>1. 1..level' \subseteq 1..level /\ 0..level' \subseteq 0..level
      BY <1>3, <2>1
    <3>2. QED
      BY <1>1, <3>1
  <2>7. Climb'
    BY <2>1, <2>2, <2>6 DEF Climb
  <2>8. QED
    BY <1>3, <2>1, <2>5, <2>7
<1>7. CASE ~BelowLevel(p) /\ p >= nextLevelPoints /\ LevelUp
  <2>1. /\ level' = level + 1 /\ level' \in Nat
        /\ prevLevelPoints' = nextLevelPoints
        /\ nextLevelPoints' = nextLevelPoints * 2
    BY <1>3, <1>7 DEF LevelUp
  <2>2. p = nextLevelPoints
    BY <1>3, <1>7 DEF Ladder
  <2>3. Ladder'
    BY <1>3, <2>1, <2>2 DEF Ladder
  <2> DEFINE g == [f EXCEPT ![level + 1] = nextLevelPoints * 2]
  <2>4. /\ g \in Rungs
        /\ g[level + 1] = nextLevelPoints * 2
        /\ \A i \in 0..level : g[i] = f[i]
    BY <1>2, <1>3 DEF Rungs
  <2> HIDE DEF g
  <2>5. ASSUME NEW i \in 1..(level + 1) PROVE g[i] = 2 * g[i - 1]
    <3>1. CASE i = level + 1
      <4>1. i - 1 = level /\ level \in 0..level
        BY <1>3, <3>1
      <4>2. QED
        BY <1>1, <1>3, <2>4, <3>1, <4>1
    <3>2. CASE i # level + 1
      <4>1. i \in 1..level /\ i \in 0..level /\ i - 1 \in 0..level
        BY <1>3, <3>2
      <4>2. QED
        BY <1>1, <2>4, <4>1
    <3>3. QED
      BY <3>1, <3>2
  <2>6. ASSUME NEW i \in 0..(level + 1) PROVE g[i] >= FirstLevel
    <3>1. CASE i = level + 1
      BY <1>3, <2>4, <3>1
    <3>2. CASE i # level + 1
      <4>1. i \in 0..level
        BY <1>3, <3>2
      <4>2. QED
        BY <1>1, <2>4, <4>1
    <3>3. QED
      BY <3>1, <3>2
  <2>7. Climb'
    BY <1>3, <2>1, <2>4, <2>5, <2>6 DEF Climb
  <2>8. QED
    BY <1>3, <2>1, <2>3, <2>7
<1>8. QED
  BY <1>5, <1>6, <1>7 DEF ManagePoints

(* The choice of a mode yields modes and time stamps within their caps. *)
LEMMA ModeTypes ==
  ASSUME TypeOK, NEW zone \in Zones, NEW dt \in Pauses, UpdateMode(zone, dt)
  PROVE  /\ mode' \in Modes /\ currentMode' \in Modes
         /\ modeAge' \in 0..ModeCap /\ startAge' \in 0..MODE_OVERRIDE_TIME
<1>1. ModeOf(zone) \in Modes
  BY ZonesAssumption DEF ModeOf, Modes
<1>2. dt \in Nat /\ ModeCap \in Nat /\ MODE_OVERRIDE_TIME \in Nat
  BY TimesAssumption, CapsType
<1>3. /\ Later(modeAge, dt, ModeCap) \in 0..ModeCap
      /\ Later(startAge, dt, MODE_OVERRIDE_TIME) \in 0..MODE_OVERRIDE_TIME
      /\ 0 \in 0..ModeCap /\ 0 \in 0..MODE_OVERRIDE_TIME
  <2>1. modeAge \in 0..ModeCap /\ startAge \in 0..MODE_OVERRIDE_TIME
    BY DEF TypeOK
  <2>2. QED
    BY <1>2, <2>1, LaterType, Zenon
<1>4. QED
  BY <1>1, <1>3 DEF UpdateMode, TypeOK

(* A report keeps types, thresholds and their history. *)
LEMMA UpdateKeepsIInv ==
  ASSUME IInv, NEW zone \in Zones, NEW dt \in Pauses, setConsumptionDifference(zone, dt)
  PROVE  IInv'
<1>1. TypeOK /\ (raced \/ (Ladder /\ Climb))
  BY DEF IInv
<1>2. dt \in Nat /\ ModeCap \in Nat /\ PointsCap \in Nat
  BY TimesAssumption, CapsType
<1>3. /\ mode' \in Modes /\ currentMode' \in Modes
      /\ modeAge' \in 0..ModeCap /\ startAge' \in 0..MODE_OVERRIDE_TIME
  BY <1>1, ModeTypes DEF setConsumptionDifference
<1>4. consumptionDifference' \in Modes \cup {NAN} /\ stay' \in 0..ModeCap
  <2>0. stay \in 0..ModeCap
    BY <1>1 DEF TypeOK
  <2>1. Later(stay, dt, ModeCap) \in 0..ModeCap /\ 0 \in 0..ModeCap
    BY <1>2, <2>0, LaterType, Zenon
  <2>2. QED
    BY <2>1, ZonesAssumption DEF setConsumptionDifference
<1>5. points' \in (-MaxDebt)..MaxPoints /\ points' \in Int
  BY BoundsAssumption DEF setConsumptionDifference
<1>6. /\ pointsAge' \in 0..PointsCap
      /\ level' \in Int /\ level' >= -1 /\ (level >= 0 => level' >= 0)
      /\ prevLevelPoints' \in Nat /\ nextLevelPoints' \in Nat
      /\ raced \/ (Ladder' /\ Climb')
  <2> DEFINE waited == Later(pointsAge, dt, PointsCap)
  <2>0. pointsAge \in 0..PointsCap
    BY <1>1 DEF TypeOK
  <2>1. waited \in 0..PointsCap /\ 0 \in 0..PointsCap
    BY <1>2, <2>0, LaterType, Zenon
  <2> HIDE DEF waited
  <2>2. CASE PointDue(mode', waited, startAge')
    <3>1. /\ points' = points + 1 \/ points' = points - 1
          /\ ManagePoints(points')
          /\ pointsAge' = 0
      BY <2>2 DEF setConsumptionDifference, UpdatePoints, waited
    <3>2. raced \/ (Ladder' /\ Climb')
      BY <1>1, <1>5, <3>1, ManageKeepsLadder
    <3>3. QED
      BY <1>1, <1>5, <2>1, <3>1, <3>2, ManageTyped
  <2>3. CASE ~PointDue(mode', waited, startAge')
    <3>1. pointsAge' = waited /\ UNCHANGED score
      BY <2>3 DEF setConsumptionDifference, UpdatePoints, waited
    <3>2. raced \/ (Ladder' /\ Climb')
      BY <1>1, <3>1 DEF score, Ladder, Climb
    <3>3. QED
      BY <1>1, <2>1, <3>1, <3>2, BoundsAssumption DEF score, TypeOK
  <2>4. QED
    BY <2>2, <2>3
<1>7. missed' \in BOOLEAN /\ raced' = raced /\ level' <= MaxLevel
  BY DEF setConsumptionDifference
<1>8. TypeOK'
  BY <1>1, <1>3, <1>4, <1>5, <1>6, <1>7, BoundsAssumption DEF TypeOK
<1>9. QED
  BY <1>6, <1>7, <1>8 DEF IInv

(* A restart in the middle of a report leaves nothing but the types. *)
LEMMA RaceKeepsIInv ==
  ASSUME IInv, NEW zone \in Zones, NEW dt \in Pauses, resetDuring(zone, dt)
  PROVE  IInv'
<1>1. TypeOK
  BY DEF IInv
<1>2. dt \in Nat /\ ModeCap \in Nat /\ PointsCap \in Nat
  BY TimesAssumption, CapsType
<1>3. /\ Later(modeAge, dt, ModeCap) \in 0..ModeCap
      /\ Later(pointsAge, dt, PointsCap) \in 0..PointsCap
  <2>1. modeAge \in 0..ModeCap /\ pointsAge \in 0..PointsCap
    BY <1>1 DEF TypeOK
  <2>2. QED
    BY <1>2, <2>1, LaterType, Zenon
<1>4. /\ mode' \in Modes /\ currentMode' \in Modes
      /\ consumptionDifference' \in Modes \cup {NAN}
  BY ZonesAssumption DEF resetDuring, ModeOf, Modes
<1>5. /\ modeAge' \in 0..ModeCap /\ startAge' \in 0..MODE_OVERRIDE_TIME
      /\ pointsAge' \in 0..PointsCap /\ stay' \in 0..ModeCap
  BY <1>2, <1>3, TimesAssumption DEF resetDuring
<1>6. /\ level' \in (-1)..MaxLevel
      /\ prevLevelPoints' \in Nat /\ nextLevelPoints' \in Nat
  <2>1. /\ level \in Int /\ level >= -1 /\ prevLevelPoints \in Nat /\ nextLevelPoints \in Nat
        /\ MaxLevel \in Nat /\ FirstLevel \in Nat
        /\ level' <= MaxLevel
    BY <1>1, BoundsAssumption, LevelAssumption DEF TypeOK, resetDuring
  <2>2. QED
    BY <2>1 DEF resetDuring, TornScore
<1>7. points' \in (-MaxDebt)..MaxPoints /\ missed' = TRUE /\ raced' = TRUE
  BY DEF resetDuring
<1>8. QED
  BY <1>4, <1>5, <1>6, <1>7 DEF IInv, TypeOK

(* A restart goes back to the first threshold. *)
LEMMA ResetKeepsIInv ==
  ASSUME IInv, NEW dt \in Pauses, reset(dt)
  PROVE  IInv'
<1>1. TypeOK
  BY DEF IInv
<1>2. dt \in Nat /\ ModeCap \in Nat /\ PointsCap \in Nat
  BY TimesAssumption, CapsType
<1>3. /\ Later(modeAge, dt, ModeCap) \in 0..ModeCap
      /\ Later(pointsAge, dt, PointsCap) \in 0..PointsCap
  <2>1. modeAge \in 0..ModeCap /\ pointsAge \in 0..PointsCap
    BY <1>1 DEF TypeOK
  <2>2. QED
    BY <1>2, <2>1, LaterType, Zenon
<1>4. TypeOK'
  <2>1. /\ 0 \in (-MaxDebt)..MaxPoints /\ 0 \in (-1)..MaxLevel
        /\ 0 \in 0..MODE_OVERRIDE_TIME /\ 0 \in 0..ModeCap
    BY <1>2, TimesAssumption, BoundsAssumption
  <2>2. mode' \in Modes /\ currentMode' \in Modes /\ consumptionDifference' \in Modes
    BY DEF reset, Modes
  <2>3. level' = 0 /\ 0 >= 0 /\ missed' = FALSE /\ raced' = FALSE
    BY DEF reset
  <2>4. QED
    BY <1>3, <2>1, <2>2, <2>3, LevelAssumption DEF reset, TypeOK
<1>5. Ladder'
  BY LevelAssumption DEF reset, Ladder
<1>6. Climb'
  <2> DEFINE f == [i \in Nat |-> FirstLevel]
  <2>1. f \in Rungs /\ f[0] = FirstLevel
    BY LevelAssumption DEF Rungs
  <2>2. level' = 0 /\ nextLevelPoints' = FirstLevel /\ prevLevelPoints' = 0
    BY DEF reset
  <2>3. \A i \in 1..0 : f[i] = 2 * f[i - 1]
    OBVIOUS
  <2>4. \A i \in 0..0 : f[i] >= FirstLevel
    BY LevelAssumption
  <2> HIDE DEF f
  <2>5. QED
    BY <2>1, <2>2, <2>3, <2>4, LevelAssumption DEF Climb
<1>7. QED
  BY <1>4, <1>5, <1>6 DEF IInv

(* Every report and every restart keeps the invariant. *)
LEMMA NextIInv == IInv /\ [Next]_vars => IInv'
<1> SUFFICES ASSUME IInv, [Next]_vars PROVE IInv'
  OBVIOUS
<1>1. ASSUME NEW dt \in Pauses, NEW zone \in Zones, setConsumptionDifference(zone, dt)
      PROVE  IInv'
  BY <1>1, UpdateKeepsIInv
<1>2. ASSUME NEW dt \in Pauses, reset(dt)
      PROVE  IInv'
  BY <1>2, ResetKeepsIInv
<1>3. ASSUME NEW dt \in Pauses, NEW zone \in Zones, resetDuring(zone, dt)
      PROVE  IInv'
  BY <1>3, RaceKeepsIInv
<1>4. CASE UNCHANGED vars
  BY <1>4 DEF IInv, TypeOK, Ladder, Climb, vars, modes, ages, score, history
<1>5. QED
  BY <1>1, <1>2, <1>3, <1>4 DEF Next

(* Every state of the game satisfies the inductive invariant. *)
THEOREM Invariance == Spec => []IInv
  BY InitIInv, NextIInv, PTL DEF Spec

(* The game's variables keep their types. *)
THEOREM TypeCorrect == Spec => []TypeOK
<1>1. IInv => TypeOK
  BY DEF IInv
<1>2. QED
  BY Invariance, <1>1, PTL

(* Whatever the reports and restarts, managePoints keeps level and points
   in step, unless the last restart cut into a report. *)
THEOREM LevelFitsPoints == Spec => []LadderUnlessRaced
<1>1. IInv => LadderUnlessRaced
  BY DEF IInv, LadderUnlessRaced
<1>2. QED
  BY Invariance, <1>1, PTL

-----------------------------------------------------------------------------
(* How the time stamp of the mode relates to the time the reports have stayed
   in their zone: it is never younger, and not older either where it decides
   about a mode, unless a crossing was missed. *)

NotYounger == stay <= modeAge

NotOlder ==
  ~missed => /\ currentMode = ModeOf(consumptionDifference)
             /\ mode # currentMode => modeAge <= stay

StayInv == TypeOK /\ NotYounger /\ NotOlder

(* Only a report that changes the zone crosses a limit; and one that does
   crosses it, unless the game is in the report's mode or the last was a NaN. *)
LEMMA CrossedChanges ==
  ASSUME TypeOK, NEW zone \in Zones
  PROVE  /\ Crossed(zone) => ModeOf(zone) # ModeOf(consumptionDifference)
         /\ ModeOf(zone) # ModeOf(consumptionDifference) /\ mode # ModeOf(zone)
              => Crossed(zone) \/ (consumptionDifference = NAN /\ zone \in {GOOD, BAD})
BY ZonesAssumption DEF TypeOK, Crossed, ModeOf, Modes, GOOD, BAD, NORMAL, NAN

(* The older of two ages stays the older. *)
LEMMA LaterMonotone ==
  ASSUME NEW cap \in Nat, NEW a \in 0..cap, NEW b \in 0..cap, a <= b, NEW dt \in Nat
  PROVE  Later(a, dt, cap) <= Later(b, dt, cap)
BY DEF Later

(* A report extends the stay in a zone or begins another. *)
LEMMA ReportKeepsStay ==
  ASSUME StayInv, TypeOK', NEW zone \in Zones, NEW dt \in Pauses, setConsumptionDifference(zone, dt)
  PROVE  /\ NotYounger' /\ NotOlder' /\ ModeFollowsStay'
         /\ mode' # mode => (mode' = currentMode' /\ stay' > StayNeeded(mode')) \/ missed'
<1>1. /\ TypeOK /\ dt \in Nat /\ ModeCap \in Nat
      /\ stay \in 0..ModeCap /\ modeAge \in 0..ModeCap /\ stay <= modeAge
  BY CapsType, TimesAssumption DEF StayInv, TypeOK, NotYounger
<1> DEFINE aged == Later(modeAge, dt, ModeCap)
           stayed == Later(stay, dt, ModeCap)
           same == ModeOf(zone) = ModeOf(consumptionDifference)
           switch == mode # ModeOf(zone) /\ modeAge' > Delay(zone)
<1>2. aged \in 0..ModeCap /\ stayed \in 0..ModeCap /\ stayed <= aged
  BY <1>1, LaterType, LaterMonotone, Zenon
<1>3. modeAge <= stay => aged <= stayed
  BY <1>1, LaterMonotone, Zenon
<1>4. /\ currentMode' = ModeOf(zone) /\ consumptionDifference' = zone
      /\ modeAge' = (IF Crossed(zone) THEN 0 ELSE aged)
      /\ stay' = (IF same THEN stayed ELSE 0)
      /\ mode' = (IF switch THEN ModeOf(zone) ELSE mode)
      /\ missed' = ((consumptionDifference = NAN /\ zone \in {GOOD, BAD}) \/ (missed /\ ~Crossed(zone)))
  BY DEF setConsumptionDifference, UpdateMode
<1>5. Delay(zone) = StayNeeded(ModeOf(zone)) /\ Delay(zone) \in Nat
  BY ZonesAssumption, TimesAssumption DEF Delay, StayNeeded, ModeOf, Modes, GOOD, BAD, NORMAL, NAN
<1> HIDE DEF aged, stayed, same
<1>6. stay' <= modeAge'
  <2>1. Crossed(zone) => ~same
    BY <1>1, CrossedChanges DEF same
  <2>2. QED
    BY <1>1, <1>2, <1>4, <2>1
<1>7. ASSUME ~missed', mode # ModeOf(zone)
      PROVE  modeAge' <= stay'
  <2>1. CASE Crossed(zone)
    BY <1>1, <1>2, <1>4, <2>1
  <2>2. CASE ~Crossed(zone)
    <3>1. ~missed /\ same
      BY <1>1, <1>4, <1>7, <2>2, CrossedChanges DEF same
    <3>2. mode # currentMode
      BY <1>7, <3>1 DEF StayInv, NotOlder, same
    <3>3. modeAge <= stay
      BY <3>1, <3>2 DEF StayInv, NotOlder
    <3>4. QED
      BY <1>3, <1>4, <2>2, <3>1, <3>3
  <2>3. QED
    BY <2>1, <2>2
<1>8. stay' \in Nat /\ modeAge' \in Nat
  BY <1>1, <1>2, <1>4
<1>9. NotOlder'
  BY <1>4, <1>7 DEF NotOlder
<1>10. ModeFollowsStay'
  <2>1. StayNeeded(currentMode') = Delay(zone) /\ mode' = (IF switch THEN currentMode' ELSE mode)
    BY <1>4, <1>5
  <2>2. stay' > Delay(zone) => modeAge' > Delay(zone)
    BY <1>5, <1>6, <1>8
  <2>3. stay' > Delay(zone) => mode' = currentMode'
    BY <1>4, <2>1, <2>2
  <2>4. QED
    BY <2>1, <2>3 DEF ModeFollowsStay
<1>11. ASSUME mode' # mode, ~missed'
       PROVE  mode' = currentMode' /\ stay' > StayNeeded(mode')
  <2>1. switch /\ mode' = ModeOf(zone) /\ mode' = currentMode'
    BY <1>4, <1>11
  <2>2. modeAge' <= stay' /\ modeAge' > Delay(zone)
    BY <1>7, <1>11, <2>1
  <2>3. stay' > Delay(zone)
    BY <1>5, <1>8, <2>2
  <2>4. QED
    BY <1>5, <2>1, <2>3
<1>12. QED
  BY <1>6, <1>9, <1>10, <1>11 DEF NotYounger

(* A restart begins another stay. *)
LEMMA RestartKeepsStay ==
  ASSUME TypeOK', stay' = 0, missed' \/ (mode' = NORMAL /\ currentMode' = NORMAL /\ consumptionDifference' = NORMAL)
  PROVE  NotYounger' /\ NotOlder' /\ ModeFollowsStay'
<1>1. modeAge' \in Nat /\ 0 <= modeAge'
  BY CapsType DEF TypeOK
<1>2. NotYounger'
  BY <1>1 DEF NotYounger
<1>3. NotOlder'
  BY DEF NotOlder, ModeOf, NORMAL, NAN
<1>4. StayNeeded(currentMode') \in Nat
  BY TimesAssumption DEF StayNeeded
<1>5. ModeFollowsStay'
  BY <1>4 DEF ModeFollowsStay
<1>6. QED
  BY <1>2, <1>3, <1>5

(* Every step keeps what relates the time stamps to the stay. *)
LEMMA StayStep ==
  ASSUME StayInv, TypeOK', ModeFollowsStay, [Next]_vars
  PROVE  /\ NotYounger' /\ NotOlder' /\ ModeFollowsStay'
         /\ \/ mode' = mode \/ missed' \/ \E dt \in Pauses : reset(dt)
            \/ mode' = currentMode' /\ stay' > StayNeeded(mode')
<1>1. ASSUME NEW dt \in Pauses, NEW zone \in Zones, setConsumptionDifference(zone, dt)
      PROVE  /\ NotYounger' /\ NotOlder' /\ ModeFollowsStay'
             /\ mode' # mode => (mode' = currentMode' /\ stay' > StayNeeded(mode')) \/ missed'
  BY <1>1, ReportKeepsStay
<1>2. ASSUME NEW dt \in Pauses, reset(dt)
      PROVE  NotYounger' /\ NotOlder' /\ ModeFollowsStay'
  BY <1>2, RestartKeepsStay DEF reset
<1>3. ASSUME NEW dt \in Pauses, NEW zone \in Zones, resetDuring(zone, dt)
      PROVE  NotYounger' /\ NotOlder' /\ ModeFollowsStay' /\ missed'
  BY <1>3, RestartKeepsStay DEF resetDuring
<1>4. CASE UNCHANGED vars
  BY <1>4 DEF StayInv, NotYounger, NotOlder, ModeFollowsStay, vars, modes, ages, history
<1>5. QED
  BY <1>1, <1>2, <1>3, <1>4 DEF Next

(* The two relations hold in every reachable state. *)
THEOREM StayInvariance == Spec => [](StayInv /\ ModeFollowsStay)
<1>1. Init => StayInv /\ ModeFollowsStay
  <2> SUFFICES ASSUME Init PROVE StayInv /\ ModeFollowsStay
    OBVIOUS
  <2>1. TypeOK
    BY InitIInv DEF IInv
  <2>2. StayNeeded(NORMAL) \in Nat /\ ModeCap \in Nat /\ 0 <= ModeCap
    BY CapsType, TimesAssumption DEF StayNeeded
  <2>3. QED
    BY <2>1, <2>2 DEF Init, StayInv, NotYounger, NotOlder, ModeFollowsStay, ModeOf, NORMAL, NAN
<1>2. TypeOK' /\ (StayInv /\ ModeFollowsStay) /\ [Next]_vars => (StayInv /\ ModeFollowsStay)'
  BY StayStep DEF StayInv
<1>3. QED
  BY TypeCorrect, <1>1, <1>2, PTL DEF Spec

(* The mode follows the reports as soon as they stayed for the delay, from any
   mode and after any history of restarts and NaN reports. *)
THEOREM ModeInTime == Spec => []ModeFollowsStay
BY StayInvariance, PTL

(* No mode is entered or left before the reports stayed for the delay, unless a
   crossing was missed or the game restarted. *)
THEOREM ModeNotEarly == Spec => ModeNeedsStay
<1> DEFINE Kept == mode' # mode => \/ mode' = currentMode' /\ stay' > StayNeeded(mode')
                                   \/ missed'
                                   \/ \E dt \in Pauses : reset(dt)
<1>1. TypeOK' /\ (StayInv /\ ModeFollowsStay) /\ [Next]_vars => [Kept]_vars
  BY StayStep
<1>2. QED
  BY TypeCorrect, StayInvariance, <1>1, PTL DEF Spec, ModeNeedsStay

-----------------------------------------------------------------------------

(***************************************************************************)
(* PdDataController, for any number of fetchers, any routes and any        *)
(* distances: which routes are loaded, that the consumptions compared with *)
(* are the route's, what makes an update throw, and that steps and         *)
(* distance agree.                                                         *)
(***************************************************************************)

States == {"run", "notify", "distance", "start", "done"}

(* The inductive invariant adds nothing but the type of loading. *)
ConsumptionsInv == loading \in [Loaders -> States] /\ ConsumptionsOfRoute

-----------------------------------------------------------------------------
(* A fetcher's step: its first assignment is followed by its last one, which
   marks the start. *)
LEMMA LoaderKeeps ==
  ASSUME ConsumptionsInv, NEW l \in Loaders, Loader(l)
  PROVE  ConsumptionsInv'
<1> USE DEF ConsumptionsInv, ConsumptionsOfRoute, Loading, States, progress
<1>1. CASE FetchNothing(l) \/ \E r \in Routes : Fetch(l, r)
  <2>1. /\ loading[l] = "run" /\ loading' = [loading EXCEPT ![l] = "notify"]
        /\ UNCHANGED <<routeData, distanceTraveledStart, routeConsumptions, update>>
    BY <1>1 DEF FetchNothing, Fetch
  <2>2. Loading' <=> Loading
    BY <2>1
  <2> QED
    BY <2>1, <2>2
<1>2. CASE AssignRoute(l)
  <2>1. loading' = [loading EXCEPT ![l] = "distance"]
    BY <1>2 DEF AssignRoute
  <2>2. loading' \in [Loaders -> States] /\ Loading'
    BY <2>1
  <2> QED
    BY <2>2
<1>3. CASE AssignDistance(l)
  <2>1. loading' = [loading EXCEPT ![l] = "start"]
    BY <1>3 DEF AssignDistance
  <2>2. loading' \in [Loaders -> States] /\ Loading'
    BY <2>1
  <2> QED
    BY <2>2
<1>4. CASE AssignStart(l)
  <2>1. loading' = [loading EXCEPT ![l] = "done"] /\ distanceTraveledStart' = -1
    BY <1>4 DEF AssignStart
  <2> QED
    BY <2>1
<1> QED
  BY <1>1, <1>2, <1>3, <1>4 DEF Loader

(* A step of update: the one that takes the mark away leads to the one that
   computes the consumptions of the route then held. *)
LEMMA UpdateKeeps ==
  ASSUME ConsumptionsInv, Update
  PROVE  ConsumptionsInv'
<1> USE DEF ConsumptionsInv, ConsumptionsOfRoute, Loading, States, loads, progress
<1>1. ASSUME NEW advance \in Advances, BeginUpdate(advance)
      PROVE  ConsumptionsInv'
  BY <1>1 DEF BeginUpdate
<1>2. CASE StartRoute
  BY <1>2 DEF StartRoute
<1>3. CASE LookAtStep
  BY <1>3 DEF LookAtStep, Ends
<1>4. CASE MoveOn
  BY <1>4 DEF MoveOn, NextStep, Ends
<1>5. CASE Estimate
  BY <1>5 DEF Estimate, Ends
<1> QED
  BY <1>1, <1>2, <1>3, <1>4, <1>5 DEF Update

(* However setRouteData and update interleave, once both are through the
   consumptions compared with are those of the route the controller holds. *)
THEOREM ConsumptionsFollowRoute == ControllerSpec => []ConsumptionsOfRoute
<1>1. ControllerInit => ConsumptionsInv
  BY DEF ControllerInit, ConsumptionsInv, ConsumptionsOfRoute, States
<1>2. ConsumptionsInv /\ [ControllerNext]_controllerVars => ConsumptionsInv'
  <2> SUFFICES ASSUME ConsumptionsInv, [ControllerNext]_controllerVars
               PROVE  ConsumptionsInv'
    OBVIOUS
  <2>1. CASE start \/ stop \/ UNCHANGED controllerVars
    BY <2>1 DEF start, stop, controllerVars, loads, progress, ConsumptionsInv, ConsumptionsOfRoute, Loading
  <2> QED
    BY <2>1, LoaderKeeps, UpdateKeeps DEF ControllerNext
<1>3. ConsumptionsInv => ConsumptionsOfRoute
  BY DEF ConsumptionsInv
<1> QED
  BY <1>1, <1>2, <1>3, PTL DEF ControllerSpec

-----------------------------------------------------------------------------
(* The sums of RouteData, as the lemmas name them. *)
LEMMA SumsOfRoute ==
  /\ \A r : Dist(r) = SumOf(r)
  /\ \A r, i : SpeedIndex(r, i) = 1 + SumOf([j \in 1..(i - 1) |-> Span(r, j)])
  BY DEF Dist, SpeedIndex, SumOf

(* The lengths of the first n steps, and the samples they span. *)
StepLengths == {r \in Seq(Nat \ {0}) : r # <<>>}
DistOf(r, n) == Dist(SubSeq(r, 1, n))
Spanned(r, n) == SumOf([j \in 1..n |-> Span(r, j)])

(* Together the steps are as long as the last one and those before it. *)
LEMMA DistIsPositive ==
  ASSUME NEW r \in StepLengths
  PROVE  /\ Len(r) \in Nat \ {0} /\ r \in Seq(Nat) /\ r[Len(r)] \in Nat \ {0}
         /\ Dist(r) \in Nat \ {0} /\ DistOf(r, Len(r) - 1) \in Nat
         /\ Dist(r) = DistOf(r, Len(r) - 1) + r[Len(r)]
<1> DEFINE n == Len(r) - 1
<1>1. n \in Nat /\ Len(r) = n + 1 /\ r \in Seq(Nat) /\ r[n+1] \in Nat \ {0}
  BY DEF StepLengths
<1> HIDE DEF n
<1>2. SubSeq(r, 1, n) \in Seq(Nat) /\ r = Append(SubSeq(r, 1, n), r[n+1])
  BY <1>1, SeqSplitLast
<1>3. Dist(SubSeq(r, 1, n)) \in Nat
  BY <1>2, SumsOfRoute, SumType
<1>4. Dist(r) = Dist(SubSeq(r, 1, n)) + r[n+1]
  BY <1>1, <1>2, SumsOfRoute, SumAppend
<1> QED
  BY <1>1, <1>3, <1>4 DEF DistOf, n

(* However the steps' fractions are cut off, the samples that the first n of
   them span are at most their share of the distance. *)
LEMMA SpannedAtMostShare ==
  ASSUME NEW r \in StepLengths
  PROVE  \A n \in 0..Len(r) :
           /\ DistOf(r, n) \in Nat /\ Spanned(r, n) \in Nat
           /\ Dist(r) * Spanned(r, n) <= SampleSize(r) * DistOf(r, n)
<1> DEFINE Holds(n) == /\ DistOf(r, n) \in Nat /\ Spanned(r, n) \in Nat
                       /\ Dist(r) * Spanned(r, n) <= SampleSize(r) * DistOf(r, n)
           N == {n \in Nat : n <= Len(r) => Holds(n)}
<1>0. /\ Len(r) \in Nat /\ r \in Seq(Nat) /\ Dist(r) \in Nat \ {0} /\ SampleSize(r) \in Nat
      /\ \A i \in 1..Len(r) : r[i] \in Nat /\ Span(r, i) \in Nat /\ Dist(r) * Span(r, i) <= r[i] * SampleSize(r)
  <2>1. Len(r) \in Nat /\ r \in Seq(Nat) /\ Dist(r) \in Nat \ {0}
    BY DistIsPositive
  <2>2. SampleSize(r) \in Nat
    BY <2>1, StepSizeAssumption DEF SampleSize
  <2>3. ASSUME NEW i \in 1..Len(r)
        PROVE  r[i] \in Nat /\ Span(r, i) \in Nat /\ Dist(r) * Span(r, i) <= r[i] * SampleSize(r)
    <3>1. r[i] \in Nat
      BY <2>1
    <3>2. r[i] * SampleSize(r) \in Nat
      BY <2>2, <3>1
    <3>3. \A x \in Nat, d \in Nat \ {0} : x \div d \in Nat /\ d * (x \div d) <= x
      OBVIOUS
    <3> QED BY <2>1, <3>1, <3>2, <3>3 DEF Span
  <2> QED BY <2>1, <2>2, <2>3
<1>1. 0 \in N
  <2>1. SubSeq(r, 1, 0) = <<>> /\ [j \in 1..0 |-> Span(r, j)] = <<>>
    OBVIOUS
  <2>2. DistOf(r, 0) = 0 /\ Spanned(r, 0) = 0
    BY <2>1, SumsOfRoute, SumEmpty DEF DistOf, Spanned
  <2> QED BY <1>0, <2>2
<1>2. ASSUME NEW n \in Nat, n \in N PROVE n + 1 \in N
  <2> SUFFICES ASSUME n + 1 <= Len(r) PROVE Holds(n + 1)
    OBVIOUS
  <2>1. Holds(n)
    BY <1>0, <1>2
  <2>2. n + 1 \in 1..Len(r) /\ n < Len(r)
    BY <1>0
  <2>3. DistOf(r, n + 1) = DistOf(r, n) + r[n+1]
    BY <1>0, <2>2, SumsOfRoute, SumPrefix DEF DistOf
  <2>4. Spanned(r, n + 1) = Spanned(r, n) + Span(r, n + 1)
    <3> DEFINE s == [j \in 1..n |-> Span(r, j)]
               t == [j \in 1..(n+1) |-> Span(r, j)]
    <3>1. s \in Seq(Nat) /\ t \in Seq(Nat) /\ Len(t) = n + 1 /\ Len(s) = n
      BY <1>0
    <3>2. SubSeq(t, 1, n) = s /\ t[n+1] = Span(r, n + 1)
      OBVIOUS
    <3> HIDE DEF s, t
    <3>3. t = Append(s, t[n+1]) /\ t[n+1] \in Nat
      BY <3>1, <3>2, SeqSplitLast
    <3>4. SumOf(t) = SumOf(s) + t[n+1]
      BY <3>1, <3>3, SumAppend
    <3> QED BY <3>2, <3>4 DEF Spanned, s, t
  <2> DEFINE D == Dist(r)
             S == SampleSize(r)
             a == Spanned(r, n)
             b == DistOf(r, n)
             x == Span(r, n + 1)
             y == r[n+1]
  <2>5. D \in Nat /\ S \in Nat /\ a \in Nat /\ b \in Nat /\ x \in Nat /\ y \in Nat
        /\ D * a <= S * b /\ D * x <= y * S
    BY <1>0, <2>1, <2>2
  <2> HIDE DEF D, S, a, b, x, y
  <2>6. D * (a + x) = D * a + D * x /\ S * (b + y) = S * b + y * S
    BY <2>5
  <2>7. D * (a + x) <= S * (b + y) /\ a + x \in Nat /\ b + y \in Nat
    BY <2>5, <2>6
  <2> QED BY <2>3, <2>4, <2>7 DEF D, S, a, b, x, y
<1> QED
  <2> HIDE DEF N, Holds
  <2>1. \A n \in Nat : n \in N BY <1>1, <1>2, NatSetInduction
  <2>2. \A n \in 0..Len(r) : Holds(n) BY <1>0, <2>1 DEF N
  <2> QED BY <2>2 DEF Holds

(* Any steps but the last leave the last one's length. *)
LEMMA DistOfFirst ==
  ASSUME NEW r \in StepLengths
  PROVE  \A n \in 0..(Len(r) - 1) : DistOf(r, n) <= DistOf(r, Len(r) - 1)
<1> DEFINE m == Len(r) - 1
           N == {k \in Nat : k <= m => DistOf(r, m - k) <= DistOf(r, m)}
<1>0. m \in Nat /\ r \in Seq(Nat) /\ Len(r) = m + 1 /\ \A n \in 0..Len(r) : DistOf(r, n) \in Nat
  BY DistIsPositive, SpannedAtMostShare
<1> HIDE DEF m
<1>1. 0 \in N
  BY <1>0
<1>2. ASSUME NEW k \in Nat, k \in N PROVE k + 1 \in N
  <2> SUFFICES ASSUME k + 1 <= m PROVE DistOf(r, m - (k + 1)) <= DistOf(r, m)
    OBVIOUS
  <2> DEFINE n == m - (k + 1)
  <2>1. n \in Nat /\ n < Len(r) /\ n + 1 = m - k /\ r[n+1] \in Nat
    BY <1>0
  <2> HIDE DEF n
  <2>2. DistOf(r, n + 1) = DistOf(r, n) + r[n+1]
    BY <1>0, <2>1, SumsOfRoute, SumPrefix DEF DistOf
  <2>3. DistOf(r, m - k) <= DistOf(r, m)
    BY <1>0, <1>2
  <2>4. DistOf(r, n) \in Nat /\ DistOf(r, m) \in Nat
    <3>1. n \in 0..Len(r) /\ m \in 0..Len(r)
      BY <1>0, <2>1
    <3> QED BY <1>0, <3>1
  <2>5. DistOf(r, n) <= DistOf(r, m)
    BY <2>1, <2>2, <2>3, <2>4
  <2> QED BY <2>5 DEF n
<1> QED
  <2> HIDE DEF N
  <2>1. \A k \in Nat : k \in N BY <1>1, <1>2, NatSetInduction
  <2>2. ASSUME NEW n \in 0..m PROVE DistOf(r, n) <= DistOf(r, m)
    <3>1. m - n \in Nat /\ m - n <= m /\ m - (m - n) = n
      BY <1>0
    <3> QED BY <2>1, <3>1 DEF N
  <2> QED BY <2>2 DEF m

(* A loading that fails although there are samples ran out of them, which a
   last step longer than a sample excludes. *)
LEMMA FailsOnlyLastShort ==
  ASSUME NEW r \in StepLengths, SampleSize(r) > 0, LoadFails(r)
  PROVE  r[Len(r)] * SampleSize(r) <= Dist(r)
<1> DEFINE D == Dist(r)
           S == SampleSize(r)
           last == r[Len(r)]
           before == DistOf(r, Len(r) - 1)
<1>1. S \in Nat \ {0}
  BY DistIsPositive, StepSizeAssumption DEF SampleSize
<1>2. PICK i \in 1..Len(r) : SpeedIndex(r, i) >= S
  BY <1>1 DEF LoadFails, StepLengths
<1> DEFINE a == Spanned(r, i - 1)
           b == DistOf(r, i - 1)
<1>3. SpeedIndex(r, i) = 1 + a
  BY SumsOfRoute DEF Spanned
<1>4. i - 1 \in 0..Len(r) /\ i - 1 \in 0..(Len(r) - 1)
  BY DistIsPositive
<1>5. a \in Nat /\ b \in Nat /\ D * a <= S * b /\ b <= before
  BY <1>4, SpannedAtMostShare, DistOfFirst
<1>6. D \in Nat \ {0} /\ last \in Nat /\ before \in Nat /\ D = before + last
  BY DistIsPositive
<1>7. a >= S - 1
  BY <1>1, <1>2, <1>3, <1>5
<1> HIDE DEF a, b, D, S, last, before
<1>8. D * (S - 1) <= D * a /\ S * b <= S * before
  BY <1>1, <1>5, <1>6, <1>7
<1>9. D * (S - 1) = D * S - D /\ S * before = S * D - S * last /\ D * S = S * D /\ S * last = last * S
  BY <1>1, <1>6
<1>10. D * a \in Nat /\ S * b \in Nat /\ D * S \in Nat /\ S * last \in Nat
  BY <1>1, <1>5, <1>6
<1>11. last * S <= D
  BY <1>5, <1>6, <1>8, <1>9, <1>10
<1> QED
  BY <1>11 DEF D, S, last

(* What a fetcher hands over is a list of steps, and has at least one unless
   nothing came of the loading. *)
LEMMA CombinedFits ==
  ASSUME NEW r \in Routes \cup {<<>>}
  PROVE  /\ DataCombined[r] \in CombinedRoutes
         /\ DataCombined[r] # Lost => DataCombined[r].size > 0
<1>1. CASE r = <<>> \/ LoadFails(r)
  BY <1>1 DEF DataCombined, Lost, CombinedRoutes
<1>2. CASE r # <<>> /\ ~LoadFails(r)
  <2>1. r \in Routes /\ 1 \in DOMAIN r
    <3>1. r \in Seq(Nat \ {0}) /\ r # <<>>
      BY <1>2, RoutesAssumption
    <3> QED
      BY <1>2, <3>1
  <2>2. SampleSize(r) # 0 /\ ~(SpeedIndex(r, 1) >= SampleSize(r))
    BY <1>2, <2>1 DEF LoadFails
  <2>3. Dist(r) \in Nat /\ SpeedIndex(r, 1) = 1
    <3>1. r \in StepLengths
      BY <2>1, RoutesAssumption DEF StepLengths
    <3>2. [j \in 1..(1 - 1) |-> Span(r, j)] = <<>>
      OBVIOUS
    <3>3. SpeedIndex(r, 1) = 1 + SumOf(<<>>)
      BY <3>2, SumsOfRoute
    <3> QED
      BY <3>1, <3>3, DistIsPositive, SumEmpty
  <2>4. SampleSize(r) \in Nat
    BY <2>3, StepSizeAssumption DEF SampleSize
  <2>5. SampleSize(r) > 1
    BY <2>2, <2>3, <2>4
  <2>6. Dist(r) \div SampleSize(r) \in Nat
    BY <2>3, <2>4, <2>5
  <2>7. DataCombined[r] = [size |-> SampleSize(r) - 1, len |-> Dist(r) \div SampleSize(r)]
    BY <1>2 DEF DataCombined, Combined
  <2> QED
    BY <2>4, <2>5, <2>6, <2>7 DEF CombinedRoutes
<1> QED
  BY <1>1, <1>2

(* While no setRouteData ran during an update, what it found still holds... *)
ThrowsInv ==
  /\ ~overlapped => ~Loading
  /\ update # "idle" => outcome = "none"
  /\ ~overlapped /\ update \in {"look", "move", "estimate"} => distanceTraveledStart # -1
  /\ ThrowsExplained

Behind == IF routeStepIndex = routeData.size THEN routeStepIndex - 1 ELSE routeStepIndex

(* ...and on the first route, undisturbed, the steps are counted from 0 along
   with the distance. *)
StepsInv ==
  ~disturbed =>
    /\ routeData = NONE \/ distanceTraveledStart = -1 \/ Loading =>
         routeStepIndex = 0 /\ routeDistanceTraveled = 0
    /\ Loading => update = "idle"
    /\ update \in {"look", "move", "estimate"} => distanceTraveledStart # -1
    /\ routeData \notin {NONE, Lost} =>
         /\ routeData.size > 0 /\ routeStepIndex <= routeData.size
         /\ routeDistanceTraveled = Behind * routeData.len
         /\ routeStepIndex > 0 =>
              distance - distanceTraveledStart > routeStepIndex * routeData.len
         /\ update = "move" =>
              step.sum = routeDistanceTraveled + routeData.len /\ routeStepIndex < routeData.size

ControllerInv == ControllerTypeOK /\ ConsumptionsInv /\ ThrowsInv /\ StepsInv

(* The game's button. *)
LEMMA Buttons ==
  ASSUME ControllerInv, start \/ stop
  PROVE  ControllerTypeOK' /\ ThrowsInv' /\ StepsInv'
<1> USE AdvancesAssumption, NoneAssumption DEF ControllerInv, start, stop, loads, progress
<1>1. ControllerTypeOK'
  BY DEF ControllerTypeOK, CombinedRoutes, Ends, NoStep
<1>2. ThrowsInv'
  BY DEF ThrowsInv, ThrowsExplained, Loading, ControllerTypeOK, Ends
<1>3. StepsInv'
  BY DEF StepsInv, ControllerTypeOK, CombinedRoutes, Loading, Behind, Ends
<1> QED
  BY <1>1, <1>2, <1>3

(* A fetcher gets an answer... *)
LEMMA Fetching ==
  ASSUME ControllerInv, NEW l \in Loaders, NEW r \in Routes, Fetch(l, r)
  PROVE  ControllerTypeOK' /\ ThrowsInv' /\ StepsInv'
<1> USE AdvancesAssumption, NoneAssumption DEF ControllerInv, Fetch, loads, progress
<1>1. ControllerTypeOK'
  BY DEF ControllerTypeOK, CombinedRoutes, Ends, NoStep
<1>2. ThrowsInv'
  BY DEF ThrowsInv, ThrowsExplained, Loading, ControllerTypeOK, Ends
<1>3. StepsInv'
  BY DEF StepsInv, ControllerTypeOK, CombinedRoutes, Loading, Behind, Ends
<1> QED
  BY <1>1, <1>2, <1>3

(* ...or none. *)
LEMMA FetchingNothing ==
  ASSUME ControllerInv, NEW l \in Loaders, FetchNothing(l)
  PROVE  ControllerTypeOK' /\ ThrowsInv' /\ StepsInv'
<1> USE AdvancesAssumption, NoneAssumption DEF ControllerInv, FetchNothing, loads, progress
<1>1. ControllerTypeOK'
  BY DEF ControllerTypeOK, CombinedRoutes, Ends, NoStep
<1>2. ThrowsInv'
  BY DEF ThrowsInv, ThrowsExplained, Loading, ControllerTypeOK, Ends
<1>3. StepsInv'
  BY DEF StepsInv, ControllerTypeOK, CombinedRoutes, Loading, Behind, Ends
<1> QED
  BY <1>1, <1>2, <1>3

(* setRouteData exchanges the route... *)
LEMMA AssigningRoute ==
  ASSUME ControllerInv, NEW l \in Loaders, AssignRoute(l)
  PROVE  ControllerTypeOK' /\ ThrowsInv' /\ StepsInv'
<1> USE AdvancesAssumption, NoneAssumption DEF ControllerInv, AssignRoute, Overlap, loads, progress
<1>1. ControllerTypeOK'
  BY CombinedFits DEF ControllerTypeOK, CombinedRoutes, Ends, NoStep
<1>2. ThrowsInv'
  BY DEF ThrowsInv, ThrowsExplained, Loading, ControllerTypeOK, Ends
<1>3. StepsInv'
  <2> SUFFICES ASSUME ~disturbed' PROVE StepsInv'
    BY DEF StepsInv
  <2>1. update = "idle" /\ routeData = NONE /\ routeStepIndex = 0 /\ routeDistanceTraveled = 0
    BY DEF StepsInv
  <2>2. routeData' \in CombinedRoutes /\ (routeData' # Lost => routeData'.size > 0)
    BY CombinedFits DEF ControllerTypeOK
  <2>3. routeData'.size \in Nat /\ routeData'.len \in Nat /\ 0 * routeData'.len = 0
    BY <2>2 DEF CombinedRoutes
  <2>4. routeData' # Lost => Behind' = 0
    BY <2>1, <2>2, <2>3 DEF Behind
  <2> QED
    BY <2>1, <2>2, <2>3, <2>4 DEF StepsInv
<1> QED
  BY <1>1, <1>2, <1>3

(* ...forgets the distance... *)
LEMMA AssigningDistance ==
  ASSUME ControllerInv, NEW l \in Loaders, AssignDistance(l)
  PROVE  ControllerTypeOK' /\ ThrowsInv' /\ StepsInv'
<1> USE AdvancesAssumption, NoneAssumption DEF ControllerInv, AssignDistance, loads, progress
<1>1. ControllerTypeOK'
  BY DEF ControllerTypeOK, CombinedRoutes, Ends, NoStep
<1>2. ThrowsInv'
  BY DEF ThrowsInv, ThrowsExplained, Loading, ControllerTypeOK, Ends
<1>3. StepsInv'
  BY DEF StepsInv, ControllerTypeOK, CombinedRoutes, Loading, Behind, Ends
<1> QED
  BY <1>1, <1>2, <1>3

(* ...and marks the start. *)
LEMMA AssigningStart ==
  ASSUME ControllerInv, NEW l \in Loaders, AssignStart(l)
  PROVE  ControllerTypeOK' /\ ThrowsInv' /\ StepsInv'
<1> USE AdvancesAssumption, NoneAssumption DEF ControllerInv, AssignStart, loads, progress
<1>1. ControllerTypeOK'
  BY DEF ControllerTypeOK, CombinedRoutes, Ends, NoStep
<1>2. ThrowsInv'
  BY DEF ThrowsInv, ThrowsExplained, Loading, ControllerTypeOK, Ends
<1>3. StepsInv'
  BY DEF StepsInv, ControllerTypeOK, CombinedRoutes, Loading, Behind, Ends
<1> QED
  BY <1>1, <1>2, <1>3

(* An update begins. *)
LEMMA BeginningUpdate ==
  ASSUME ControllerInv, NEW advance \in Advances, BeginUpdate(advance)
  PROVE  ControllerTypeOK' /\ ThrowsInv' /\ StepsInv'
<1> USE AdvancesAssumption, NoneAssumption DEF ControllerInv, BeginUpdate, loads, progress
<1>1. ControllerTypeOK'
  <2>1. distance' \in 0..MaxDistance /\ distance' >= distance
    BY DEF ControllerTypeOK
  <2>2. routeDistanceTraveled \in 0..distance' /\ distanceTraveledStart' \in (-1)..distance'
    BY <2>1 DEF ControllerTypeOK
  <2>3. update' \in {"idle", "start", "look"} /\ (update' # "idle" => routeData # NONE)
    OBVIOUS
  <2>4. outcome' \in {"none", "reported"}
    OBVIOUS
  <2>5. overlapped' \in BOOLEAN /\ disturbed' \in BOOLEAN
    BY DEF ControllerTypeOK, Loading
  <2> QED
    BY <2>1, <2>2, <2>3, <2>4, <2>5 DEF ControllerTypeOK
<1>2. ThrowsInv'
  BY DEF ThrowsInv, ThrowsExplained, Loading, ControllerTypeOK, Ends
<1>3. StepsInv'
  BY DEF StepsInv, ControllerTypeOK, CombinedRoutes, Loading, Behind, Ends
<1> QED
  BY <1>1, <1>2, <1>3

(* It starts a route. *)
LEMMA StartingRoute ==
  ASSUME ControllerInv, StartRoute
  PROVE  ControllerTypeOK' /\ ThrowsInv' /\ StepsInv'
<1> USE AdvancesAssumption, NoneAssumption DEF ControllerInv, StartRoute, loads, progress
<1>1. ControllerTypeOK'
  BY DEF ControllerTypeOK, CombinedRoutes, Ends, NoStep
<1>2. ThrowsInv'
  BY DEF ThrowsInv, ThrowsExplained, Loading, ControllerTypeOK, Ends
<1>3. StepsInv'
  BY DEF StepsInv, ControllerTypeOK, CombinedRoutes, Loading, Behind, Ends
<1> QED
  BY <1>1, <1>2, <1>3

(* It looks at the step the car is in. *)
LEMMA LookingAtStep ==
  ASSUME ControllerInv, LookAtStep
  PROVE  ControllerTypeOK' /\ ThrowsInv' /\ StepsInv'
<1> USE AdvancesAssumption, NoneAssumption DEF ControllerInv, LookAtStep, loads, progress
<1>1. ControllerTypeOK'
  BY DEF ControllerTypeOK, CombinedRoutes, Ends, NoStep
<1>2. ThrowsInv'
  BY DEF ThrowsInv, ThrowsExplained, Loading, ControllerTypeOK, Ends
<1>3. StepsInv'
  BY DEF StepsInv, ControllerTypeOK, CombinedRoutes, Loading, Behind, Ends
<1> QED
  BY <1>1, <1>2, <1>3

(* It moves on to the next step when the car has. *)
LEMMA MovingOn ==
  ASSUME ControllerInv, MoveOn
  PROVE  ControllerTypeOK' /\ ThrowsInv' /\ StepsInv'
<1> USE AdvancesAssumption, NoneAssumption DEF ControllerInv, MoveOn, NextStep, Passed, loads, progress
<1>1. ControllerTypeOK'
  BY DEF ControllerTypeOK, CombinedRoutes, Ends, NoStep
<1>2. ThrowsInv'
  <2>1. routeData \in CombinedRoutes /\ routeStepIndex \in Nat
    BY DEF ControllerTypeOK
  <2>2. routeStepIndex < routeData.size /\ ~(routeStepIndex + 1 < routeData.size) =>
          routeStepIndex + 1 = routeData.size
    BY <2>1 DEF CombinedRoutes
  <2>3. outcome' = "thrown" => routeData = Lost \/ routeStepIndex' = routeData.size
    BY <2>2 DEF Ends, ThrowsInv
  <2>4. update' = "idle" \/ (update' = "estimate" /\ outcome' = outcome)
    BY DEF Ends
  <2> QED
    BY <2>3, <2>4 DEF ThrowsInv, ThrowsExplained, Loading
<1>3. StepsInv'
  <2> SUFFICES ASSUME ~disturbed PROVE StepsInv'
    BY DEF StepsInv
  <2>1. /\ routeData \in CombinedRoutes /\ routeStepIndex \in Nat /\ routeDistanceTraveled \in Nat
        /\ distance \in Nat /\ distanceTraveledStart \in Int /\ step.sum \in Nat
        /\ update = "move" /\ routeData # NONE
    BY DEF ControllerTypeOK
  <2>2. distanceTraveledStart # -1 /\ ~Loading /\ ~Loading'
    BY <2>1 DEF StepsInv, Loading
  <2>3. update' \in {"idle", "estimate"}
    BY DEF Ends
  <2>4. CASE Passed /\ routeData # Lost /\ routeStepIndex < routeData.size /\ NextStep
    <3> DEFINE i == routeStepIndex
               s == routeData.size
               n == routeData.len
    <3>1. s \in Nat /\ n \in Nat /\ i < s /\ routeStepIndex' = i + 1
      BY <2>1, <2>4 DEF CombinedRoutes
    <3>2. routeDistanceTraveled = i * n
      BY <2>1, <2>4, <3>1 DEF StepsInv, Behind
    <3>3. step.sum = i * n + n
      BY <2>1, <2>4, <3>2 DEF StepsInv
    <3>4. i * n + n = (i + 1) * n
      BY <2>1, <3>1
    <3>5. distance - distanceTraveledStart > routeStepIndex' * n
      BY <2>4, <3>1, <3>3, <3>4
    <3>6. CASE i + 1 < s
      <4>1. routeDistanceTraveled' = step.sum
        BY <2>4, <3>1, <3>6
      <4>2. Behind' = i + 1
        BY <3>1, <3>6, <2>1 DEF Behind
      <4>3. routeDistanceTraveled' = Behind' * n
        BY <3>3, <3>4, <4>1, <4>2
      <4>4. routeData.size > 0 /\ routeStepIndex' <= routeData.size
        BY <2>1, <3>1, <3>6
      <4>5. UNCHANGED <<routeData, distance, distanceTraveledStart>> /\ update' # "move"
        BY <2>3
      <4>6. Loading' = Loading
        BY DEF Loading
      <4> HIDE DEF MoveOn, NextStep, Passed, i, s
      <4> QED
        BY <2>1, <2>2, <3>5, <4>3, <4>4, <4>5, <4>6 DEF StepsInv
    <3>7. CASE ~(i + 1 < s)
      <4>1. routeDistanceTraveled' = routeDistanceTraveled
        BY <2>4, <3>1, <3>7
      <4>2. Behind' = i /\ i + 1 <= s
        BY <2>1, <3>1, <3>7 DEF Behind
      <4> QED
        BY <2>1, <2>2, <2>3, <3>1, <3>2, <3>5, <4>1, <4>2 DEF StepsInv
    <3> QED
      BY <3>6, <3>7
  <2>5. CASE UNCHANGED <<routeStepIndex, routeDistanceTraveled>>
    <3>1. Behind' = Behind
      BY <2>5 DEF Behind
    <3> QED
      BY <2>1, <2>2, <2>3, <2>5, <3>1 DEF StepsInv
  <2> QED
    BY <2>4, <2>5
<1> QED
  BY <1>1, <1>2, <1>3

(* It compares the consumptions. *)
LEMMA Estimating ==
  ASSUME ControllerInv, Estimate
  PROVE  ControllerTypeOK' /\ ThrowsInv' /\ StepsInv'
<1> USE AdvancesAssumption, NoneAssumption DEF ControllerInv, Estimate, loads, progress
<1>1. ControllerTypeOK'
  BY DEF ControllerTypeOK, CombinedRoutes, Ends, NoStep
<1>2. ThrowsInv'
  <2>1. routeData \in CombinedRoutes /\ routeStepIndex \in Nat
    BY DEF ControllerTypeOK
  <2>2. ASSUME ~overlapped
        PROVE  ~Loading /\ routeConsumptions = routeData
    <3>1. ~Loading /\ distanceTraveledStart # -1
      BY <2>2 DEF ThrowsInv
    <3>2. update # "start" /\ routeData # NONE
      BY <2>1 DEF CombinedRoutes
    <3> QED
      BY <3>1, <3>2 DEF ConsumptionsInv, ConsumptionsOfRoute
  <2>3. ~(routeStepIndex >= routeData.size - 1) => routeStepIndex < routeData.size
    BY <2>1 DEF CombinedRoutes
  <2>4. outcome' = "thrown" => routeData = Lost \/ overlapped
    <3> SUFFICES ASSUME outcome' = "thrown", routeData # Lost, ~overlapped PROVE FALSE
      OBVIOUS
    <3>1. routeConsumptions = routeData /\ routeData # NONE
      BY <2>1, <2>2 DEF CombinedRoutes
    <3>2. ~(routeStepIndex >= routeData.size - 1)
      BY DEF Ends
    <3> QED
      BY <2>3, <3>1, <3>2 DEF Ends
  <2>5. update' = "idle"
    BY DEF Ends
  <2> QED
    BY <2>2, <2>4, <2>5 DEF ThrowsInv, ThrowsExplained, Loading
<1>3. StepsInv'
  BY DEF StepsInv, ControllerTypeOK, CombinedRoutes, Loading, Behind, Ends
<1> QED
  BY <1>1, <1>2, <1>3

(* The inductive invariant of controller and fetchers holds for any number of
   fetchers, any routes and any distances. *)
THEOREM ControllerInvariance == ControllerSpec => []ControllerInv
<1>1. ControllerInit => ControllerInv
  <2> SUFFICES ASSUME ControllerInit PROVE ControllerInv
    OBVIOUS
  <2>1. ControllerTypeOK
    <3>1. 0 \in 0..MaxDistance /\ 0 \in 0..0 /\ 0 \in (-1)..0
      BY AdvancesAssumption
    <3>2. NoStep \in [len : Nat, sum : Nat]
      BY DEF NoStep
    <3> QED
      BY <3>1, <3>2 DEF ControllerInit, ControllerTypeOK
  <2>2. ConsumptionsInv /\ ThrowsInv /\ StepsInv
    BY DEF ControllerInit, ConsumptionsInv, ConsumptionsOfRoute, States, ThrowsInv,
           ThrowsExplained, StepsInv, Loading
  <2> QED
    BY <2>1, <2>2 DEF ControllerInv
<1>2. ControllerInv /\ [ControllerNext]_controllerVars => ControllerInv'
  <2> SUFFICES ASSUME ControllerInv, [ControllerNext]_controllerVars
               PROVE  ControllerInv'
    OBVIOUS
  <2>1. CASE UNCHANGED controllerVars
    BY <2>1 DEF controllerVars, loads, progress, ControllerInv, ControllerTypeOK, ConsumptionsInv,
                ConsumptionsOfRoute, Loading, ThrowsInv, ThrowsExplained, StepsInv, Behind
  <2>2. CASE start \/ stop
    <3>1. ConsumptionsInv'
      BY <2>2 DEF start, stop, loads, progress, ControllerInv, ConsumptionsInv, ConsumptionsOfRoute, Loading
    <3> QED
      BY <2>2, <3>1, Buttons DEF ControllerInv
  <2>3. ASSUME NEW l \in Loaders, Loader(l) PROVE ControllerInv'
    <3>1. ConsumptionsInv'
      BY <2>3, LoaderKeeps DEF ControllerInv
    <3> QED
      BY <2>3, <3>1, Fetching, FetchingNothing, AssigningRoute, AssigningDistance, AssigningStart
         DEF Loader, ControllerInv
  <2>4. CASE Update
    <3>1. ConsumptionsInv'
      BY <2>4, UpdateKeeps DEF ControllerInv
    <3> QED
      BY <2>4, <3>1, BeginningUpdate, StartingRoute, LookingAtStep, MovingOn, Estimating
         DEF Update, ControllerInv
  <2> QED
    BY <2>1, <2>2, <2>3, <2>4 DEF ControllerNext
<1> QED
  BY <1>1, <1>2, PTL DEF ControllerSpec

(* The steps behind the car never sum up to more than the odometer, and update
   looks at a route only when the controller holds one. *)
THEOREM ControllerTypeCorrect == ControllerSpec => []ControllerTypeOK
  BY ControllerInvariance, PTL DEF ControllerInv

(* LoadsUnlessLastShort: a route that Google knows is lost only if its last
   step is no longer than a sample, whatever the step size and the lengths. *)
THEOREM RoutesLoad == ControllerSpec => []LoadsUnlessLastShort
<1>1. ControllerTypeOK => LoadsUnlessLastShort
  <2> SUFFICES ASSUME ControllerTypeOK, NEW l \in Loaders, directions[l] # <<>>,
                      SampleSize(directions[l]) > 0, DataCombined[directions[l]] = Lost
               PROVE  directions[l][Len(directions[l])] * SampleSize(directions[l])
                        <= Dist(directions[l])
    BY DEF LoadsUnlessLastShort
  <2> DEFINE r == directions[l]
  <2>1. r \in Routes /\ r # <<>>
    BY DEF ControllerTypeOK
  <2>2. r \in StepLengths
    BY <2>1, RoutesAssumption DEF StepLengths
  <2>3. Dist(r) \in Nat \ {0}
    BY <2>2, DistIsPositive
  <2>4. LoadFails(r)
    <3>1. SUFFICES ASSUME ~LoadFails(r) PROVE FALSE
      OBVIOUS
    <3>2. DataCombined[r] = [size |-> SampleSize(r) - 1, len |-> Dist(r) \div SampleSize(r)]
      BY <2>1, <3>1 DEF DataCombined, Combined
    <3>3. SampleSize(r) - 1 = 0 /\ Dist(r) \div SampleSize(r) = 0
      <4>1. DataCombined[r].size = SampleSize(r) - 1 /\ DataCombined[r].len = Dist(r) \div SampleSize(r)
        BY <3>2
      <4>2. DataCombined[r].size = 0 /\ DataCombined[r].len = 0
        BY DEF Lost
      <4> QED BY <4>1, <4>2
    <3>4. SampleSize(r) \in Nat
      BY <2>3, StepSizeAssumption DEF SampleSize
    <3>5. SampleSize(r) = 1
      BY <3>3, <3>4
    <3> QED BY <2>3, <3>3, <3>5
  <2> QED BY <2>2, <2>4, FailsOnlyLastShort
<1> QED
  BY <1>1, ControllerTypeCorrect, PTL

(* An update throws only if the route failed to load, or the car just passed its
   last step, or setRouteData ran meanwhile. *)
THEOREM ThrowsNamed == ControllerSpec => []ThrowsExplained
<1>1. ControllerInv => ThrowsExplained
  BY DEF ControllerInv, ThrowsInv
<1> QED
  BY <1>1, ControllerInvariance, PTL

(* On the first route, undisturbed, the distance behind the car is that of the
   steps counted, for routes of any number of steps. *)
THEOREM StepsAgree == ControllerSpec => []StepsFollowDistance
<1>1. ControllerInv => StepsFollowDistance
  BY DEF ControllerInv, StepsInv, StepsFollowDistance, Behind
<1> QED
  BY <1>1, ControllerInvariance, PTL
=============================================================================
