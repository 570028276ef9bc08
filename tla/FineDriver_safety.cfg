SPECIFICATION Spec
CONSTANTS
  ACTIVATION_TIME = 2
  DEACTIVATION_TIME = 3
  NORMAL_POINTS_INTERVAL = 2
  GOOD_POINTS_INTERVAL = 1
  BAD_POINTS_INTERVAL = 1
  MODE_OVERRIDE_TIME = 2
  FirstLevel = 5
  Zones = {"good", "bad", "normal", "nan"}
  Pauses = {1, 2}
  MaxDebt = 1
  MaxPoints = 11
  MaxLevel = 3
INVARIANTS
  TypeOK
  LadderUnlessRaced
  ModeFollowsStay
PROPERTIES
  ModeNeedsStay
