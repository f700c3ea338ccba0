SPECIFICATION Spec
CONSTANTS
  SecondsPerDay = 10
  DoorOpenTime = 2
  DoorCloseTime = 8
  DoorActivationDuration = 2
  TimeFactor = 1
INVARIANTS
  MotorMatchesState
  ElapsedInRange
  OverrideRespected
PROPERTY
  DriveSpec
