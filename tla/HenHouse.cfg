SPECIFICATION FairSpec
CONSTANTS
  SecondsPerDay = 13
  DoorOpenTime = 2
  DoorCloseTime = 9
  DoorActivationDuration = 2
  MaxStep = 1
  Travel = 1
  RefreshAfter = 4
  LongestWait = 1
  Drift = 1
INVARIANTS
  RestIsReal
  MotorTimely
PROPERTY
  DailyCycle
