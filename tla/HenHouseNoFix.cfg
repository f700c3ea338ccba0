SPECIFICATION FairSpec
CONSTANTS
  SecondsPerDay = 8
  DoorOpenTime = 1
  DoorCloseTime = 5
  DoorActivationDuration = 1
  MaxStep = 1
  Travel = 1
  RefreshAfter = 3
  LongestWait = 0
  Drift = 0
PROPERTY
  StopsAfterDuration
