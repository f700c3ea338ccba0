SPECIFICATION RelaysSpec
CONSTANTS
  ClockWidth = 11
  Lockout = 3
  LoopPeriod = 2
  ReadGap = 1
  HeatGoal = 10
  Heats = {7, 8, 12, 13}
  SecondsPerDay = 6
  LightsOnTime = 4
  LightsOffTime = 2
INVARIANTS
  RelaysTypeOK
  FollowsSchedule
PROPERTIES
  NoRapidChange
  HeatAnswered
