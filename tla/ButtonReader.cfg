SPECIFICATION Spec
CONSTANTS
  ClockWidth = 12
  ClickLimit = 5
  LoopPeriod = 2
  MinStable = 3
  LongestPress = 10
INVARIANTS
  EveryPressReportedOnce
  HoldInTime
PROPERTIES
  ClassifiedRight
  GestureSpec
