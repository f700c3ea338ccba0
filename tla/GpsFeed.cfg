SPECIFICATION FeedSpec
CONSTANTS
  ClockWidth = 28
  MsPerSecond = 3
  SecondsPerDay = 6
  RefreshAfter = 12
  TimeFactor = 1
  LoopPeriod = 1
  SentenceAge = 7
  LongestOutage = 27
  SentenceLength = 4
  TimePlace = 2
  BitsOf <- MCBitsOf
  PortSize = 3
  OutageEnds = 14
INVARIANTS
  WholeFixShowsTrueTime
PROPERTIES
  ClockSpec
  KeepsResyncing
  ReaderSpec
