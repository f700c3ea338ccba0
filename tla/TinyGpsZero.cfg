SPECIFICATION WholeSpec
CONSTANTS
  Bits <- MCBits
  Code <- MCCodeZero
  Garbled = {}
  TermSize = 2
  TimesTold <- MCTimes
  NoiseBound = 1
INVARIANTS
  ReportsOnlyValidated
