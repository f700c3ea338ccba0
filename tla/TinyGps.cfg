SPECIFICATION TinySpec
CONSTANTS
  Bits <- MCBits
  Code <- MCCode
  Garbled <- MCGarbled
  TermSize = 2
  TimesTold <- MCTimes
  NoiseBound = 1
INVARIANTS
  TypeOK
  TellsTimeSent
  GoodSentenceAccepted
