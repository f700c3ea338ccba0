SPECIFICATION FairSpec
CONSTANTS
  Contexts = {c1, c2}
  Handles = {h1, h2}
  SndBuf = 1
  RcvWnd = 2
  Sizes = {1, 2}
INVARIANTS
  WindowAccounted
  AssertionsHold
  SentInOrder
PROPERTIES
  RefsMatch
  CallsReturn
