CONSTANTS
  plain = plain
  left = left
  above = above
  NB = 3
  Plain = {0, 1, 11}
  Fits = {plain, left, above}
  PredictorOf <- MCPredictorOf
  None = None
SPECIFICATION FrameSpec
INVARIANTS
  NeverRefused
  TablesAgree
PROPERTY ImplementsBlockCodec
CHECK_DEADLOCK FALSE
