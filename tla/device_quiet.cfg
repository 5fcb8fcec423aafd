SPECIFICATION QuietSpec
CONSTANTS
  Reads = {r1, r2}
  Writes = {w1, w2}
  Controls = {}
  NoIrp = NoIrp
  Lengths = {0, 2}
  MaxHolding = 3
  SharedProcessor = TRUE
INVARIANT CompletedOnce
PROPERTY LoopsBack
PROPERTY WritesComplete
PROPERTY ReadsServed
CHECK_DEADLOCK FALSE
