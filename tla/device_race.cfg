SPECIFICATION Spec
CONSTANTS
  Reads = {r1, r2}
  Writes = {w1}
  Controls = {c1}
  NoIrp = NoIrp
  Lengths = {0, 4}
  MaxHolding = 3
  SharedProcessor = FALSE
SYMMETRY Symmetry
INVARIANT TypeOK
INVARIANT HoldingInBounds
PROPERTY NoOvertaking
CHECK_DEADLOCK FALSE
