SPECIFICATION Spec
CONSTANTS
  Children = {k1, k2}
  NoChild = NoChild
  Devices = {d1}
  NoDevice = NoDevice
  USE_USB = TRUE
  Inputs = {"inside", "edge", "receive"}
  MaxWire = 2
SYMMETRY Symmetry
INVARIANT TypeOK
INVARIANT OneMode
INVARIANT StopMatchesMode
INVARIANT CursorRestorable
CHECK_DEADLOCK FALSE
