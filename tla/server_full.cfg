SPECIFICATION Spec
CONSTANTS
  Sockets = {s1, s2, s3}
  NoSocket = NoSocket
  NSlots = 2
  DropTargets = {3}
  UninitIds <- MCStaleIds
  Statuses = {"MOBILE", "unknown"}
SYMMETRY Symmetry
INVARIANT TypeOK
INVARIANT InputGoesToOneMachine
INVARIANT CursorMatchesRouting
CHECK_DEADLOCK FALSE
