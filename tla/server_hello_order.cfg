SPECIFICATION Spec
CONSTANTS
  Sockets = {s1, s2}
  NoSocket = NoSocket
  NSlots = 3
  DropTargets = {}
  UninitIds <- MCForeignIds
  Statuses = {"PC"}
INVARIANT ClientKnowsItsId
CHECK_DEADLOCK FALSE
