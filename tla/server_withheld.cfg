SPECIFICATION Spec
CONSTANTS
  Sockets = {s1, s2}
  NoSocket = NoSocket
  NSlots = 3
  DropTargets = {3}
  UninitIds <- MCForeignIds
  Statuses = {"PC"}
INVARIANT WithheldInputIsForwarded
CHECK_DEADLOCK FALSE
