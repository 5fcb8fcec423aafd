SPECIFICATION NumberedSpec
CONSTANTS
  Sockets = {s1, s2, s3, s4}
  NoSocket = NoSocket
  NSlots = 3
  DropTargets = {}
  UninitIds <- MCStaleIds
  Statuses = {"PC"}
SYMMETRY Symmetry
INVARIANT AssignedIdsUnique
INVARIANT WaitingMatchesTable
CHECK_DEADLOCK FALSE
