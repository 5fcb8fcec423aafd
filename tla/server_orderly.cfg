SPECIFICATION OrderlySpec
CONSTANTS
  Sockets = {s1, s2, s3}
  NoSocket = NoSocket
  NSlots = 3
  DropTargets = {3, 5}
  UninitIds <- MCForeignIds
  Statuses = {"PC", "MOBILE"}
INVARIANT HelloReachesItsSender
INVARIANT HookMirrorsDialog
INVARIANT BindingsNameClients
INVARIANT WithheldInputIsForwarded
INVARIANT CanReturn
PROPERTY KeepsFocus
PROPERTY AnimationEnds
CHECK_DEADLOCK FALSE
