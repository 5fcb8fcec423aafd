SPECIFICATION Spec
CONSTANTS
  r1 = r1
  r2 = r2
  h1 = h1
  d1 = d1
  d2 = d2
  NoNode = NoNode
  Controllers <- MCControllers
  RootHub <- MCRootHub
  Wiring <- MCWiring
  Devices = {d1, d2}
  Serial3 = {d1, d2}
  LongNames = {d2}
  Bos = {d1}
  DeviceStrings <- MCDeviceStrings
  Blocks <- MCBlocks
  Languages <- MCLanguages
  Existing <- MCExisting
  Supported = {"HubInfoEx", "PortConnectorProps"}
  NumStrings = 4
  MaxWalks = 2
  MaxDisturbances = 2
INVARIANT TypeOK
INVARIANT NoDanglingPointer
INVARIANT NothingLost
INVARIANT WalkFinds
INVARIANT StringsComplete
PROPERTY WalkEnds
CHECK_DEADLOCK FALSE
