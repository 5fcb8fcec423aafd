SPECIFICATION OrderlySpec
CONSTANTS
  Children = {k1, k2}
  NoChild = NoChild
  Devices = {d1, d2}
  NoDevice = NoDevice
  USE_USB = TRUE
  Inputs = {}
  MaxWire = 3
INVARIANT DeviceWhileConnected
INVARIANT TreeFollows
INVARIANT IdentityFits
PROPERTY DevicePassed
PROPERTY DeviceLeaves
CHECK_DEADLOCK FALSE
