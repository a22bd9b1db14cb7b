SPECIFICATION FairSpec
CONSTANTS
  h1 = h1
  h2 = h2
  h3 = h3
  x1 = x1
  x2 = x2
  x3 = x3
  Binding = Binding
  Bus = Bus
  Handles = {h1, h2, h3}
  Prots = {i1, i2, i3}
  Protocols = {Binding, Bus}
  Interfaces = {x1}
  Registrations = {}
  Events = {}
  OpenModes <- BusModes
  MaxOpens = 2
  MaxOpenCount = 1
  NULL = NULL
  ListHead = ListHead
  DriverBinding = Binding
  DevicePath = Bus
  PathOf <- Paths
  Placement <- OneBus
  Topology <- OneChild
  ClientServices <- ReinstallClient
  CallbackServices <- BusDriver
  MaxNesting = 4
  MaxArgs = 0
  ConformingDrivers = TRUE
PROPERTY CallsReturn
