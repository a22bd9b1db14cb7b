SPECIFICATION Spec
CONSTANTS
  h1 = h1
  h2 = h2
  h3 = h3
  x1 = x1
  x2 = x2
  x3 = x3
  Binding = Binding
  Bus = Bus
  Handles = {h1, h2}
  Prots = {i1, i2, i3}
  Protocols = {Binding, Bus}
  Interfaces = {x1, x2}
  Registrations = {r1}
  Events = {e1}
  OpenModes <- ByDriverOnly
  MaxOpens = 1
  MaxOpenCount = 1
  NULL = NULL
  ListHead = ListHead
  DriverBinding = Binding
  DevicePath = Bus
  PathOf <- Paths
  Placement <- TwoDevices
  Topology <- NoTopology
  ClientServices <- NotifyClient
  CallbackServices <- Reentrant
  MaxNesting = 4
  MaxArgs = 0
  ConformingDrivers = TRUE
SYMMETRY PermutedProts
PROPERTY RemovesWhatWasNamed
