SPECIFICATION Spec
CONSTANTS
  h1 = h1
  h2 = h2
  h3 = h3
  x1 = x1
  x2 = x2
  x3 = x3
  Binding = Binding
  Bus = Bus
  Handles = {h1, h2}
  Prots = {i1, i2}
  Protocols = {Binding, Bus}
  Interfaces = {x1}
  Registrations = {}
  Events = {}
  OpenModes <- NoModes
  MaxOpens = 1
  MaxOpenCount = 1
  NULL = NULL
  ListHead = ListHead
  DriverBinding = Binding
  DevicePath = Bus
  PathOf <- Paths
  Placement <- Anywhere
  Topology <- NoTopology
  ClientServices <- UninstallMultipleClient
  CallbackServices <- NoCallbacks
  MaxNesting = 4
  MaxArgs = 2
  ConformingDrivers = TRUE
SYMMETRY PermutedProts
PROPERTY UninstallMultipleRestores
