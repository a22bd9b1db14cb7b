SPECIFICATION MCSpec
CONSTANTS
  Space = "Memory"
  AddressBits = 4
  LastAddress = 3
  PageSize = 2
  MaxRounds = 2
  Types = {"NonExistent", "SystemMemory"}
  i1 = i1
  d1 = d1
  Images = {i1}
  Devices = {d1}
  AttributeBits = {"RUNTIME", "PORT_IO", "XP"}
  CpuBits = {"XP"}
  NULL = NULL
  Ranges <- PageRanges
  Requests <- SmallSearches
  AttributeSets <- RuntimeAndCpu
  Services = {"Add", "Remove", "Free", "Allocate", "SetAttributes", "SetCapabilities"}
INVARIANTS MapWellFormed RangeExact SearchesExact IoSpaceExact QueriesExact
PROPERTY KeepsPromises
CHECK_DEADLOCK FALSE
