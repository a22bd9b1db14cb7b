SPECIFICATION Spec
CONSTANTS
  Space = "Memory"
  AddressBits = 4
  LastAddress = 3
  PageSize = 2
  Types = {"NonExistent", "MemoryMappedIo"}
  Images = {i1}
  Devices = {}
  AttributeBits = {"RUNTIME", "PORT_IO", "XP"}
  CpuBits = {"XP"}
  NULL = NULL
  Ranges <- PageRanges
  Requests <- Searches
  AttributeSets <- NoAttributes
  Services = {"Add", "Free", "Allocate"}
INVARIANT TopDownFinds
