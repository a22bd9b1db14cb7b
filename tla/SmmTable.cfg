SPECIFICATION SmmSpec
CONSTANTS
  Handles = {h1}
  Prots = {i1}
  Protocols = {g1, g2}
  Interfaces = {x1}
  Registrations = {}
  Events = {}
  OpenModes <- NoModes
  MaxOpens = 1
  MaxOpenCount = 1
  NULL = NULL
  ListHead = ListHead
  MaxRequests = 0
  Rooms = {}
  Tables = {t1}
  TableStep = 1
  MaxCalls = 4
  MaxDepth = 1
INVARIANT TableFits
CHECK_DEADLOCK FALSE
