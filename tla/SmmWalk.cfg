SPECIFICATION SmmSpec
CONSTANTS
  Handles = {h1}
  Prots = {i1}
  Protocols = {g1}
  Interfaces = {x1}
  Registrations = {r1, r2}
  Events = {e1, e2}
  OpenModes <- NoModes
  MaxOpens = 1
  MaxOpenCount = 1
  NULL = NULL
  ListHead = ListHead
  MaxRequests = 0
  Rooms = {}
  Tables = {}
  TableStep = 1
  MaxCalls = 5
  MaxDepth = 1
INVARIANT RecordsSigned
CHECK_DEADLOCK FALSE
