SPECIFICATION MCSpec
CONSTANTS
  Handles = {h1, h2}
  Prots = {i1, i2, i3}
  Protocols = {g1, g2}
  Interfaces = {x1}
  Registrations = {r1, r2}
  Events = {e1, e2}
  OpenModes <- AccessModes
  MaxOpens = 2
  MaxOpenCount = 2
  NULL = NULL
  ListHead = ListHead
  MaxRequests = 2
  Rooms = {0, 1}
  Tables = {t1}
  TableStep = 1
  MaxCalls = 5
  MaxDepth = 2
SYMMETRY Symmetry
INVARIANTS TypeOK LinksConsistent WalksConsistent OpensConsistent LookupsExact
  SmmInstanceConsistent
