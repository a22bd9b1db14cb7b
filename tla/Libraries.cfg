SPECIFICATION MCSpec
CONSTANTS
  Heads = {g, h}
  Entries = {a, b, c}
  Unlinked = Unlinked
  Threads = {s, t}
  Builds = {"GCC", "MSFT"}
  Modulus = 4
  MaxCounts = 5
  d1 = d1
  d2 = d2
  d3 = d3
INVARIANTS
  RingsIntact ListsExact DestinationsSafe  ArithmeticExact IniLookupsExact
  DevicePathsExact LockExact DriversInOrder
PROPERTIES SomeoneGetsIn SearchesEnd
CHECK_DEADLOCK FALSE
