------------------------------ MODULE MCGcdSpaces ------------------------------
(* Small instances of Gcd and GcdQueries in one run: a memory space that    *)
(* either gets owners or changes its attributes and capabilities; an I/O    *)
(* space with searches; and the queries of either space.  The memory space  *)
(* is the one the constants of the run are about; the others are kept in    *)
(* another list, each with its own size and its own clients.                *)
EXTENDS MCGcd, GcdQueries

CONSTANT i1, d1

VARIABLES instance, otherMap, otherStatus, otherQuery, otherResult

queries == << query, result >>
others  == << otherMap, otherStatus, otherQuery, otherResult >>

(* The clients of the memory space: they change attributes and capabilities,*)
(* or take space for themselves.                                            *)
Attributes == INSTANCE Gcd WITH
  Devices <- {}, Requests <- NoRequests,
  Ranges <- PageRanges \ {<< 0, 1 >>},
  Services <- {"Add", "Remove", "SetAttributes", "SetCapabilities"}

Owners == INSTANCE Gcd WITH
  Requests <- SmallSearches,
  AttributeSets <- NoAttributes, Services <- {"Add", "Remove", "Free", "Allocate"}

IoSearches ==
  RequestsFor({"Io"}, 0 .. 4, {0, 1, 2}, {3, 5, 9}) \cup RequestsFor({"NonExistent"}, {1}, {4}, {0})

Io == INSTANCE Gcd WITH
  map <- otherMap, status <- otherStatus,
  Space <- "Io", LastAddress <- 7, Types <- {"NonExistent", "Io"}, Devices <- {},
  Ranges <- LooseRanges, Requests <- IoSearches, AttributeSets <- NoAttributes,
  Services <- {"Add", "Remove", "Free", "Allocate"}

QueriedRanges == { << 0, 1 >>, << 0, 2 >>, << 1, 2 >> }
OneByte(type) ==
  [ how : {"AnySearchBottomUp"}, type : {type}, alignment : {0}, length : {1}, base : {0} ]

MemoryQueries == INSTANCE GcdQueries WITH
  Devices <- {}, Ranges <- QueriedRanges, Requests <- OneByte("SystemMemory"),
  AttributeSets <- {{}, {"RUNTIME"}},
  Services <- {"Add", "Remove", "Free", "Allocate"}

IoQueries == INSTANCE GcdQueries WITH
  map <- otherMap, status <- otherStatus, query <- otherQuery, result <- otherResult,
  Space <- "Io", AddressBits <- 3, LastAddress <- 2, Types <- {"NonExistent", "Io"},
  Devices <- {}, Ranges <- QueriedRanges, Requests <- OneByte("Io"), AttributeSets <- {{}},
  Services <- {"Add", "Remove", "Free", "Allocate"}, MaxRounds <- 1

MCInit ==
  /\ QueryInit
  /\ \/ instance \in {"attributes", "owners", "io", "memory queries"} /\ Io!Init /\ IoQueries!NoQueryYet
     \/ instance = "io queries" /\ IoQueries!QueryInit

MCNext ==
  /\ UNCHANGED instance
  /\ \/ instance = "attributes" /\ Attributes!Next /\ UNCHANGED << queries, others >>
     \/ instance = "owners" /\ Owners!Next /\ UNCHANGED << queries, others >>
     \/ instance = "memory queries" /\ MemoryQueries!QueryNext /\ UNCHANGED others
     \/ instance = "io" /\ Io!Next /\ UNCHANGED << vars, queries, otherQuery, otherResult >>
     \/ instance = "io queries" /\ IoQueries!QueryNext /\ UNCHANGED queryVars

MCSpec == MCInit /\ [][MCNext]_<< queryVars, others, instance >>

(* The same of an I/O space: one that is larger and has more searches, and  *)
(* one that is queried.                                                     *)
IoSpaceExact ==
  /\ instance = "io" => Io!MapWellFormed /\ Io!RangeExact /\ Io!SearchesExact
  /\ instance = "io queries" => IoQueries!QueriesExact
================================================================================
