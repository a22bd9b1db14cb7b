------------------------------ MODULE GcdQueries ------------------------------
(***************************************************************************)
(* The services that only read the maps of the global coherency domain,    *)
(* and the I/O services, which are the memory services' wrappers around    *)
(* the same conversion and search (DxeServicesTableLibHost/Gcd.c).         *)
(*                                                                         *)
(* All but one hold the lock of the map for as long as they look.          *)
(* CoreGetMemorySpaceMap lets go of it to allocate the array it returns,   *)
(* because an allocation may itself change the map, and counts again until *)
(* the array it has is of the size of the map it sees.                     *)
(***************************************************************************)
EXTENDS Gcd

CONSTANT MaxRounds      \* a bound: how often the map changes under one query

VARIABLES
  query,    \* CoreGetMemorySpaceMap in progress: where it is and what it has
  result    \* what the last query returned, and the map it describes

queryVars == << map, status, query, result >>

-----------------------------------------------------------------------------
CoreCountGcdMapEntry == Len(map)

BuildMemoryDescriptor(entry) ==
  [ base |-> entry.base, length |-> Wrapped(entry.end - entry.base + 1 + Modulus),
    type |-> entry.cell.type, image |-> entry.cell.image, device |-> entry.cell.device,
    capabilities |-> entry.cell.capabilities, attributes |-> entry.cell.attributes ]

BuildIoDescriptor(entry) ==
  [ base |-> entry.base, length |-> Wrapped(entry.end - entry.base + 1 + Modulus),
    type |-> entry.cell.type, image |-> entry.cell.image, device |-> entry.cell.device ]

Build(entry) ==
  IF Space = "Memory" THEN BuildMemoryDescriptor(entry) ELSE BuildIoDescriptor(entry)

(* The descriptor of the entry that holds an address.                      *)
DescriptorAt(address) ==
  { Build(map[se[1]]) : se \in Segment(address, 1) }

Describe(address) ==
  /\ result' = [status |-> IF DescriptorAt(address) = {} THEN "NOT_FOUND" ELSE "SUCCESS",
                asked |-> {address},
                descriptors |-> SetToSeq(DescriptorAt(address)), room |-> 1]
  /\ UNCHANGED << map, status, query >>

CoreGetMemorySpaceDescriptor(address) == Space = "Memory" /\ Describe(address)
CoreGetIoSpaceDescriptor(address)     == Space = "Io" /\ Describe(address)

(* CoreGetIoSpaceMap holds the lock from the count to the last descriptor. *)
CoreGetIoSpaceMap ==
  /\ Space = "Io"
  /\ \/ result' = [status |-> "SUCCESS", asked |-> Addresses, room |-> CoreCountGcdMapEntry,
                   descriptors |-> [k \in Links |-> Build(map[k])]]
     \/ result' = [status |-> "OUT_OF_RESOURCES", asked |-> {}, room |-> 0,
                   descriptors |-> << >>]
  /\ UNCHANGED << map, status, query >>

-----------------------------------------------------------------------------
(* CoreGetMemorySpaceMap: NumberOfDescriptors and the array it allocated   *)
(* for that many.                                                          *)
Idle == [at |-> "idle", room |-> 0, rounds |-> 0]

Locked == query.at = "locked"

GetMapBegin ==
  /\ Space = "Memory" /\ query = Idle
  /\ query' = [Idle EXCEPT !.at = "locked"]
  /\ UNCHANGED << map, status, result >>

CountsAgree_Trusted == query.room > 0
CountsAgree == CoreCountGcdMapEntry = query.room

(* The array has the size of the map: it is filled under the same lock.    *)
GetMapFill ==
  /\ Locked /\ CountsAgree
  /\ result' = [status |-> "SUCCESS", asked |-> Addresses, room |-> query.room,
                descriptors |-> [k \in Links |-> Build(map[k])]]
  /\ query' = Idle
  /\ UNCHANGED << map, status >>

(* It has not: the lock is released, the old array freed and another one   *)
(* allocated for the count just taken.                                     *)
GetMapRelease ==
  /\ Locked /\ ~CountsAgree
  /\ query' = [at |-> "allocating", room |-> CoreCountGcdMapEntry, rounds |-> query.rounds]
  /\ UNCHANGED << map, status, result >>

GetMapAllocate ==
  /\ query.at = "allocating"
  /\ \/ /\ query' = [query EXCEPT !.at = "locked"]
        /\ UNCHANGED result
     \/ /\ query' = Idle
        /\ result' = [status |-> "OUT_OF_RESOURCES", asked |-> {}, room |-> 0,
                      descriptors |-> << >>]
  /\ UNCHANGED << map, status >>

-----------------------------------------------------------------------------
(* The I/O services.                                                       *)
CoreAddIoSpace(t, base, length)  == Space = "Io" /\ AddSpace(t, base, length, {})
CoreRemoveIoSpace(base, length)  == Space = "Io" /\ RemoveSpace(base, length)
CoreFreeIoSpace(base, length)    == Space = "Io" /\ FreeSpace(base, length)
CoreAllocateIoSpace(r, image, device) == Space = "Io" /\ AllocateSpace(r, image, device)

IoServices ==
  \/ \E t \in Types, bl \in Ranges : CoreAddIoSpace(t, bl[1], bl[2])
  \/ \E bl \in Ranges : CoreRemoveIoSpace(bl[1], bl[2])
  \/ \E bl \in Ranges : CoreFreeIoSpace(bl[1], bl[2])
  \/ \E r \in Requests, i \in Images \cup {NULL}, d \in Devices \cup {NULL} :
       CoreAllocateIoSpace(r, i, d)

Unasked == [status |-> "none", asked |-> {}, room |-> 0, descriptors |-> << >>]

(* A service gets the lock only when the query does not hold it.           *)
Service ==
  /\ ~Locked /\ query.rounds < MaxRounds
  /\ IF Space = "Io" THEN Running /\ IoServices ELSE Next
  /\ query' = [query EXCEPT !.rounds = IF query.at = "idle" THEN 0 ELSE @ + 1]
  /\ result' = Unasked

NoQueryYet == query = Idle /\ result = Unasked

QueryInit == Init /\ NoQueryYet

QueryNext ==
  \/ \E address \in 0 .. Modulus - 1 :
       query = Idle /\ (CoreGetMemorySpaceDescriptor(address) \/ CoreGetIoSpaceDescriptor(address))
  \/ CoreGetIoSpaceMap
  \/ GetMapBegin \/ GetMapFill \/ GetMapRelease \/ GetMapAllocate
  \/ Service

QuerySpec == QueryInit /\ [][QueryNext]_queryVars

-----------------------------------------------------------------------------
(* What a query returned describes every byte it was asked about exactly   *)
(* once, as the map has it at the moment of the answer, in an array that   *)
(* holds just as many descriptors as it has room for, although the map may *)
(* have changed between the count and the filling (the loop of             *)
(* CoreGetMemorySpaceMap).                                                 *)
QueriesExact ==
  /\ result.status = "SUCCESS" =>
       /\ Len(result.descriptors) = result.room
       /\ \A a \in result.asked :
            LET around == { d \in ToSet(result.descriptors) :
                              d.base <= a /\ a < d.base + d.length } IN
              /\ Cardinality(around) = 1
              /\ \A d \in around :
                   /\ d.type = CellAt(a).type
                   /\ d.image = CellAt(a).image
                   /\ d.device = CellAt(a).device
  /\ result.status = "NOT_FOUND" => result.asked \cap Addresses = {}
===============================================================================
