--------------------------------- MODULE Gcd ---------------------------------
(***************************************************************************)
(* The global coherency domain services of the host DXE services table:    *)
(* DxeServicesTableLibHost/Gcd.c.                                          *)
(*                                                                         *)
(* A space (memory or I/O; the same code keeps both) is a list of ranges   *)
(* in address order.  Every service looks up the links its range touches,  *)
(* checks each of them, splits the first and the last, converts those in   *)
(* between and merges equal neighbours.  It holds the lock of the map from *)
(* beginning to end, so a service is one action.                           *)
(*                                                                         *)
(* gCpu and gDxeCoreImageHandle are NULL in the host build.                *)
(***************************************************************************)
EXTENDS Integers, Sequences, FiniteSetsExt, SequencesExt

CONSTANTS
  Space,          \* which of the two maps: "Memory" or "Io"
  AddressBits,    \* the width of EFI_PHYSICAL_ADDRESS
  LastAddress,    \* EndAddress of the map: 2^SizeOfMemorySpace - 1
  PageSize,       \* EFI_PAGE_SIZE
  Types,          \* the types of space in use, "NonExistent" among them
  Images,         \* the image handles that may own space
  Devices,        \* the device handles space may be allocated for
  AttributeBits,  \* the bits of Capabilities and Attributes in use
  CpuBits,        \* those that only the CPU driver can change
  NULL,           \* no handle
  Ranges,         \* the << BaseAddress, Length >> clients pass
  Requests,       \* the requests for space that clients make
  AttributeSets,  \* the attributes and capabilities clients pass
  Services        \* the services that clients call

ASSUME SpaceAssumption ==
  /\ Space \in {"Memory", "Io"}
  /\ "NonExistent" \in Types
  /\ NULL \notin Images /\ NULL \notin Devices
  /\ CpuBits \subseteq AttributeBits
  /\ {"RUNTIME", "PORT_IO"} \subseteq AttributeBits
  /\ PageSize \in Nat \ {0}

(* The map is smaller than what its addresses can name: 48 of 64 bits.     *)
ASSUME WidthAssumption ==
  AddressBits \in Nat /\ LastAddress \in 0 .. 2 ^ AddressBits - 2

(* What the proofs need to know of powers of two.                          *)
ASSUME PowersAssumption ==
  \A n \in 0 .. AddressBits : 2 ^ n \in Nat \ {0}

(* No range that a client passes goes beyond the last address there is: the*)
(* services do not check that BaseAddress + Length wraps.                  *)
ASSUME RangesAssumption ==
  /\ Ranges \subseteq Nat \X Nat
  /\ \A bl \in Ranges : bl[1] + bl[2] <= 2 ^ AddressBits
  /\ AttributeSets \subseteq SUBSET AttributeBits

VARIABLES
  map,    \* mGcdMemorySpaceMap or mGcdIoSpaceMap, in list order
  status  \* what the last service returned; ASSERT: it did not return

vars == << map, status >>

-----------------------------------------------------------------------------
(* EFI_GCD_MAP_ENTRY: a range, and the cell that all its bytes share.      *)

Addresses == 0 .. LastAddress
Modulus   == 2 ^ AddressBits
Wrapped(n) == n % Modulus

Links == DOMAIN map

CellAt(a) ==
  LET k == CHOOSE j \in Links : map[j].base <= a /\ a <= map[j].end
  IN  map[k].cell

(* What the list stands for: one cell for every address.                   *)
Abstract == INSTANCE GcdSpace WITH cells <- [a \in Addresses |-> CellAt(a)]

GcdMapEntry == [ base : Addresses, end : Addresses, cell : Abstract!Cells ]

Statuses == { "SUCCESS", "INVALID_PARAMETER", "UNSUPPORTED", "ACCESS_DENIED",
              "NOT_FOUND", "OUT_OF_RESOURCES", "NOT_AVAILABLE_YET", "ASSERT" }

TypeOK == map \in Seq(GcdMapEntry) /\ status \in Statuses

(* The template with EndAddress set, as CoreInitializeGcdServices leaves it.*)
Init ==
  /\ map = << [base |-> 0, end |-> LastAddress, cell |-> Abstract!Untouched] >>
  /\ status = "SUCCESS"

Running == status # "ASSERT"
Fail(s) == status' = s /\ map' = map

-----------------------------------------------------------------------------
(* CoreSearchGcdMapEntry.                                                  *)

Holds(k, a) == map[k].base <= a /\ a <= map[k].end

(* BaseAddress + Length - 1 in 64 bits.                                    *)
LastByte(base, length) == Wrapped(base + length - 1)

(* The first and the last link of the range: << StartLink, EndLink >>, or  *)
(* none when the search fails.  The end is looked for from the start on.   *)
Segment(base, length) ==
  { se \in Links \X Links :
      /\ se[1] <= se[2]
      /\ Holds(se[1], base)
      /\ Holds(se[2], LastByte(base, length)) }

-----------------------------------------------------------------------------
(* CoreInsertGcdMapEntry and CoreCleanupGcdMapEntry.                       *)

(* The part of link k that lies in lo .. hi.                               *)
Clip(k, lo, hi) ==
  [ map[k] EXCEPT !.base = IF lo > @ THEN lo ELSE @,
                  !.end  = IF hi < @ THEN hi ELSE @ ]

(* The pads for what the first and the last link have outside the range.   *)
Bottom(k, lo) == IF lo > map[k].base THEN << [map[k] EXCEPT !.end = lo - 1] >>
                                     ELSE << >>
Top_Overlaps(k, hi) == IF hi < map[k].end THEN << [map[k] EXCEPT !.base = hi] >>
                                          ELSE << >>
Top(k, hi) == IF hi < map[k].end THEN << [map[k] EXCEPT !.base = hi + 1] >>
                                 ELSE << >>

Absorb_IgnoresOwner(links, entry) ==
  IF links # << >> /\ Last(links).cell.type = entry.cell.type
  THEN Append(Front(links), [entry EXCEPT !.base = Last(links).base])
  ELSE Append(links, entry)

(* CoreMergeGcdMapEntry: the previous link disappears into an equal one.   *)
Absorb(links, entry) ==
  IF links # << >> /\ Last(links).cell = entry.cell
  THEN Append(Front(links), [entry EXCEPT !.base = Last(links).base])
  ELSE Append(links, entry)

MergeAll(links, touched) == FoldLeft(Absorb, links, touched)

(* The list after links s .. e, clipped to the range, have got new cells:  *)
(* cell[k] is that of link k.                                              *)
(* Every one of them is merged with the link before it, the last also with *)
(* the link after it.                                                      *)
Convert(base, length, s, e, cell) ==
  LET hi      == LastByte(base, length)
      changed == [ k \in 1 .. e - s + 1 |->
                     [Clip(s + k - 1, base, hi) EXCEPT !.cell = cell[s + k - 1]] ]
      after   == Top(e, hi) \o SubSeq(map, e + 1, Len(map))
      next    == SubSeq(after, 1, Min({1, Len(after)}))
  IN  MergeAll(SubSeq(map, 1, s - 1) \o Bottom(s, base), changed \o next)
        \o SubSeq(after, Len(next) + 1, Len(after))

-----------------------------------------------------------------------------
(* CoreConvertSpace: verdict[k] is what it finds when it checks link k.    *)

Permitted(base, length, verdict, s, e) ==
  /\ length # 0
  /\ << s, e >> \in Segment(base, length)
  /\ \A k \in s .. e : verdict[k] = "SUCCESS"

Refuse(base, length, verdict) ==
  \/ length = 0 /\ Fail("INVALID_PARAMETER")
  \/ length # 0 /\ Segment(base, length) = {} /\ Fail("UNSUPPORTED")
  \/ /\ length # 0
     /\ \E se \in Segment(base, length) :
          LET refused == { k \in se[1] .. se[2] : verdict[k] # "SUCCESS" } IN
            /\ refused # {}
            /\ Fail(verdict[Min(refused)])
  \/ /\ \E s, e \in Links : Permitted(base, length, verdict, s, e)
     /\ Fail("OUT_OF_RESOURCES")

Change(base, length, verdict, cell) ==
  \E s, e \in Links :
    /\ Permitted(base, length, verdict, s, e)
    /\ map' = Convert(base, length, s, e, cell)

Type(k)    == map[k].cell.type
Unowned(k) == map[k].cell.image = NULL

(* AddMemorySpace and AddIoSpace.                                          *)
AddVerdict_IgnoresOwner(k) ==
  IF Type(k) = "NonExistent" THEN "SUCCESS" ELSE "ACCESS_DENIED"
AddVerdict(k) ==
  IF Type(k) = "NonExistent" /\ Unowned(k) THEN "SUCCESS" ELSE "ACCESS_DENIED"

Capabilities(t, caps) ==
  caps \cup {"RUNTIME"} \cup (IF t = "MemoryMappedIo" THEN {"PORT_IO"} ELSE {})

AddedCell(k, t, caps) ==
  IF Space = "Io" THEN [map[k].cell EXCEPT !.type = t]
  ELSE [map[k].cell EXCEPT !.type = t, !.capabilities = Capabilities(t, caps)]

(* CoreAddMemorySpace then allocates system memory in whole pages in the   *)
(* name of gDxeCoreImageHandle, and returns what the last try returned:    *)
(* CoreAllocateSpace takes no ImageHandle NULL.                            *)
AddStatus(t) ==
  IF t \in {"SystemMemory", "MoreReliable"} THEN "INVALID_PARAMETER" ELSE "SUCCESS"

AddSpace(t, base, length, caps) ==
  \/ t = "NonExistent" /\ Fail("INVALID_PARAMETER")
  \/ t # "NonExistent" /\ Refuse(base, length, [k \in Links |-> AddVerdict(k)])
  \/ /\ t # "NonExistent"
     /\ Change(base, length, [k \in Links |-> AddVerdict(k)],
                             [k \in Links |-> AddedCell(k, t, caps)])
     /\ status' = AddStatus(t)

(* RemoveMemorySpace and RemoveIoSpace.                                    *)
RemoveVerdict(k) ==
  CASE Type(k) = "NonExistent" -> "NOT_FOUND"
    [] Type(k) # "NonExistent" /\ ~Unowned(k) -> "ACCESS_DENIED"
    [] OTHER -> "SUCCESS"

(* The attributes stay what they were.                                     *)
RemovedCell(k) ==
  [map[k].cell EXCEPT !.type = "NonExistent", !.capabilities = {}]

RemoveSpace(base, length) ==
  \/ Refuse(base, length, [k \in Links |-> RemoveVerdict(k)])
  \/ /\ Change(base, length, [k \in Links |-> RemoveVerdict(k)],
                             [k \in Links |-> RemovedCell(k)])
     /\ status' = "SUCCESS"

(* FreeMemorySpace and FreeIoSpace.                                        *)
FreeVerdict(k) == IF Unowned(k) THEN "NOT_FOUND" ELSE "SUCCESS"

FreedCell(k) == [map[k].cell EXCEPT !.image = NULL, !.device = NULL]

FreeSpace(base, length) ==
  \/ Refuse(base, length, [k \in Links |-> FreeVerdict(k)])
  \/ /\ Change(base, length, [k \in Links |-> FreeVerdict(k)],
                             [k \in Links |-> FreedCell(k)])
     /\ status' = "SUCCESS"

Aligned(base, length) == base % PageSize = 0 /\ length % PageSize = 0

(* SetMemorySpaceAttributes.  Without gCpu the attributes of the CPU are   *)
(* refused; those the links have already would be kept, and are collected  *)
(* from link to link.                                                      *)
AttributesVerdict(k, base, length, attrs) ==
  CASE "RUNTIME" \in attrs /\ ~Aligned(base, length) -> "INVALID_PARAMETER"
    [] ("RUNTIME" \in attrs => Aligned(base, length))
         /\ ~(attrs \subseteq map[k].cell.capabilities) -> "UNSUPPORTED"
    [] OTHER -> "SUCCESS"

AttributedCell(base, k, attrs) ==
  [map[k].cell EXCEPT !.attributes =
     attrs \cup UNION { map[j].cell.attributes \cap CpuBits :
                      j \in { i \in 1 .. k : map[i].end >= base } }]

SetSpaceAttributes(base, length, attrs) ==
  LET verdict == [k \in Links |-> AttributesVerdict(k, base, length, attrs)] IN
  \/ Refuse(base, length, verdict)
  \/ /\ attrs \cap CpuBits # {}
     /\ \E s, e \in Links : Permitted(base, length, verdict, s, e)
     /\ Fail("NOT_AVAILABLE_YET")
  \/ /\ attrs \cap CpuBits = {}
     /\ Change(base, length, verdict, [k \in Links |-> AttributedCell(base, k, attrs)])
     /\ status' = "SUCCESS"

(* SetMemorySpaceCapabilities.  When it has succeeded it asserts, in       *)
(* CoreUpdateMemoryAttributes, that it never does.                         *)
CapabilitiesVerdict(k, base, length, caps) ==
  CASE ~Aligned(base, length) -> "INVALID_PARAMETER"
    [] Aligned(base, length) /\ ~(map[k].cell.attributes \subseteq caps) -> "UNSUPPORTED"
    [] OTHER -> "SUCCESS"

SetSpaceCapabilities(base, length, caps) ==
  LET verdict == [k \in Links |-> CapabilitiesVerdict(k, base, length, caps)] IN
  \/ Refuse(base, length, verdict)
  \/ /\ Change(base, length, verdict,
               [k \in Links |-> [map[k].cell EXCEPT !.capabilities = caps]])
     /\ status' = "ASSERT"

-----------------------------------------------------------------------------
(* CoreAllocateSpace.  A request says how to search (GcdAllocateType), for *)
(* which type, at a multiple of 2^alignment, and what *BaseAddress was.    *)

AtAddress == {"Address"}
TopDown   == {"AnySearchTopDown", "MaxAddressSearchTopDown"}
BottomUp  == {"AnySearchBottomUp", "MaxAddressSearchBottomUp"}

Request ==
  [ how : AtAddress \cup TopDown \cup BottomUp, type : Types, alignment : Nat,
    length : Nat, base : Nat ]

ASSUME RequestsAssumption ==
  /\ Requests \subseteq Request
  /\ \A r \in Requests :
       r.alignment < AddressBits => LastAddress + 2 ^ r.alignment + r.length <= Modulus

NotFound == Modulus

(* CoreAllocateSpaceCheckEntry.                                            *)
Usable(k, r) == Unowned(k) /\ Type(k) = r.type

Boundary(r)     == 2 ^ r.alignment
RoundDown(a, r) == (a \div Boundary(r)) * Boundary(r)
RoundUp_Below(a, r) == RoundDown(a, r)
RoundUp(a, r)   == RoundDown(Wrapped(a + Boundary(r) - 1), r)

MaxAddress(r) ==
  IF r.how \in {"MaxAddressSearchTopDown", "MaxAddressSearchBottomUp"}
  THEN r.base ELSE Last(map).end

(* Where in link k the search would put the range.                         *)
Candidate(k, r) ==
  IF r.how \in TopDown
  THEN RoundDown(Wrapped(Min({MaxAddress(r), map[k].end}) + 1 + Modulus - r.length), r)
  ELSE RoundUp(map[k].base, r)

(* A link the search from the top leaves out.                              *)
TooSmall(k, r) ==
  r.how \in TopDown /\ Wrapped(map[k].base + r.length) > MaxAddress(r)

(* A link at which the search gives up.                                    *)
Hopeless_OffByOne(k, r) ==
  IF r.how \in TopDown THEN r.length > Wrapped(map[k].end + 1)
  ELSE LastByte(RoundUp(map[k].base, r), r.length) >= MaxAddress(r)
Hopeless(k, r) ==
  IF r.how \in TopDown THEN r.length > Wrapped(map[k].end + 1)
  ELSE LastByte(RoundUp(map[k].base, r), r.length) > MaxAddress(r)

(* Where the search is: at a link it has not tried yet, or behind the last *)
(* of them with what it found.                                             *)
Trying(k) == [link |-> k, found |-> NotFound]
Ended(a)  == [link |-> 0, found |-> a]

First(r)     == IF r.how \in TopDown THEN Len(map) ELSE 1
Onward(k, r) == IF r.how \in TopDown THEN k - 1 ELSE k + 1

(* The links that are in the way of a range.                               *)
Blocked(base, length, r) ==
  LET se == CHOOSE x \in Segment(base, length) : TRUE
  IN  { j \in se[1] .. se[2] : ~Usable(j, r) }

(* One link.  A range that is in the way sends the search on from the      *)
(* first link it cannot use.                                               *)
Try(place, r) ==
  LET k == place.link IN
  IF k \notin Links THEN place
  ELSE IF ~Usable(k, r) \/ TooSmall(k, r) THEN Trying(Onward(k, r))
  ELSE IF Hopeless(k, r) \/ Segment(Candidate(k, r), r.length) = {} THEN Ended(NotFound)
  ELSE IF Blocked(Candidate(k, r), r.length, r) = {} THEN Ended(Candidate(k, r))
  ELSE Trying(Onward(Min(Blocked(Candidate(k, r), r.length, r)), r))

(* The address the search ends with.  It comes to no link twice, so that   *)
(* as many tries as there are links are enough.                            *)
Search(r) ==
  LET place[n \in 0 .. Len(map)] == IF n = 0 THEN Trying(First(r)) ELSE Try(place[n - 1], r)
  IN  place[Len(map)].found

(* AllocateAddress: the address is given.                                  *)
Given(r) ==
  IF /\ r.base % Boundary(r) = 0
     /\ \E se \in Segment(r.base, r.length) : \A k \in se[1] .. se[2] : Usable(k, r)
  THEN r.base ELSE NotFound

Found(r) == IF r.how \in AtAddress THEN Given(r) ELSE Search(r)

AllocatedCell(k, image, device) ==
  [map[k].cell EXCEPT !.image = image, !.device = device]

AllocateSpace(r, image, device) ==
  \/ image = NULL /\ Fail("INVALID_PARAMETER")
  \/ image # NULL /\ r.alignment >= AddressBits /\ Fail("NOT_FOUND")
  \/ /\ image # NULL /\ r.alignment < AddressBits
     /\ \/ r.length = 0 /\ Fail("INVALID_PARAMETER")
        \/ r.length # 0 /\ Found(r) = NotFound /\ Fail("NOT_FOUND")
        \/ r.length # 0 /\ Found(r) # NotFound /\ Fail("OUT_OF_RESOURCES")
        \/ /\ r.length # 0 /\ Found(r) # NotFound
           /\ \E se \in Segment(Found(r), r.length) :
                map' = Convert(Found(r), r.length, se[1], se[2],
                               [k \in Links |-> AllocatedCell(k, image, device)])
           /\ status' = "SUCCESS"

-----------------------------------------------------------------------------
Calls(service) == Running /\ service \in Services

Next ==
  \/ /\ Calls("Add")
     /\ \E t \in Types, bl \in Ranges, caps \in AttributeSets :
          AddSpace(t, bl[1], bl[2], caps)
  \/ /\ Calls("Remove")
     /\ \E bl \in Ranges : RemoveSpace(bl[1], bl[2])
  \/ /\ Calls("Free")
     /\ \E bl \in Ranges : FreeSpace(bl[1], bl[2])
  \/ /\ Calls("SetAttributes") /\ Space = "Memory"
     /\ \E bl \in Ranges, attrs \in AttributeSets :
          SetSpaceAttributes(bl[1], bl[2], attrs)
  \/ /\ Calls("SetCapabilities") /\ Space = "Memory"
     /\ \E bl \in Ranges, caps \in AttributeSets :
          SetSpaceCapabilities(bl[1], bl[2], caps)
  \/ /\ Calls("Allocate")
     /\ \E r \in Requests, i \in Images \cup {NULL}, d \in Devices \cup {NULL} :
          AllocateSpace(r, i, d)

Spec == Init /\ [][Next]_vars

-----------------------------------------------------------------------------
(* Correctness.                                                            *)

(* The list covers the space in address order without gap or overlap,      *)
(* whatever has been split and merged: "Inserts a new descriptor into a    *)
(* sorted list" (CoreInsertGcdMapEntry).                                   *)
Partition ==
  /\ map # << >> /\ map[1].base = 0 /\ Last(map).end = LastAddress
  /\ \A k \in Links : map[k].base <= map[k].end
  /\ \A k \in 1 .. Len(map) - 1 : map[k + 1].base = map[k].end + 1

(* No two neighbours are equal: CoreCleanupGcdMapEntry looks only at the   *)
(* links the operation touched, and that is enough.                        *)
FullyMerged == \A k \in 1 .. Len(map) - 1 : map[k].cell # map[k + 1].cell

(* A conversion changes the bytes it was asked for, all of them and no     *)
(* other, wherever the range lies among the links (CoreInsertGcdMapEntry   *)
(* and CoreMergeGcdMapEntry).                                              *)
RangeExact ==
  \A base \in Addresses : \A length \in 1 .. LastAddress + 1 - base :
    \A se \in Segment(base, length) :
      LET new  == [k \in Links |-> [map[k].cell EXCEPT !.device = "changed"]]
          list == Convert(base, length, se[1], se[2], new)
      IN  \A k \in DOMAIN list : \A a \in list[k].base .. list[k].end :
            list[k].cell = IF a \in base .. base + length - 1
                           THEN [CellAt(a) EXCEPT !.device = "changed"]
                           ELSE CellAt(a)

(* Each service does to the bytes what it promises and nothing else, and   *)
(* only when every byte of one range qualifies: space in use is neither    *)
(* added, removed nor given away again.                                    *)
KeepsPromises == Abstract!SpaceSpec

(* A device has space only where an image owns it.                         *)
DevicesHaveOwners ==
  \A k \in Links : Unowned(k) => map[k].cell.device = NULL

(* The list at all times: well typed, a merged partition, and no device has*)
(* space that nobody owns.  Nothing is said of attributes: a removal leaves*)
(* them, and the next addition need not come with capabilities for them.   *)
MapWellFormed == TypeOK /\ Partition /\ FullyMerged /\ DevicesHaveOwners

(* The addresses at which request r could be satisfied, byte by byte.      *)
Suitable(r) ==
  { a \in Addresses :
      /\ a % Boundary(r) = 0
      /\ a + r.length - 1 <= Min({MaxAddress(r), LastAddress})
      /\ \A b \in a .. a + r.length - 1 : CellAt(b).image = NULL /\ CellAt(b).type = r.type }

ValidRequests(direction) ==
  { r \in Requests : r.how \in direction /\ r.length # 0 /\ r.alignment < AddressBits }

(* The search from the bottom finds the lowest suitable address, although  *)
(* it tries one address per link and jumps over links; "EFI_NOT_FOUND No   *)
(* descriptor for the desired space exists".                               *)
BottomUpFindsLowest ==
  \A r \in ValidRequests(BottomUp) :
    Search(r) = IF Suitable(r) = {} THEN NotFound ELSE Min(Suitable(r))

(* What the search from the top finds is suitable.                         *)
TopDownSound ==
  \A r \in ValidRequests(TopDown) : Search(r) # NotFound => Search(r) \in Suitable(r)

(* Both searches: an address that is found is free and within the limit,   *)
(* and the search from the bottom misses none.                             *)
SearchesExact == BottomUpFindsLowest /\ TopDownSound

(* "EFI_NOT_FOUND No descriptor for the desired space exists."             *)
TopDownFinds ==
  \A r \in ValidRequests(TopDown) : Search(r) = NotFound => Suitable(r) = {}
==============================================================================
