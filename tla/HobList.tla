------------------------------- MODULE HobList -------------------------------
(***************************************************************************)
(* HobLibHost.c: the list of hand-off blocks in one piece of memory of     *)
(* SIZE_64KB bytes.  A block is a header (type and length) and its         *)
(* contents; the next one begins where it ends, at any byte, and the last  *)
(* header marks the end.  The first block says where that is.              *)
(***************************************************************************)
EXTENDS Integers, Sequences

CONSTANTS
  SIZE_64KB,       \* size of the memory, small
  LargestData,     \* 0xFFF8 - sizeof (EFI_HOB_GUID_TYPE), small
  Guids,           \* names of GUID blocks, owners and volumes
  DataLengths,     \* lengths of the data of a GUID block
  NULL

VARIABLES
  memory,          \* offset of a header -> the block there; no other bytes matter
  endOfHobList,    \* EfiEndOfHobList of the first block; NULL: gHobPointer is NULL
  built,           \* the blocks that were asked for, as they were filled
  call             \* the last search, and whether an assertion failed

vars == << memory, endOfHobList, built, call >>

Idle    == [is |-> "idle"]
Failed  == [is |-> "assert"]
Header  == 8                          \* sizeof (EFI_HOB_GENERIC_HEADER)
HandOff == 56                         \* sizeof (EFI_HOB_HANDOFF_INFO_TABLE)
GuidHob == 24                         \* sizeof (EFI_HOB_GUID_TYPE)
Zero    == "zero"                     \* a GUID of zeros

Block(type, length, contents) == [type |-> type, length |-> length, contents |-> contents]
EndMark == Block("END_OF_HOB_LIST", Header, << >>)

Init ==
  /\ memory = << >>
  /\ endOfHobList = NULL
  /\ built = << >>
  /\ call = Idle

(* gHobPointer and EfiEndOfHobList once the memory is there. *)
InitHobPointer ==
  [ memory |-> [ at \in {0, HandOff} |->
                   IF at = 0 THEN Block("HANDOFF", HandOff, <<"FULL_CONFIGURATION">>) ELSE EndMark ],
    end |-> HandOff ]

(* The list a building function finds: the one there is, or a new one. *)
List == IF endOfHobList = NULL THEN InitHobPointer ELSE [memory |-> memory, end |-> endOfHobList]

(* The block over the end mark, and a new mark behind it. *)
Extended(block) ==
  [ at \in DOMAIN List.memory \cup {List.end + block.length} |->
      CASE at = List.end -> block
        [] at = List.end + block.length -> EndMark
        [] OTHER -> List.memory[at] ]

Built(type, length, contents) ==
  /\ memory' = Extended(Block(type, length, contents))
  /\ endOfHobList' = List.end + length
  /\ built' = Append(built, [type |-> type, contents |-> contents])
  /\ call' = Idle

InternalPeiCreateHob_NoRoomForEnd(type, length, contents) ==
  /\ call.is # "assert"
  /\ List.end + length <= SIZE_64KB
  /\ Built(type, length, contents)

(* A header is written over what was there; no earlier block is touched. *)
InternalPeiCreateHob(type, length, contents) ==
  /\ call.is # "assert"
  /\ IF List.end + Header + length > SIZE_64KB
       THEN /\ call' = Failed
            /\ memory' = List.memory
            /\ endOfHobList' = List.end
            /\ UNCHANGED built
       ELSE Built(type, length, contents)

BuildModuleHob ==
  \E guid \in Guids : InternalPeiCreateHob("MEMORY_ALLOCATION", 72, <<"module", guid>>)

BuildResourceDescriptorWithOwnerHob ==
  \E guid \in Guids : InternalPeiCreateHob("RESOURCE_DESCRIPTOR", 48, <<guid>>)

BuildResourceDescriptorHob == InternalPeiCreateHob("RESOURCE_DESCRIPTOR", 48, <<Zero>>)

BuildGuidHob(guid, length, data) ==
  IF length > LargestData
    THEN /\ call.is # "assert"
         /\ call' = Failed
         /\ UNCHANGED << memory, endOfHobList, built >>
    ELSE InternalPeiCreateHob("GUID_EXTENSION", GuidHob + length, <<guid, data>>)

(* The data is the caller's to fill in; a name is no GUID block's data. *)
BuildEmptyGuidHob ==
  \E guid \in Guids, length \in DataLengths : BuildGuidHob(guid, length, "unset")

BuildGuidDataHob ==
  \E guid \in Guids, length \in DataLengths : BuildGuidHob(guid, length, "data")

BuildFvHob == InternalPeiCreateHob("FV", 24, << >>)
BuildFv2Hob == \E guid \in Guids : InternalPeiCreateHob("FV2", 56, <<guid>>)
BuildFv3Hob ==
  \/ InternalPeiCreateHob("FV3", 64, <<"not extracted">>)
  \/ \E guid \in Guids : InternalPeiCreateHob("FV3", 64, <<guid>>)
BuildCvHob == InternalPeiCreateHob("UEFI_CAPSULE", 24, << >>)
BuildCpuHob == InternalPeiCreateHob("CPU", 16, << >>)
BuildStackHob == InternalPeiCreateHob("MEMORY_ALLOCATION", 48, <<"stack", "BootServicesData">>)
BuildBspStoreHob == InternalPeiCreateHob("MEMORY_ALLOCATION", 48, <<"bsp store">>)
BuildMemoryAllocationHob == InternalPeiCreateHob("MEMORY_ALLOCATION", 48, <<Zero>>)

(***************************************************************************)
(* Searches.  From a header on, block after block, to the end mark.        *)
(***************************************************************************)
GetHobList == IF endOfHobList = NULL THEN NULL ELSE 0

GetNextHob(type, start) ==
  LET from[at \in DOMAIN memory] ==
        CASE memory[at].type = "END_OF_HOB_LIST" -> NULL
          [] memory[at].type = type -> at
          [] OTHER -> from[at + memory[at].length]
  IN  from[start]

GetNextGuidHob(guid, start) ==
  LET from[at \in DOMAIN memory] ==
        LET hob == GetNextHob("GUID_EXTENSION", at)
        IN  CASE hob = NULL -> NULL
              [] hob # NULL /\ memory[hob].contents[1] = guid -> hob
              [] OTHER -> from[hob + memory[hob].length]
  IN  from[start]

Types == {"HANDOFF", "MEMORY_ALLOCATION", "GUID_EXTENSION", "CPU", "RESOURCE_DESCRIPTOR"}

Answer(what, start, found) ==
  call' = IF start = NULL THEN Failed
          ELSE [is |-> "search", what |-> what, start |-> start, found |-> found]

Searching == call.is # "assert" /\ UNCHANGED << memory, endOfHobList, built >>

(* The search for the next block begins where one of its kind was found, or behind it. *)
GetFirstHob ==
  /\ Searching
  /\ \E type \in Types :
       Answer(<<type>>, GetHobList, IF GetHobList = NULL THEN NULL ELSE GetNextHob(type, GetHobList))

GetFirstGuidHob ==
  /\ Searching
  /\ \E guid \in Guids :
       Answer(<<"GUID_EXTENSION", guid>>, GetHobList,
              IF GetHobList = NULL THEN NULL ELSE GetNextGuidHob(guid, GetHobList))

FindNext ==
  /\ Searching
  /\ call.is = "search" /\ call.found # NULL
  /\ LET behind == call.found + memory[call.found].length
     IN  Answer(call.what, behind,
                IF Len(call.what) = 1 THEN GetNextHob(call.what[1], behind)
                ELSE GetNextGuidHob(call.what[2], behind))

(* The boot mode is the first block's; its memory is made when there is none. *)
GetBootModeHob ==
  /\ call.is # "assert"
  /\ memory' = List.memory /\ endOfHobList' = List.end
  /\ call' = [is |-> "boot mode", found |-> List.memory[0].contents]
  /\ UNCHANGED built

Build ==
  \/ BuildModuleHob \/ BuildResourceDescriptorWithOwnerHob \/ BuildResourceDescriptorHob
  \/ BuildEmptyGuidHob \/ BuildGuidDataHob \/ BuildFvHob \/ BuildFv2Hob \/ BuildFv3Hob
  \/ BuildCvHob \/ BuildCpuHob \/ BuildStackHob \/ BuildBspStoreHob \/ BuildMemoryAllocationHob

Next == Build \/ GetFirstHob \/ GetFirstGuidHob \/ FindNext \/ GetBootModeHob
Spec == Init /\ [][Next]_vars
--------------------------------------------------------------------------------
(* The offsets a reader of the list comes by, one length behind the other. *)
Visited ==
  LET upTo[n \in 0 .. Len(built) + 1] ==
        IF n = 0 THEN <<0>>
        ELSE LET last == upTo[n - 1][n] IN Append(upTo[n - 1], last + memory[last].length)
  IN  upTo[Len(built) + 1]

(***************************************************************************)
(* A reader of the list meets the blocks that were built, all of them, in  *)
(* their order and with their contents, then the end mark, which is where  *)
(* the first block says and inside the memory (HobLibHost.c:263 to 278).   *)
(***************************************************************************)
ListExact ==
  endOfHobList # NULL =>
    /\ \A i \in 1 .. Len(built) :
         LET hob == memory[Visited[i + 1]]
         IN  [type |-> hob.type, contents |-> hob.contents] = built[i]
    /\ memory[Visited[Len(built) + 2]] = EndMark
    /\ Visited[Len(built) + 2] = endOfHobList
    /\ endOfHobList + Header <= SIZE_64KB

(***************************************************************************)
(* A search finds the first block of its kind that is not before its       *)
(* start, and nothing when there is none (HobLibHost.c:68, 133).           *)
(***************************************************************************)
SearchesExact ==
  call.is = "search" =>
    LET all == { Visited[i] : i \in 1 .. Len(Visited) }
        hits == { at \in all : /\ at >= call.start
                               /\ memory[at].type = call.what[1]
                               /\ Len(call.what) = 2 => memory[at].contents[1] = call.what[2] }
    IN  IF hits = {} THEN call.found = NULL
        ELSE call.found \in hits /\ \A at \in hits : call.found <= at

HobsExact == ListExact /\ SearchesExact
================================================================================
