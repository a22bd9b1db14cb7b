---------------------------- MODULE VariableFormat ----------------------------
(***************************************************************************)
(* Variable.c and Variable.h: variables in a region of non-volatile        *)
(* memory, one behind the other: a header of one of three formats, the     *)
(* name, the data, and the next header at a multiple of HEADER_ALIGNMENT.  *)
(* What was not written yet is erased (all ones), and ends the list.  The  *)
(* caller writes a variable where GetVariableVar found room for it.        *)
(***************************************************************************)
EXTENDS Integers, Sequences, FiniteSets, SequencesExt, TLC

CONSTANTS
  VariableTypes,        \* formats of headers; "unknown" is no format
  Names, Guids,         \* names, as [id, size]; GUIDs
  DataSizes,
  StoreSizes,           \* VARIABLE_STORE_HEADER.Size
  NULL

VARIABLES
  size, type,           \* size of the region, and its format
  memory,               \* offset -> header and name; other places are erased
  written,              \* the variables the caller wrote, in their order
  call                  \* the last lookup or search for room

vars == << size, type, memory, written, call >>

StoreHeader == 28       \* sizeof (VARIABLE_STORE_HEADER)
Idle == [is |-> "idle"]
Erased == [startId |-> "erased", state |-> "erased"]
HEADER_ALIGN(n) == ((n + 3) \div 4) * 4

GetStartPointer == HEADER_ALIGN(StoreHeader)
GetEndPointer   == HEADER_ALIGN(size)

SizeOfVariableHeader(t) ==
  CASE t = "Normal" -> 32 [] t = "CountBasedAuth" -> 44 [] t = "TimeBasedAuth" -> 60 [] OTHER -> 0

At(v) == IF v \in DOMAIN memory THEN memory[v] ELSE Erased

IsValidVariableHeader(v)   == At(v).startId = "VARIABLE_DATA"
Known(t)                   == SizeOfVariableHeader(t) # 0
NameSizeOfVariable(v, t)   == IF Known(t) /\ At(v).state # "erased" THEN At(v).name.size ELSE 0
DataSizeOfVariable(v, t)   == IF Known(t) /\ At(v).state # "erased" THEN At(v).dataSize ELSE 0
GetVariableNamePtr(v, t)   == IF Known(t) THEN v + SizeOfVariableHeader(t) ELSE NULL
GetVariableDataPtr(v, t)   == GetVariableNamePtr(v, t) + NameSizeOfVariable(v, t)
GetVariableGuidPtr(v, t)   == IF Known(t) THEN v ELSE NULL

GetNextVariablePtr(v, t) ==
  IF IsValidVariableHeader(v) THEN HEADER_ALIGN(GetVariableDataPtr(v, t) + DataSizeOfVariable(v, t))
  ELSE NULL

(* The places from v on, to the end or to the first that is no variable. *)
Chain ==
  LET from[n \in 0 .. Cardinality(DOMAIN memory)] ==
        IF n = 0 THEN <<GetStartPointer>>
        ELSE LET before == from[n - 1]
                 last   == before[Len(before)]
             IN  IF last = GetEndPointer \/ ~IsValidVariableHeader(last) THEN before
                 ELSE Append(before, GetNextVariablePtr(last, type))
  IN  from[Cardinality(DOMAIN memory)]

ChainEnd == Chain[Len(Chain)]

(* The place of the first variable that is not one, if the list fits there. *)
GetVariableVar(listSize) ==
  LET free  == ChainEnd # GetEndPointer            \* Flag
      begin == IF free THEN ChainEnd ELSE 0        \* else the one before: no matter
  IN  IF ~free \/ begin + listSize > GetEndPointer THEN [status |-> "BUFFER_TOO_SMALL", at |-> NULL]
      ELSE [status |-> "SUCCESS", at |-> begin]

FindVariableInNv_DeletedToo(name, guid) ==
  LET hits == { i \in 1 .. Len(Chain) :
                  /\ Chain[i] # GetEndPointer /\ At(Chain[i]).startId # "erased"
                  /\ At(Chain[i]).guid = guid /\ At(Chain[i]).name = name }
  IN  IF hits = {} THEN NULL ELSE Chain[CHOOSE i \in hits : \A j \in hits : i <= j]

FindVariableInNv(name, guid) ==
  LET hits == { i \in 1 .. Len(Chain) :
                  /\ Chain[i] # GetEndPointer
                  /\ GetVariableGuidPtr(Chain[i], type) # NULL
                  /\ At(Chain[i]).state = "VAR_ADDED"
                  /\ At(Chain[i]).guid = guid /\ At(Chain[i]).name = name }
  IN  IF hits = {} THEN NULL ELSE Chain[CHOOSE i \in hits : \A j \in hits : i <= j]

(* The end of what a lookup reads: every header it comes to, also one that *)
(* is erased, up to the GUID behind its other fields.                      *)
ReadEnd(name, guid) ==
  LET found == FindVariableInNv(name, guid)
      seen  == { v \in ToSet(Chain) \ {GetEndPointer} :
                   GetVariableGuidPtr(v, type) # NULL /\ (found # NULL => v <= found) }
  IN  Max({GetStartPointer} \cup { v + SizeOfVariableHeader(type) : v \in seen })

(* SetVariableGuid, -Name, -NameSize, -Data, -DataSize and -Attributes at a place. *)
SetVariable(v, name, guid, dataSize) ==
  memory' = (v :> [ startId |-> "VARIABLE_DATA", state |-> "VAR_ADDED",
                    name |-> name, guid |-> guid, dataSize |-> dataSize ]) @@ memory

Init ==
  /\ size \in StoreSizes
  /\ type \in VariableTypes
  /\ memory = << >> /\ written = << >> /\ call = Idle

Write ==
  \E name \in Names, guid \in Guids, dataSize \in DataSizes :
    LET listSize == SizeOfVariableHeader(type) + name.size + dataSize
        room     == GetVariableVar(listSize)
    IN  /\ Known(type)
        /\ call' = [is |-> "room", size |-> listSize, status |-> room.status, was |-> written]
        /\ IF room.status # "SUCCESS" THEN UNCHANGED << memory, written >>
           ELSE /\ SetVariable(room.at, name, guid, dataSize)
                /\ written' = Append(written, [ at |-> room.at, size |-> listSize, name |-> name,
                                                guid |-> guid, deleted |-> FALSE ])
        /\ UNCHANGED << size, type >>

(* A caller deletes a variable by its state. *)
Delete ==
  \E i \in 1 .. Len(written) :
    /\ ~written[i].deleted
    /\ memory' = [memory EXCEPT ![written[i].at].state = "VAR_DELETED"]
    /\ written' = [written EXCEPT ![i].deleted = TRUE]
    /\ call' = Idle
    /\ UNCHANGED << size, type >>

Find ==
  \E name \in Names, guid \in Guids :
    /\ call' = [is |-> "find", name |-> name, guid |-> guid, found |-> FindVariableInNv(name, guid),
                readEnd |-> ReadEnd(name, guid)]
    /\ UNCHANGED << size, type, memory, written >>

Next == Write \/ Delete \/ Find
Spec == Init /\ [][Next]_vars
--------------------------------------------------------------------------------
(* The aligned end of the last of some variables.                          *)
Used(variables) ==
  IF variables = << >> THEN GetStartPointer
  ELSE LET last == variables[Len(variables)] IN HEADER_ALIGN(last.at + last.size)

(***************************************************************************)
(* No variable lies over another one or over the end of the region, a      *)
(* lookup finds the first variable with the name and GUID that was not     *)
(* deleted, and room is refused only when what is left, up to the aligned  *)
(* end, is too small (Variable.c:419 and 482).  A lookup reads behind the  *)
(* end of the region (:529) only when it finds nothing and what is left is *)
(* smaller than a header.                                                  *)
(***************************************************************************)
StoreExact ==
  /\ \A i \in 1 .. Len(written) :
       /\ written[i].at + written[i].size <= GetEndPointer
       /\ i > 1 => written[i - 1].at + written[i - 1].size <= written[i].at
  /\ call.is = "find" =>
       LET hits == { i \in 1 .. Len(written) : /\ written[i].name = call.name
                                               /\ written[i].guid = call.guid
                                               /\ ~written[i].deleted }
       IN  call.found = IF hits = {} THEN NULL
                        ELSE written[CHOOSE i \in hits : \A j \in hits : i <= j].at
  /\ call.is = "find" /\ call.readEnd > GetEndPointer =>
       call.found = NULL /\ Used(written) + SizeOfVariableHeader(type) > GetEndPointer
  /\ call.is = "room" /\ call.status # "SUCCESS" =>
       Used(call.was) + call.size > GetEndPointer
================================================================================
