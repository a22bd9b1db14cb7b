-------------------------------- MODULE Locate --------------------------------
(***************************************************************************)
(* The services that look things up in the handle and protocol database:   *)
(* UefiBootServicesTableLibHost/Locate.c and the two lists Handle.c hands  *)
(* out.  The SMM core has the same code in SmmServicesTableLibHost.        *)
(*                                                                         *)
(* A search numbers itself, and marks with its number the handles it has   *)
(* returned, so that none is returned twice.  Each call here runs with the *)
(* database lock held, except that CoreLocateHandleBuffer calls            *)
(* CoreLocateHandle twice and allocates in between.                        *)
(***************************************************************************)
EXTENDS HandleDatabase

CONSTANTS
  MaxRequests,   \* bound: searches made
  Rooms          \* the buffer sizes callers give, in handles

ASSUME RoomsAssumption == Rooms \subseteq Nat

VARIABLES
  mEfiLocateHandleRequest, \* the number of the last search
  locateRequest,           \* IHANDLE.LocateRequest
  found                    \* what the last lookup returned

locatevars == << mEfiLocateHandleRequest, locateRequest, found >>

AllHandles == "AllHandles"
ByRegisterNotify == "ByRegisterNotify"
ByProtocol == "ByProtocol"

Answer(service, key, status, list, size) ==
  [service |-> service, key |-> key, status |-> status, list |-> list, size |-> size]

NothingFound == Answer("none", "none", "NONE", << >>, 0)

LocateInit ==
  /\ mEfiLocateHandleRequest = 0
  /\ locateRequest = [h \in Handles |-> 0]
  /\ found = NothingFound

(* AllocateZeroPool: a new handle carries the number zero.                 *)
HandlesCreated ==
  /\ locateRequest' =
       [h \in Handles |-> IF h \in handles' \ handles THEN 0 ELSE locateRequest[h]]
  /\ found' = NothingFound
  /\ UNCHANGED mEfiLocateHandleRequest

-----------------------------------------------------------------------------
(* The CORE_GET_NEXT functions, each run until it returns no handle: the   *)
(* handles in order, and the marks the search leaves behind.               *)

CoreGetNextLocateAllHandles ==
  [list |-> SetToSeq(handles), marks |-> locateRequest]

(* It forgets its key at once, so there is never a second one.             *)
CoreGetNextLocateByRegisterNotify(r) ==
  [list |-> IF HasNext(r) THEN << prot[NextInterface(r)].handle >> ELSE << >>,
   marks |-> locateRequest]

(* One link of the list: a handle with the number of this search has been  *)
(* returned already.                                                       *)
Visit(number, search, h) ==
  IF search.marks[h] = number THEN search
  ELSE [list |-> Append(search.list, h), marks |-> [search.marks EXCEPT ![h] = number]]

CoreGetNextLocateByProtocol(g) ==
  FoldLeft(LAMBDA search, i : Visit(mEfiLocateHandleRequest + 1, search, prot[i].handle),
           [list |-> << >>, marks |-> locateRequest], byProtocol[g])

(* The search a caller asks for; none when the GUID has no entry.          *)
Searching(type, key) ==
  CASE type = AllHandles -> CoreGetNextLocateAllHandles
    [] type = ByRegisterNotify -> CoreGetNextLocateByRegisterNotify(key)
    [] type = ByProtocol -> IF key \in entries THEN CoreGetNextLocateByProtocol(key)
                            ELSE [list |-> << >>, marks |-> locateRequest]

Searched(type, key) ==
  mEfiLocateHandleRequest' =
    mEfiLocateHandleRequest + (IF type = ByProtocol /\ key \notin entries THEN 0 ELSE 1)

FirstOf(list, n) == SubSeq(list, 1, IF Len(list) < n THEN Len(list) ELSE n)

Status(list, room) ==
  CASE list = << >> -> "NOT_FOUND"
    [] list # << >> /\ Len(list) > room -> "BUFFER_TOO_SMALL"
    [] OTHER -> "SUCCESS"

StepsOn_WheneverFound(type, status) == type = ByRegisterNotify /\ status # "NOT_FOUND"
StepsOn(type, status) == type = ByRegisterNotify /\ status = "SUCCESS"

(* Whether the position moves is the code's decision; whether the client   *)
(* has seen the interface depends on what it was given.                    *)
Deliver(type, key, steps) ==
  /\ notify' = IF steps THEN [notify EXCEPT ![key].position = NextInterface(key)] ELSE notify
  /\ delivered' = IF type = ByRegisterNotify /\ found'.list # << >>
                  THEN [delivered EXCEPT ![key] = @ \cup {NextInterface(key)}] ELSE delivered
  /\ UNCHANGED << handles, handleProtocols, entries, byProtocol, prot, openList,
                  openListCount >>

(* The handles go into the buffer as far as there is room; the size tells  *)
(* how many there are.  The position of a registration moves only when the *)
(* handle was handed out.                                                  *)
CoreLocateHandle(type, key, room) ==
  LET list == Searching(type, key).list
      status == Status(list, room)
  IN  /\ Searched(type, key)
      /\ locateRequest' = Searching(type, key).marks
      /\ found' = Answer(type, key, status,
                         FirstOf(list, room), Len(list))
      /\ Deliver(type, key, StepsOn(type, status))

(* The first call asks for the size with no buffer, the second one fills a *)
(* buffer of just that size; or the allocation in between fails.  The two  *)
(* searches share a number here: only whether a mark is that of the search *)
(* under way is ever looked at.                                            *)
CoreLocateHandleBuffer(type, key) ==
  LET size == Len(Searching(type, key).list) IN
  \/ CoreLocateHandle(type, key, size)
  \/ /\ size > 0
     /\ Searched(type, key)
     /\ locateRequest' = Searching(type, key).marks
     /\ found' = Answer(type, key, "OUT_OF_RESOURCES", << >>, 0)
     /\ UNCHANGED dbvars

(* The first interface of the GUID, or the next one of a registration.     *)
CoreLocateProtocol(type, key) ==
  LET list == Searching(type, key).list IN
  /\ type # AllHandles
  /\ Searched(type, key)
  /\ locateRequest' = IF type = ByProtocol /\ list # << >>
                      THEN [locateRequest EXCEPT ![list[1]] = mEfiLocateHandleRequest + 1]
                      ELSE locateRequest
  /\ found' = Answer("LocateProtocol", key, IF list = << >> THEN "NOT_FOUND" ELSE "SUCCESS",
                     FirstOf(list, 1), Len(list))
  /\ Deliver(type, key, type = ByRegisterNotify /\ list # << >>)

(* CoreOpenProtocolInformation copies the open list into an array of       *)
(* OpenListCount entries.                                                  *)
CoreOpenProtocolInformation(h, g) ==
  /\ found' \in
       IF Lookup(h, g) = {}
       THEN { Answer("OpenInformation", << h, g >>, "NOT_FOUND", << >>, 0) }
       ELSE { Answer("OpenInformation", << h, g >>, "SUCCESS", SetToSeq(openList[i]),
                     openListCount[i]) : i \in Lookup(h, g) }
            \cup { Answer("OpenInformation", << h, g >>, "OUT_OF_RESOURCES", << >>, 0) }
  /\ UNCHANGED << dbvars, mEfiLocateHandleRequest, locateRequest >>

(* CoreProtocolsPerHandle: the GUIDs of a live handle.                     *)
CoreProtocolsPerHandle(h) ==
  LET guids == SetToSeq(handleProtocols[h]) IN
  /\ found' \in
       IF h \notin handles
       THEN { Answer("Protocols", h, "INVALID_PARAMETER", << >>, 0) }
       ELSE { Answer("Protocols", h, "SUCCESS", [k \in DOMAIN guids |-> prot[guids[k]].protocol],
                     Len(guids)),
              Answer("Protocols", h, "OUT_OF_RESOURCES", << >>, 0) }
  /\ UNCHANGED << dbvars, mEfiLocateHandleRequest, locateRequest >>

-----------------------------------------------------------------------------
Searches == ({AllHandles} \X {NULL}) \cup ({ByProtocol} \X Protocols)
              \cup ({ByRegisterNotify} \X Registered)

Lookups ==
  \/ /\ mEfiLocateHandleRequest < MaxRequests
     /\ \E s \in Searches :
          \/ \E room \in Rooms : CoreLocateHandle(s[1], s[2], room)
          \/ CoreLocateHandleBuffer(s[1], s[2])
          \/ CoreLocateProtocol(s[1], s[2])
  \/ \E h \in Handles, g \in Protocols : CoreOpenProtocolInformation(h, g)
  \/ \E h \in Handles : CoreProtocolsPerHandle(h)

Changes == DBNext /\ HandlesCreated

LocateSpec == DBInit /\ LocateInit /\ [][Lookups \/ Changes]_<< dbvars, locatevars >>

-----------------------------------------------------------------------------
HandlesWith(g) == { h \in handles : Lookup(h, g) # {} }

Holders(service, key) == IF service = AllHandles THEN handles ELSE HandlesWith(key)

(* A successful search returns every handle it is about, and each once:    *)
(* the marks of earlier searches, on handles that have been freed and      *)
(* allocated since, hide none, and an interface is counted once for its    *)
(* handle.  A search with too little room tells how much is needed.        *)
SearchesComplete ==
  found.service \in {AllHandles, ByProtocol} =>
    LET holders == Holders(found.service, found.key) IN
    /\ found.status = "SUCCESS" =>
         IsInjective(found.list) /\ ToSet(found.list) = holders
    /\ found.status \in {"SUCCESS", "BUFFER_TOO_SMALL"} => found.size = Cardinality(holders)
    /\ found.status = "NOT_FOUND" => holders = {}

(* The arrays handed out have exactly as many elements as their size says. *)
ArraysFit ==
  found.service \in {"OpenInformation", "Protocols"} =>
    /\ Len(found.list) = found.size
    /\ found.service = "Protocols" => IsInjective(found.list)

(* No lookup loses a notification: what a registration was handed is       *)
(* exactly what lies behind its position, also when the buffer was too     *)
(* small or could not be allocated (Locate.c:239, 680).                    *)
LookupsExact == SearchesComplete /\ ArraysFit /\ DeliveredOnce
================================================================================
