------------------------------ MODULE SmmDatabase ------------------------------
(***************************************************************************)
(* The SMM protocol database of Host/SmmServicesTableLibHost: the same     *)
(* structures as the database of the boot services, with no lock and no    *)
(* open lists, but with notification functions that run in the middle of   *)
(* SmmInstallProtocolInterface and may call the services themselves; and   *)
(* the table of configuration tables.  Calls that nest are frames of a     *)
(* stack.  A PROTOCOL_NOTIFY keeps its function where the other database   *)
(* keeps an event.                                                         *)
(***************************************************************************)
EXTENDS Locate

CONSTANTS
  Tables,    \* tables that are installed under a GUID
  TableStep, \* CONFIG_TABLE_SIZE_INCREASED
  MaxCalls,  \* bound: services called
  MaxDepth   \* bound: notification functions running at a time

VARIABLES
  functions,    \* PROTOCOL_ENTRY.Notify of every GUID, in list order
  running,      \* stack of SmmNotifyProtocol: Prot, ProtEntry and Link
  freedRead,    \* history: what the walks have read of memory that was freed
  due,          \* history: who must still be told of which interface
  told,         \* history: how often who was told of which interface
  tables,       \* SmmConfigurationTable, NumberOfTableEntries of it
  believedSize, \* mSmmSystemTableAllocateSize
  size,         \* how large the block is that was allocated for the table
  calls         \* services called

smmvars ==
  << functions, running, freedRead, due, told, tables, believedSize, size, calls >>

ASSUME RegistrationsAssumption == NULL \notin Registrations \cup Prots
                                  /\ ListHead \notin Registrations

SmmInit ==
  /\ DBInit /\ LocateInit
  /\ functions = [g \in Protocols |-> << >>]
  /\ running = << >> /\ freedRead = {}
  /\ due = {}
  /\ told = [x \in Registrations \X Prots |-> 0]
  /\ tables = << >> /\ believedSize = 0 /\ size = 0
  /\ calls = 0

(* A service is called by a driver or by the function that is running. *)
Call == calls < MaxCalls /\ calls' = calls + 1

TableUnchanged    == UNCHANGED << tables, believedSize, size >>
NotifyingUnchanged    == UNCHANGED << running, freedRead, due, told >>
DatabaseUnchanged == UNCHANGED << dbvars, functions >> /\ NotifyingUnchanged

(* CompareGuid finds the entry of a GUID; SmmFindProtocolEntry creates it  *)
(* when it is told to.                                                     *)
SmmFindProtocolEntry(g, create) ==
  entries' = IF create THEN entries \cup {g} ELSE entries

SmmFindProtocolInterface(h, g, x) == Find(h, g, x)
SmmGetProtocolInterface(h, g)     == Lookup(h, g)
--------------------------------------------------------------------------------
(***************************************************************************)
(* SmmNotifyProtocol calls the functions registered for the GUID one after *)
(* the other and follows the link of the last one only when it returned.   *)
(* A pointer of its frame is NULL once what it points at has been freed.   *)
(***************************************************************************)
Tell(r, i) ==
  /\ told' = [told EXCEPT ![<< r, i >>] = IF @ = 2 THEN 2 ELSE @ + 1]
  /\ due'  = due \ {<< r, i >>}

SmmNotifyProtocol(i, g) ==
  IF functions[g] = << >> THEN NotifyingUnchanged
  ELSE /\ running' = Append(running, [prot |-> i, entry |-> g, link |-> functions[g][1]])
       /\ told' = [told EXCEPT ![<< functions[g][1], i >>] = IF @ = 2 THEN 2 ELSE @ + 1]
       /\ due'  = due \cup { << functions[g][k], i >> : k \in 2 .. Len(functions[g]) }
       /\ UNCHANGED freedRead

InterfaceFreed(i) ==
  running' = [k \in DOMAIN running |->
                IF running[k].prot = i THEN [running[k] EXCEPT !.prot = NULL] ELSE running[k]]

RecordFreed(r) ==
  running' = [k \in DOMAIN running |->
                IF running[k].link = r THEN [running[k] EXCEPT !.link = NULL] ELSE running[k]]

(* Where ForwardLink leads.  That of a freed record is what it was, or     *)
(* what the next owner of the memory wrote: a record of the list, its end, *)
(* or something that is no record.                                         *)
Successors(f) ==
  LET list == functions[f.entry]
      k    == IndexOf(list, f.link)
  IN  IF f.link = NULL THEN ToSet(list) \cup {ListHead, NULL}
      ELSE {IF k = Len(list) THEN ListHead ELSE list[k + 1]}

FreedReads(f, next) ==
  (IF f.link = NULL THEN {"link"} ELSE {}) \cup
  (IF next = NULL THEN {"record"} ELSE {}) \cup
  (IF next # ListHead /\ f.prot = NULL THEN {"interface"} ELSE {})

(* The function that runs returns; the next one on the list is called.     *)
NotifyReturns ==
  /\ running # << >>
  /\ LET f    == Last(running)
         rest == SubSeq(running, 1, Len(running) - 1)
     IN  \E next \in Successors(f) :
           /\ running' = IF next = ListHead THEN rest
                         ELSE Append(rest, [f EXCEPT !.link = next])
           /\ freedRead' = freedRead \cup FreedReads(f, next)
           /\ IF next \in Registrations /\ f.prot # NULL
                THEN Tell(next, f.prot) ELSE UNCHANGED << due, told >>
  /\ UNCHANGED << dbvars, locatevars, functions, calls >>
  /\ TableUnchanged
--------------------------------------------------------------------------------
(* SmmHandleProtocol: the interface of g on h, if there is one. *)
SmmHandleProtocol(h, g) == { prot[i].interface : i \in SmmGetProtocolInterface(h, g) }

(* h is live, or the address the new handle gets. *)
SmmInstallProtocolInterface ==
  \E h \in Handles, g \in Protocols, x \in Interfaces, i \in Prots :
    /\ Call
    /\ Len(running) < MaxDepth
    /\ SmmHandleProtocol(h, g) = {}
    /\ LinkInterface(h, g, x, i)
    /\ HandlesCreated
    /\ SmmNotifyProtocol(i, g)
    /\ UNCHANGED functions
    /\ TableUnchanged

SmmRemoveInterfaceFromProtocol_NoBackUp(i) ==
  /\ notify' = notify
  /\ Forget(i)
  /\ byProtocol' = [byProtocol EXCEPT ![prot[i].protocol] = WithoutInterface(@, i)]

(* SmmRemoveInterfaceFromProtocol: the registrations that stand on the     *)
(* interface back up, then it leaves the list of its GUID.                 *)
SmmRemoveInterfaceFromProtocol(i) ==
  /\ BackUpPositions(i)
  /\ Forget(i)
  /\ byProtocol' = [byProtocol EXCEPT ![prot[i].protocol] = WithoutInterface(@, i)]

(* The interface may be one of which functions are being told.             *)
SmmUninstallProtocolInterface ==
  \E h \in Handles, g \in Protocols, x \in Interfaces :
    \E i \in SmmFindProtocolInterface(h, g, x) :
      /\ Call
      /\ SmmRemoveInterfaceFromProtocol(i)
      /\ handleProtocols' = [handleProtocols EXCEPT ![h] = @ \ {i}]
      /\ prot' = [prot EXCEPT ![i] = NULL]
      /\ handles' = IF LastInterface(i) THEN handles \ {h} ELSE handles
      /\ HandlesCreated
      /\ UNCHANGED << entries, openList, openListCount >>
      /\ told' = [y \in DOMAIN told |-> IF y[2] = i THEN 0 ELSE told[y]]
      /\ due' = { y \in due : y[2] # i }
      /\ InterfaceFreed(i)
      /\ UNCHANGED << functions, freedRead >>
      /\ TableUnchanged

NotifyOf(g, f) == { r \in Registered : notify[r].protocol = g /\ notify[r].event = f }

(* A new registration stands behind everything installed so far. *)
SmmRegisterProtocolNotify ==
  \E g \in Protocols, f \in Events, r \in Registrations :
    LET list == byProtocol[g]
    IN  /\ Call
        /\ notify[r] = NULL
        /\ NotifyOf(g, f) = {}
        /\ SmmFindProtocolEntry(g, TRUE)
        /\ notify' = [notify EXCEPT ![r] =
                        [ protocol |-> g, event |-> f,
                          position |-> IF list = << >> THEN ListHead ELSE Last(list) ]]
        /\ delivered' = [delivered EXCEPT ![r] = ToSet(list)]
        /\ functions' = [functions EXCEPT ![g] = Append(@, r)]
        /\ UNCHANGED << handles, handleProtocols, byProtocol, prot, openList,
                        openListCount >>
        /\ NotifyingUnchanged
        /\ UNCHANGED locatevars
        /\ TableUnchanged

(* The record may be the one of the function that runs.                    *)
SmmUnregisterProtocolNotify ==
  \E r \in Registered :
    /\ Call
    /\ notify' = [notify EXCEPT ![r] = NULL]
    /\ delivered' = [delivered EXCEPT ![r] = {}]
    /\ functions' = [functions EXCEPT ![notify[r].protocol] = WithoutInterface(@, r)]
    /\ told' = [y \in DOMAIN told |-> IF y[1] = r THEN 0 ELSE told[y]]
    /\ due' = { y \in due : y[1] # r }
    /\ RecordFreed(r)
    /\ UNCHANGED << handles, handleProtocols, entries, byProtocol, prot, openList,
                    openListCount, freedRead >>
    /\ UNCHANGED locatevars
    /\ TableUnchanged

(* The searches are those of the boot services, copied.                    *)
SmmGetNextLocateAllHandles          == CoreGetNextLocateAllHandles
SmmGetNextLocateByRegisterNotify(r) == CoreGetNextLocateByRegisterNotify(r)
SmmGetNextLocateByProtocol(g)       == CoreGetNextLocateByProtocol(g)
SmmLocateHandle(type, key, room)    == CoreLocateHandle(type, key, room)
SmmLocateHandleBuffer(type, key)    == CoreLocateHandleBuffer(type, key)
SmmLocateProtocol(type, key)        == CoreLocateProtocol(type, key)

SmmLookups ==
  /\ Call
  /\ mEfiLocateHandleRequest < MaxRequests
  /\ \E s \in Searches :
       \/ \E room \in Rooms : SmmLocateHandle(s[1], s[2], room)
       \/ SmmLocateHandleBuffer(s[1], s[2])
       \/ SmmLocateProtocol(s[1], s[2])
  /\ UNCHANGED functions /\ NotifyingUnchanged
  /\ TableUnchanged
--------------------------------------------------------------------------------
(***************************************************************************)
(* SmmInstallConfigurationTable: replace, remove, or add; a new block is   *)
(* allocated when the old one is full, and its size is noted before it is  *)
(* known whether there is one.                                             *)
(***************************************************************************)
TableIndex(g) == { k \in DOMAIN tables : tables[k].guid = g }

ReplaceTable(g, t) ==
  \E k \in TableIndex(g) :
    /\ tables' = [tables EXCEPT ![k].table = t]
    /\ UNCHANGED << believedSize, size >>

RemoveTable(g) ==
  \E k \in TableIndex(g) :
    /\ tables' = RemoveAt(tables, k)
    /\ UNCHANGED << believedSize, size >>

AddTable(g, t) ==
  LET full == Len(tables) >= believedSize
      new  == believedSize + TableStep
  IN  /\ TableIndex(g) = {}
      /\ \/ /\ full            \* AllocatePool returns NULL
            /\ believedSize' = new
            /\ UNCHANGED << tables, size >>
         \/ /\ tables' = Append(tables, [guid |-> g, table |-> t])
            /\ believedSize' = IF full THEN new ELSE believedSize
            /\ size' = IF full THEN new ELSE size

SmmInstallConfigurationTable ==
  \E g \in Protocols :
    /\ Call
    /\ RemoveTable(g) \/ \E t \in Tables : ReplaceTable(g, t) \/ AddTable(g, t)
    /\ DatabaseUnchanged /\ UNCHANGED locatevars
--------------------------------------------------------------------------------
SmmNext ==
  \/ SmmInstallProtocolInterface \/ SmmUninstallProtocolInterface
  \/ SmmRegisterProtocolNotify \/ SmmUnregisterProtocolNotify
  \/ NotifyReturns
  \/ SmmLookups
  \/ SmmInstallConfigurationTable

SmmSpec == SmmInit /\ [][SmmNext]_<< dbvars, locatevars, smmvars >>
--------------------------------------------------------------------------------
(***************************************************************************)
(* When no function runs, every registration was told exactly once of      *)
(* every interface installed after it, whatever the functions installed,   *)
(* removed and registered in the meantime; none was ever told twice        *)
(* (Smm Notify.c:27, Handle.c:320).  Once a walk has read freed memory     *)
(* nothing more is known of who is told.                                   *)
(***************************************************************************)
EveryoneTold ==
  freedRead = {} =>
    /\ running = << >> => due = {}
    /\ \A x \in DOMAIN told : told[x] <= 1

(* The functions on the list of a GUID are the live ones registered for it. *)
FunctionsLive ==
  \A g \in Protocols :
    /\ ToSet(functions[g]) = { r \in Registered : notify[r].protocol = g }
    /\ IsInjective(functions[g])

(* A GUID has one table. *)
TablesDistinct == \A k, l \in DOMAIN tables : tables[k].guid = tables[l].guid => k = l

(***************************************************************************)
(* The list of a GUID, the handles and the lookups agree, whatever the     *)
(* functions do in the middle of an installation (Smm Notify.c:63,         *)
(* Locate.c:106).                                                          *)
(***************************************************************************)
SmmConsistent ==
  /\ ListsAgree /\ HandleLifetime /\ UniqueProtocol
  /\ PositionsLive /\ FunctionsLive /\ LookupsExact /\ EveryoneTold
  /\ TablesDistinct

(***************************************************************************)
(* "CR (Link, PROTOCOL_NOTIFY, Link, PROTOCOL_NOTIFY_SIGNATURE)" (Smm      *)
(* Notify.c:28) asserts that what the walk comes to is a live record.      *)
(***************************************************************************)
RecordsSigned == "record" \notin freedRead

(***************************************************************************)
(* "EFI_OUT_OF_RESOURCES There is not enough memory available to complete  *)
(* the operation" (InstallConfigurationTable.c:29): what is added lies in  *)
(* the block that was allocated for the table.                             *)
(***************************************************************************)
TableFits == Len(tables) <= size
================================================================================
