---------------------------- MODULE HandleDatabase ----------------------------
(***************************************************************************)
(* The handle and protocol database of the host boot services:             *)
(* UefiBootServicesTableLibHost/{Handle,Locate,Notify}.c.                  *)
(*                                                                         *)
(* A handle (IHANDLE) owns a list of interfaces (PROTOCOL_INTERFACE).      *)
(* Every interface is also linked on the list of its PROTOCOL_ENTRY, one   *)
(* entry per GUID, and carries the list of the agents that opened it       *)
(* (OPEN_PROTOCOL_DATA).  A PROTOCOL_NOTIFY record remembers with a        *)
(* pointer into the entry's list which interfaces its owner has seen.      *)
(*                                                                         *)
(* This module describes the database through the pieces of code that run  *)
(* with gProtocolDatabaseLock held: one action per piece.  Which service   *)
(* executes which pieces, in which order, and what happens while the lock  *)
(* is dropped, is the subject of BootServices.                             *)
(***************************************************************************)
EXTENDS Naturals, Sequences, FiniteSets, SequencesExt

CONSTANTS
  Handles,        \* addresses at which an IHANDLE can be allocated
  Prots,          \* addresses at which a PROTOCOL_INTERFACE can be allocated
  Protocols,      \* the GUIDs
  Interfaces,     \* the interface pointers given by clients
  Registrations,  \* addresses at which a PROTOCOL_NOTIFY can be allocated
  Events,         \* the events of the clients of RegisterProtocolNotify
  OpenModes,      \* the Attributes of OpenProtocol that agents use
  MaxOpens,       \* how many OPEN_PROTOCOL_DATA one interface has memory for
  MaxOpenCount,   \* bound on OPEN_PROTOCOL_DATA.OpenCount
  NULL,           \* no pointer, and the content of free memory
  ListHead        \* the address of PROTOCOL_ENTRY.Protocols itself

ASSUME NullAssumption == NULL \notin Handles
ASSUME ListHeadAssumption == ListHead \notin Prots
ASSUME BoundsAssumption == MaxOpens \in Nat /\ MaxOpenCount \in Nat

VARIABLES
  handles,         \* gHandleList
  handleProtocols, \* IHANDLE.Protocols of every handle
  entries,         \* the GUIDs that have a PROTOCOL_ENTRY in mProtocolDatabase
  byProtocol,      \* PROTOCOL_ENTRY.Protocols of every GUID, in list order
  prot,            \* the PROTOCOL_INTERFACE at every address, NULL when free
  openList,        \* PROTOCOL_INTERFACE.OpenList
  openListCount,   \* PROTOCOL_INTERFACE.OpenListCount
  notify,          \* the PROTOCOL_NOTIFY at every address, NULL when free
  delivered        \* history: the interfaces each registration has returned

dbvars == << handles, handleProtocols, entries, byProtocol, prot,
             openList, openListCount, notify, delivered >>

-----------------------------------------------------------------------------
(* The data types.                                                         *)

ByHandleProtocol  == "BY_HANDLE_PROTOCOL"
GetProtocol       == "GET_PROTOCOL"
TestProtocol      == "TEST_PROTOCOL"
ByChildController == "BY_CHILD_CONTROLLER"
ByDriver          == "BY_DRIVER"
Exclusive         == "EXCLUSIVE"

(* The values of Attributes that OpenProtocol accepts, as sets of bits.    *)
Attributes == { {ByHandleProtocol}, {GetProtocol}, {TestProtocol},
                {ByChildController}, {ByDriver}, {Exclusive},
                {ByDriver, Exclusive} }

ProtocolInterface ==
  [ handle : Handles, protocol : Protocols, interface : Interfaces ]

OpenIds == 1 .. MaxOpens

ASSUME OpenModesAssumption == OpenModes \subseteq Attributes

(* OPEN_PROTOCOL_DATA; id stands for its address.                          *)
OpenProtocolData ==
  [ id : OpenIds, agent : Handles, controller : Handles \cup {NULL},
    attributes : Attributes, count : Nat ]

ProtocolNotify ==
  [ protocol : Protocols, event : Events, position : Prots \cup {ListHead} ]

(* A structure in use can be told from free memory.                        *)
ASSUME FreeMemoryAssumption ==
  NULL \notin ProtocolInterface /\ NULL \notin ProtocolNotify

TypeOK ==
  /\ handles \subseteq Handles
  /\ handleProtocols \in [Handles -> SUBSET Prots]
  /\ entries \subseteq Protocols
  /\ byProtocol \in [Protocols -> Seq(Prots)]
  /\ prot \in [Prots -> ProtocolInterface \cup {NULL}]
  /\ openList \in [Prots -> SUBSET OpenProtocolData]
  /\ openListCount \in [Prots -> Nat]
  /\ notify \in [Registrations -> ProtocolNotify \cup {NULL}]
  /\ delivered \in [Registrations -> SUBSET Prots]

Allocated  == { i \in Prots : prot[i] # NULL }
Registered == { r \in Registrations : notify[r] # NULL }

-----------------------------------------------------------------------------
(* Queries made with the lock held.                                        *)

(* CoreGetProtocolInterface: the interface of protocol g on a live handle. *)
Lookup(h, g) ==
  { i \in handleProtocols[h] : h \in handles /\ prot[i].protocol = g }

(* CoreFindProtocolInterface: the same with a given interface pointer.     *)
Find(h, g, x) == { i \in Lookup(h, g) : prot[i].interface = x }

(* The place of element i in a list without duplicates, and the element    *)
(* before it (LIST_ENTRY.BackLink).                                        *)
IndexOf(s, i) == CHOOSE k \in DOMAIN s : s[k] = i
BackLink(s, i) == IF IndexOf(s, i) = 1 THEN ListHead ELSE s[IndexOf(s, i) - 1]

(* How many elements of the list are at or before position p, and which.   *)
PlaceOf(s, p) == IF p = ListHead THEN 0 ELSE IndexOf(s, p)
UpTo(s, k) == { s[j] : j \in 1 .. k }

PositionIndex(n) == PlaceOf(byProtocol[n.protocol], n.position)

-----------------------------------------------------------------------------
(* Pieces of code that change the database.                                *)

DBInit ==
  /\ handles = {}
  /\ handleProtocols = [h \in Handles |-> {}]
  /\ entries = {}
  /\ byProtocol = [g \in Protocols |-> << >>]
  /\ prot = [i \in Prots |-> NULL]
  /\ openList = [i \in Prots |-> {}]
  /\ openListCount = [i \in Prots |-> 0]
  /\ notify = [r \in Registrations |-> NULL]
  /\ delivered = [r \in Registrations |-> {}]

(* CoreFindProtocolEntry with Create: entries are never removed.           *)
CreateEntry(g) == entries' = entries \cup {g}

(* A failed install still leaves the PROTOCOL_ENTRY it created.            *)
OnlyCreateEntry(g) ==
  /\ CreateEntry(g)
  /\ UNCHANGED << handles, handleProtocols, byProtocol, prot, openList,
                  openListCount, notify, delivered >>

(* The locked part of CoreInstallProtocolInterfaceNotify that succeeds: h  *)
(* is a live handle or the one just allocated, i the new structure.  The   *)
(* notification itself is commented out in CoreNotifyProtocolEntry.        *)
LinkInterface(h, g, x, i) ==
  /\ prot[i] = NULL
  /\ CreateEntry(g)
  /\ handles' = handles \cup {h}
  /\ prot' = [prot EXCEPT ![i] =
                [handle |-> h, protocol |-> g, interface |-> x]]
  /\ openList' = [openList EXCEPT ![i] = {}]
  /\ openListCount' = [openListCount EXCEPT ![i] = 0]
  /\ handleProtocols' = [handleProtocols EXCEPT ![h] = @ \cup {i}]
  /\ byProtocol' = [byProtocol EXCEPT ![g] = Append(@, i)]
  /\ UNCHANGED << notify, delivered >>

(* Bugs this code could have: positions are forgotten, reset, or lost.     *)
BackUpPositions_ToHead(i) ==
  notify' = [r \in Registrations |->
               IF r \in Registered /\ notify[r].position = i
               THEN [notify[r] EXCEPT !.position = ListHead] ELSE notify[r]]
BackUpPositions_Lost(i) ==
  notify' = [r \in Registrations |->
               IF r \in Registered /\ notify[r].position = i
               THEN [notify[r] EXCEPT !.position = NULL] ELSE notify[r]]

(* Every registration of the entry that points at i backs up one place.    *)
BackUpPositions(i) ==
  LET g == prot[i].protocol IN
  notify' = [r \in Registrations |->
               IF r \in Registered /\ notify[r].protocol = g
                    /\ notify[r].position = i
               THEN [notify[r] EXCEPT !.position = BackLink(byProtocol[g], i)]
               ELSE notify[r]]

Forget(i) == delivered' = [r \in Registrations |-> delivered[r] \ {i}]

WithoutInterface_First(s, i) == Tail(s)
WithoutInterface(s, i) == RemoveAt(s, IndexOf(s, i))

LastInterface(i) == handleProtocols[prot[i].handle] \subseteq {i}

(* CoreUninstallProtocolInterface after the drivers let go of i: take it   *)
(* off both lists and free it, and the handle with its last interface.     *)
UnlinkInterface(i) ==
  LET h == prot[i].handle
      g == prot[i].protocol
  IN  /\ i \in Allocated
      /\ BackUpPositions(i)
      /\ Forget(i)
      /\ byProtocol' = [byProtocol EXCEPT ![g] = WithoutInterface(@, i)]
      /\ handleProtocols' = [handleProtocols EXCEPT ![h] = @ \ {i}]
      /\ prot' = [prot EXCEPT ![i] = NULL]
      /\ handles' = IF LastInterface(i) THEN handles \ {h} ELSE handles
      /\ UNCHANGED << entries, openList, openListCount >>

(* CoreReinstallProtocolInterface after the drivers let go of i: the       *)
(* structure gets the new pointer and moves to the end of its entry, where *)
(* every registration finds it once more.                                  *)
RelinkInterface(i, x) ==
  LET g == prot[i].protocol
  IN  /\ i \in Allocated
      /\ BackUpPositions(i)
      /\ Forget(i)
      /\ byProtocol' =
           [byProtocol EXCEPT ![g] = Append(WithoutInterface(@, i), i)]
      /\ prot' = [prot EXCEPT ![i].interface = x]
      /\ UNCHANGED << handles, handleProtocols, entries, openList,
                      openListCount >>

SetOpenList(i, new) ==
  /\ openList' = [openList EXCEPT ![i] = new]
  /\ UNCHANGED << handles, handleProtocols, entries, byProtocol, prot,
                  notify, delivered >>

FreeOpenIds(i) == OpenIds \ { o.id : o \in openList[i] }

(* OpenProtocol, "Create new entry".                                       *)
CreateOpen(i, agent, controller, mode) ==
  /\ i \in Allocated
  /\ FreeOpenIds(i) # {}
  /\ SetOpenList(i, openList[i] \cup
       { [id |-> CHOOSE n \in FreeOpenIds(i) : TRUE, agent |-> agent,
          controller |-> controller, attributes |-> mode, count |-> 1] })
  /\ openListCount' = [openListCount EXCEPT ![i] = @ + 1]

(* OpenProtocol on an exact match: OpenCount++.                            *)
CountOpen(i, o) ==
  /\ i \in Allocated
  /\ o \in openList[i]
  /\ SetOpenList(i, (openList[i] \ {o}) \cup {[o EXCEPT !.count = @ + 1]})
  /\ UNCHANGED openListCount

(* CloseProtocol and the purge of CoreDisconnectControllersUsingProtocol-  *)
(* Interface: free the records in S, decrementing OpenListCount for each.  *)
RemoveOpens(i, S) ==
  /\ i \in Allocated
  /\ S \subseteq openList[i]
  /\ SetOpenList(i, openList[i] \ S)
  /\ openListCount' = [openListCount EXCEPT ![i] = @ - Cardinality(S)]

(* CoreRegisterProtocolNotify: start at the beginning of the list.         *)
RegisterNotify(g, e, r) ==
  /\ notify[r] = NULL
  /\ CreateEntry(g)
  /\ notify' = [notify EXCEPT ![r] =
                  [protocol |-> g, event |-> e, position |-> ListHead]]
  /\ delivered' = [delivered EXCEPT ![r] = {}]
  /\ UNCHANGED << handles, handleProtocols, byProtocol, prot, openList,
                  openListCount >>

(* CoreUnregisterProtocolNotify: free every registration of the event.     *)
UnregisterNotify(e) ==
  /\ notify' = [r \in Registrations |->
                  IF r \in Registered /\ notify[r].event = e
                  THEN NULL ELSE notify[r]]
  /\ delivered' = [r \in Registrations |->
                  IF r \in Registered /\ notify[r].event = e
                  THEN {} ELSE delivered[r]]
  /\ UNCHANGED << handles, handleProtocols, entries, byProtocol, prot,
                  openList, openListCount >>

(* CoreGetNextLocateByRegisterNotify: whether, and which, interface comes  *)
(* next.                                                                   *)
HasNext(r) == PositionIndex(notify[r]) < Len(byProtocol[notify[r].protocol])
NextInterface(r) == byProtocol[notify[r].protocol][PositionIndex(notify[r]) + 1]

(* CoreLocateProtocol and CoreLocateHandle hand the next interface out and *)
(* step the position onto it.                                              *)
DeliverNext(r) ==
  /\ r \in Registered
  /\ HasNext(r)
  /\ notify' = [notify EXCEPT ![r].position = NextInterface(r)]
  /\ delivered' = [delivered EXCEPT ![r] = @ \cup {NextInterface(r)}]
  /\ UNCHANGED << handles, handleProtocols, entries, byProtocol, prot,
                  openList, openListCount >>

-----------------------------------------------------------------------------
(* What the database promises its clients: when each of these may happen.  *)

(* An interface is added only to a handle that has none of its GUID.       *)
AddInterface(h, g, x, i) == Lookup(h, g) = {} /\ LinkInterface(h, g, x, i)

(* It is removed or replaced only when nobody has it open.                 *)
RemoveInterface(i)     == openListCount[i] = 0 /\ UnlinkInterface(i)
ReplaceInterface(i, x) == openListCount[i] = 0 /\ RelinkInterface(i, x)

DriverOpens(i)    == { o \in openList[i] : ByDriver \in o.attributes }
ExclusiveOpens(i) == { o \in openList[i] : Exclusive \in o.attributes }

AccessGranted_IgnoresExclusive(i, mode) ==
  (mode \cap {ByDriver, Exclusive} # {}) => DriverOpens(i) = {}

(* A driver gets it only when no other driver has it and, unless it asks   *)
(* for exclusive access itself, nobody has exclusive access; an exclusive  *)
(* open waits until no driver has it.  This does not say that an exclusive *)
(* open excludes another one: OpenProtocol checks that before it drops the *)
(* lock to disconnect a driver, and not again after.                       *)
AccessGranted(i, mode) ==
  /\ (mode \cap {ByDriver, Exclusive} # {}) => DriverOpens(i) = {}
  /\ (mode = {ByDriver}) => ExclusiveOpens(i) = {}

AddOpen(i, agent, controller, mode) ==
  AccessGranted(i, mode) /\ CreateOpen(i, agent, controller, mode)

DBNext ==
  \/ \E g \in Protocols : OnlyCreateEntry(g)
  \/ \E h \in Handles, g \in Protocols, x \in Interfaces, i \in Prots :
        AddInterface(h, g, x, i)
  \/ \E i \in Prots : RemoveInterface(i)
  \/ \E i \in Prots, x \in Interfaces : ReplaceInterface(i, x)
  \/ \E i \in Prots, a \in Handles, c \in Handles \cup {NULL}, m \in OpenModes :
        AddOpen(i, a, c, m)
  \/ \E i \in Prots : \E o \in openList[i] :
        o.count < MaxOpenCount /\ CountOpen(i, o)
  \/ \E i \in Prots : \E S \in SUBSET openList[i] : RemoveOpens(i, S)
  \/ \E g \in Protocols, e \in Events, r \in Registrations :
        RegisterNotify(g, e, r)
  \/ \E e \in Events : UnregisterNotify(e)
  \/ \E r \in Registrations : DeliverNext(r)

DBSpec == DBInit /\ [][DBNext]_dbvars

-----------------------------------------------------------------------------
(* Safety.                                                                 *)

(* An interface is on the list of exactly the handle and the entry it      *)
(* names, once: the two lists CoreInstallProtocolInterfaceNotify links it  *)
(* on and CoreUninstallProtocolInterface takes it off never disagree, and  *)
(* neither ever reaches a freed structure.                                 *)
ListsAgree ==
  /\ \A h \in Handles :
       handleProtocols[h] = { i \in Allocated : prot[i].handle = h }
  /\ \A g \in Protocols :
       /\ ToSet(byProtocol[g]) = { i \in Allocated : prot[i].protocol = g }
       /\ IsInjective(byProtocol[g])

(* A handle is alive exactly as long as it has an interface: it is freed   *)
(* with its last one, never before, and no interface survives its handle.  *)
HandleLifetime ==
  /\ \A h \in Handles : h \in handles <=> handleProtocols[h] # {}
  /\ \A i \in Allocated : prot[i].handle \in handles

(* A handle has at most one interface of a GUID, so CoreGetProtocolInter-  *)
(* face, which returns the first one it meets, has no choice to make.      *)
UniqueProtocol ==
  \A i, j \in Allocated :
    prot[i].handle = prot[j].handle /\ prot[i].protocol = prot[j].protocol
      => i = j

(* Uninstalling and reinstalling never leave a registration with a pointer *)
(* into a structure that is no longer on the list it walks.                *)
PositionsLive ==
  \A r \in Registered :
    notify[r].position # ListHead =>
      notify[r].position \in ToSet(byProtocol[notify[r].protocol])

(* What a registration has been given is exactly what lies at or before    *)
(* its position: however installs, removals and reinstalls interleave with *)
(* its calls, it gets every interface once per (re)install, none twice and *)
(* none skipped.                                                           *)
DeliveredOnce ==
  \A r \in Registered :
    delivered[r] = UpTo(byProtocol[notify[r].protocol], PositionIndex(notify[r]))

(* ASSERT (Count == ProtocolInterface->OpenListCount), and free memory     *)
(* holds no records: nothing is opened on an interface that is gone.       *)
OpenCountsAgree ==
  \A i \in Prots :
    /\ openListCount[i] = Cardinality(openList[i])
    /\ i \notin Allocated => openList[i] = {}

(* At most one driver manages an interface, and a driver that did not ask  *)
(* for exclusive access never shares it with an agent that has it.         *)
DriverAccess ==
  \A i \in Allocated : \A o, p \in openList[i] :
    o # p /\ ByDriver \in o.attributes =>
      /\ ByDriver \notin p.attributes
      /\ Exclusive \in p.attributes => Exclusive \in o.attributes

(* The lists of the handles and of the protocol entries, the handles and   *)
(* the interfaces agree with each other after any history of installs,     *)
(* removals and reinstalls.                                                *)
LinksConsistent == ListsAgree /\ HandleLifetime /\ UniqueProtocol

(* Whatever is taken off the list a registration walks, it stays on the    *)
(* list and sees every interface exactly once.                             *)
WalksConsistent == PositionsLive /\ DeliveredOnce

(* The open records are counted right and grant no conflicting access.     *)
OpensConsistent == OpenCountsAgree /\ DriverAccess

=============================================================================
