----------------------------- MODULE BootServices -----------------------------
(***************************************************************************)
(* The protocol services of the host boot services table, with what        *)
(* HandleDatabase leaves out: which service executes which piece of code,  *)
(* and what happens while gProtocolDatabaseLock is dropped.                *)
(*                                                                         *)
(* The program has one thread.  UninstallProtocolInterface, Reinstall-     *)
(* ProtocolInterface and an exclusive OpenProtocol release the lock to     *)
(* call CoreDisconnectController or CoreConnectController, these call Stop *)
(* or Start of a driver, and the driver may call any service again.  The   *)
(* variable stack holds the activation records, the running one first:     *)
(* only it moves.  A step is a stretch of code that holds the lock         *)
(* throughout, or that touches no shared state.                            *)
(*                                                                         *)
(* gSecurity2, the driver override protocols and gDxeCoreImageHandle are   *)
(* absent in the host build.  Connect- and DisconnectController are not in *)
(* its table: only the calls that Handle.c and Notify.c make are modelled. *)
(***************************************************************************)
EXTENDS HandleDatabase

CONSTANTS
  DriverBinding,    \* gEfiDriverBindingProtocolGuid
  DevicePath,       \* gEfiDevicePathProtocolGuid
  PathOf,           \* the device path an interface pointer points to
  Topology,         \* which handles may become children of which others
  Placement,        \* which GUIDs clients install on which handles
  ClientServices,   \* the services the client of the library uses
  CallbackServices, \* the services that Start and Stop of a driver use
  MaxNesting,       \* how deep drivers nest calls of services
  MaxArgs,          \* how many interfaces the Multiple services get
  ConformingDrivers \* Stop succeeds only after the driver has let go

ASSUME GuidAssumption == {DriverBinding, DevicePath} \subseteq Protocols
ASSUME TopologyAssumption ==
  Topology \subseteq Handles \X Handles /\ Placement \subseteq Handles \X Protocols
ASSUME DepthAssumption == MaxNesting \in Nat /\ MaxArgs \in Nat
ASSUME ServicesAssumption ==
  ConformingDrivers \in BOOLEAN /\ DOMAIN CallbackServices = {"Start", "Stop"}

VARIABLES
  stack, \* the activation records
  ret    \* the status the last call returned, "" while a call is in progress

vars == << handles, handleProtocols, entries, byProtocol, prot, openList,
           openListCount, notify, delivered, stack, ret >>

-----------------------------------------------------------------------------
(* Activation records.                                                     *)

Statuses == { "", "SUCCESS", "INVALID_PARAMETER", "NOT_FOUND", "UNSUPPORTED",
              "ACCESS_DENIED", "ALREADY_STARTED", "OUT_OF_RESOURCES",
              "BUFFER_TOO_SMALL", "DEVICE_ERROR" }

Functions == { "Uninstall", "Reinstall", "Open", "Disconnect", "Connect",
               "Start", "Stop", "InstallMultiple", "UninstallMultiple" }

(* The arguments and locals of every function; unused ones keep a default. *)
Frame(function) ==
  [ op |-> function, pc |-> "enter",
    handle |-> NULL, protocol |-> NULL, interface |-> NULL, new |-> NULL,
    prot |-> NULL, agent |-> NULL, controller |-> NULL, attributes |-> {},
    todo |-> {}, args |-> << >>, done |-> << >>, status |-> "", before |-> {} ]

UninstallFrame(h, g, x) ==
  [Frame("Uninstall") EXCEPT !.handle = h, !.protocol = g, !.interface = x]
ReinstallFrame(h, g, x, y) ==
  [UninstallFrame(h, g, x) EXCEPT !.op = "Reinstall", !.new = y]
OpenFrame(h, g, i, a, c, mode) ==
  [Frame("Open") EXCEPT !.pc = "scan", !.handle = h, !.protocol = g, !.prot = i,
                        !.agent = a, !.controller = c, !.attributes = mode]
ConnectFrame(h) == [Frame("Connect") EXCEPT !.handle = h]
DisconnectFrame(h, d) ==
  [Frame("Disconnect") EXCEPT !.handle = h, !.agent = d]
StartFrame(h, d) == [Frame("Start") EXCEPT !.handle = h, !.agent = d]
StopFrame(h, d, children) ==
  [Frame("Stop") EXCEPT !.handle = h, !.agent = d, !.todo = children]

Idle == stack = << >>
Top == Head(stack)
At(functions, pc) == ~Idle /\ Top.op \in functions /\ Top.pc = pc

Become(f)   == stack' = << f >> \o Tail(stack) /\ ret' = ret
Goto(pc)    == Become([Top EXCEPT !.pc = pc])
Enter(f)    == stack' = << f >> \o stack /\ ret' = ""
Answer(s)   == stack' = stack /\ ret' = s
Return(s)   == stack' = Tail(stack) /\ ret' = s
Call(f, me) == stack' = << f, me >> \o Tail(stack) /\ ret' = ""
CallFrom(pc, f) == Call(f, [Top EXCEPT !.pc = pc])

-----------------------------------------------------------------------------
(* The callers: the client at the bottom of the stack, and drivers.        *)

InDriver == ~Idle /\ Top.op \in {"Start", "Stop"}

MayCall(service) ==
  \/ Idle /\ service \in ClientServices
  \/ /\ InDriver
     /\ service \in CallbackServices[Top.op]
     /\ Len(stack) < MaxNesting

(* A driver acts in its own name; the client speaks for any agent.         *)
Agents == IF InDriver THEN {Top.agent} ELSE Handles \cup {NULL}

(* Drivers open for the controller they manage, bus drivers for its        *)
(* children; parents and children form no cycles when Topology has none.   *)
ControllersFor(h, mode) ==
  CASE mode = {ByChildController} -> { c \in Handles : << h, c >> \in Topology }
    [] ByDriver \in mode          -> {h}
    [] OTHER                      -> {NULL}

(* A driver does not uninstall the interface from which it, or a driver    *)
(* above it on the stack, is just being disconnected.  When it names many, *)
(* the others may change under way: it does not name any of their GUIDs.   *)
Held(i) == \E k \in DOMAIN stack : stack[k].prot = i
Unused(h, g, x) == \A i \in Find(h, g, x) : ~Held(i)
UnusedProtocol(h, g) == \A i \in Lookup(h, g) : ~Held(i)

Arguments == SeqOf(Protocols \X Interfaces, MaxArgs) \ { << >> }

Interface(i) == << prot[i].handle, prot[i].protocol, prot[i].interface >>
Installed == { Interface(i) : i \in Allocated }

-----------------------------------------------------------------------------
(* CoreInstallProtocolInterfaceNotify, on handle h or (NULL) a new one: k  *)
(* is the handle it returns and s the status.                              *)

InstallInterface(h, g, x, k, s) ==
  \/ /\ h # NULL /\ Lookup(h, g) # {}
     /\ s = "INVALID_PARAMETER" /\ k = h
     /\ UNCHANGED dbvars
  \/ /\ h # NULL => Lookup(h, g) = {}
     /\ \/ Allocated = Prots
        \/ h = NULL /\ handles = Handles
     /\ s = "OUT_OF_RESOURCES" /\ k = h
     /\ OnlyCreateEntry(g)
  \/ /\ h # NULL /\ h \notin handles
     /\ Allocated # Prots
     /\ s = "INVALID_PARAMETER" /\ k = h
     /\ OnlyCreateEntry(g)
  \/ /\ IF h = NULL THEN k \in Handles \ handles
                    ELSE k = h /\ h \in handles /\ Lookup(h, g) = {}
     /\ s = "SUCCESS"
     /\ \E i \in Prots : LinkInterface(k, g, x, i)

InstallProtocolInterface(h, g, x) ==
  /\ MayCall("Install")
  /\ \E k \in Handles \cup {NULL}, s \in Statuses :
        /\ k = NULL \/ << k, g >> \in Placement
        /\ InstallInterface(h, g, x, k, s)
        /\ Answer(s)

-----------------------------------------------------------------------------
(* CoreUninstallProtocolInterface and CoreReinstallProtocolInterface.      *)

Uninstalls == {"Uninstall", "Reinstall"}

UninstallProtocolInterface(h, g, x) ==
  /\ MayCall("Uninstall") /\ Unused(h, g, x)
  /\ Enter(UninstallFrame(h, g, x))
  /\ UNCHANGED dbvars

ReinstallProtocolInterface(h, g, x, y) ==
  /\ MayCall("Reinstall")
  /\ Enter(ReinstallFrame(h, g, x, y))
  /\ UNCHANGED dbvars

(* Validate the handle, take the lock, find the interface.                 *)
FindInterface ==
  /\ At(Uninstalls, "enter")
  /\ LET found == Find(Top.handle, Top.protocol, Top.interface) IN
       \/ Top.handle \notin handles /\ Return("INVALID_PARAMETER")
       \/ Top.handle \in handles /\ found = {} /\ Return("NOT_FOUND")
       \/ \E i \in found : Become([Top EXCEPT !.pc = "scan", !.prot = i])
  /\ UNCHANGED dbvars

(* CoreDisconnectControllersUsingProtocolInterface: as long as a driver    *)
(* has the interface, drop the lock and disconnect it.  CoreOpenProtocol   *)
(* does the same for an exclusive open.                                    *)
DisconnectDriver ==
  /\ At(Uninstalls \cup {"Open"}, "scan")
  /\ \E o \in DriverOpens(Top.prot) :
        CallFrom("disconnecting", DisconnectFrame(Top.handle, o.agent))
  /\ UNCHANGED dbvars

DriverDisconnected_IgnoresStatus ==
  /\ At(Uninstalls \cup {"Open"}, "disconnecting")
  /\ Goto("scan")
  /\ UNCHANGED dbvars

DriverDisconnected ==
  /\ At(Uninstalls \cup {"Open"}, "disconnecting")
  /\ ret = "SUCCESS"
  /\ Goto("scan")
  /\ UNCHANGED dbvars

(* No driver is left: free the records of the agents that never close.     *)
WeakOpens(i) ==
  { o \in openList[i] :
      o.attributes \cap {ByHandleProtocol, GetProtocol, TestProtocol} # {} }

Purge ==
  /\ At(Uninstalls, "scan")
  /\ DriverOpens(Top.prot) = {}
  /\ RemoveOpens(Top.prot, WeakOpens(Top.prot))
  /\ Goto("purged")

(* A driver refused, or the interface is still open: drop the lock to      *)
(* reconnect the drivers of the handle, and refuse.                        *)
Reconnect ==
  /\ \/ At(Uninstalls, "disconnecting") /\ ret # "SUCCESS"
     \/ At(Uninstalls, "purged") /\ openListCount[Top.prot] > 0
  /\ Call(ConnectFrame(Top.handle), [Top EXCEPT !.pc = "denied", !.prot = NULL])
  /\ UNCHANGED dbvars

Denied ==
  /\ At(Uninstalls, "denied")
  /\ Return("ACCESS_DENIED")
  /\ UNCHANGED dbvars

(* Everybody has let go.  The interface is looked up again, because it may *)
(* have been replaced while the lock was dropped.                          *)
FindAgain_Remembered == {Top.prot}
FindAgain == Find(Top.handle, Top.protocol, Top.interface)
LetGo(function) == At({function}, "purged") /\ openListCount[Top.prot] = 0

Vanished ==
  /\ \E f \in Uninstalls : LetGo(f)
  /\ FindAgain = {}
  /\ Return("NOT_FOUND")
  /\ UNCHANGED dbvars

Uninstall ==
  /\ LetGo("Uninstall")
  /\ \E i \in FindAgain : UnlinkInterface(i)
  /\ Return("SUCCESS")

Reinstall ==
  /\ LetGo("Reinstall")
  /\ \E i \in FindAgain : RelinkInterface(i, Top.new)
  /\ Call(ConnectFrame(Top.handle), [Top EXCEPT !.pc = "reconnected", !.prot = NULL])

(* CoreConnectController's status is ignored, and nobody is notified.      *)
Reinstalled ==
  /\ At({"Reinstall"}, "reconnected")
  /\ Return("SUCCESS")
  /\ UNCHANGED dbvars

-----------------------------------------------------------------------------
(* CoreOpenProtocol and CoreCloseProtocol.  CoreHandleProtocol is an open  *)
(* by handle protocol in the name of gDxeCoreImageHandle, which is NULL.   *)

ValidOpen(h, a, c, mode) ==
  /\ h \in handles
  /\ mode \in { {ByChildController}, {ByDriver}, {ByDriver, Exclusive} } =>
       {a, c} \subseteq handles
  /\ mode = {ByChildController} => h # c
  /\ mode = {Exclusive} => a \in handles

ExactMatch(i, a, c, mode) ==
  { o \in openList[i] :
      o.agent = a /\ o.controller = c /\ o.attributes = mode }

(* "Create new entry".                                                     *)
RecordOpen(i, a, c, mode, s) ==
  \/ a = NULL /\ s = "SUCCESS" /\ UNCHANGED dbvars
  \/ a # NULL /\ FreeOpenIds(i) = {} /\ s = "OUT_OF_RESOURCES" /\ UNCHANGED dbvars
  \/ a # NULL /\ CreateOpen(i, a, c, mode) /\ s = "SUCCESS"

Conflicts_DriverSharesExclusive(i, mode) ==
  \/ mode = {ByDriver} /\ DriverOpens(i) # {}
  \/ Exclusive \in mode /\ ExclusiveOpens(i) # {}
Conflicts_ExclusiveShares(i, mode) ==
  mode = {ByDriver} /\ DriverOpens(i) \cup ExclusiveOpens(i) # {}

(* Exclusive || ByDriver for a driver, Exclusive for an exclusive open.    *)
Conflicts(i, mode) ==
  \/ mode = {ByDriver} /\ DriverOpens(i) \cup ExclusiveOpens(i) # {}
  \/ Exclusive \in mode /\ ExclusiveOpens(i) # {}

OpenInterface(i, h, g, a, c, mode) ==
  LET same == ExactMatch(i, a, c, mode) IN
  \/ /\ same # {} /\ ByDriver \in mode
     /\ Answer("ALREADY_STARTED")
     /\ UNCHANGED dbvars
  \/ /\ mode \cap {ByDriver, Exclusive} = {}
     /\ \E o \in same : o.count < MaxOpenCount /\ CountOpen(i, o)
     /\ Answer("SUCCESS")
  \/ /\ same = {} \/ mode = {Exclusive}
     /\ Conflicts(i, mode)
     /\ Answer("ACCESS_DENIED")
     /\ UNCHANGED dbvars
  \/ /\ same = {} /\ ~Conflicts(i, mode)
     /\ Exclusive \in mode => DriverOpens(i) = {}
     /\ \E s \in Statuses : RecordOpen(i, a, c, mode, s) /\ Answer(s)
  \/ /\ same = {} /\ ~Conflicts(i, mode)
     /\ Exclusive \in mode /\ DriverOpens(i) # {}
     /\ Enter(OpenFrame(h, g, i, a, c, mode))
     /\ UNCHANGED dbvars

OpenProtocol(h, g, a, c, mode) ==
  /\ MayCall("OpenProtocol")
  /\ \/ /\ ~ValidOpen(h, a, c, mode)
        /\ Answer("INVALID_PARAMETER")
        /\ UNCHANGED dbvars
     \/ /\ ValidOpen(h, a, c, mode)
        /\ Lookup(h, g) = {}
        /\ Answer("UNSUPPORTED")
        /\ UNCHANGED dbvars
     \/ /\ ValidOpen(h, a, c, mode)
        /\ \E i \in Lookup(h, g) : OpenInterface(i, h, g, a, c, mode)

(* The exclusive open goes on when no driver is left; whether somebody     *)
(* else got exclusive access meanwhile is not checked again.               *)
ExclusiveOpen ==
  /\ At({"Open"}, "scan")
  /\ DriverOpens(Top.prot) = {}
  /\ \E s \in Statuses :
        /\ RecordOpen(Top.prot, Top.agent, Top.controller, Top.attributes, s)
        /\ Return(s)

ExclusiveDenied ==
  /\ At({"Open"}, "disconnecting")
  /\ ret # "SUCCESS"
  /\ Return("ACCESS_DENIED")
  /\ UNCHANGED dbvars

(* Every record of the pair goes, whatever its attributes and OpenCount.   *)
CloseProtocol(h, g, a, c) ==
  /\ MayCall("CloseProtocol")
  /\ \/ /\ ~({h, a} \cup ({c} \ {NULL}) \subseteq handles)
        /\ Answer("INVALID_PARAMETER")
        /\ UNCHANGED dbvars
     \/ /\ {h, a} \cup ({c} \ {NULL}) \subseteq handles
        /\ \A i \in Lookup(h, g) :
             { o \in openList[i] : o.agent = a /\ o.controller = c } = {}
        /\ Answer("NOT_FOUND")
        /\ UNCHANGED dbvars
     \/ /\ {h, a} \cup ({c} \ {NULL}) \subseteq handles
        /\ \E i \in Lookup(h, g) :
             LET closed == { o \in openList[i] : o.agent = a /\ o.controller = c }
             IN  closed # {} /\ RemoveOpens(i, closed)
        /\ Answer("SUCCESS")

-----------------------------------------------------------------------------
(* CoreDisconnectController, for one driver and all its children.          *)

OpensOn(h) == { io \in handleProtocols[h] \X UNION { openList[j] : j \in Prots } :
                 io[2] \in openList[io[1]] }

Manages(h, d) ==
  \E io \in OpensOn(h) : io[2].agent = d /\ ByDriver \in io[2].attributes

Children(h, d) ==
  { io[2].controller : io \in { jo \in OpensOn(h) :
      jo[2].agent = d /\ ByChildController \in jo[2].attributes } }

Disconnect ==
  /\ At({"Disconnect"}, "enter")
  /\ LET h == Top.handle
         d == Top.agent
     IN  \/ /\ h \notin handles \/ Lookup(d, DriverBinding) = {}
            /\ Return("INVALID_PARAMETER")
         \/ /\ h \in handles /\ Lookup(d, DriverBinding) # {}
            /\ ~Manages(h, d)
            /\ Return("NOT_FOUND")
         \/ /\ h \in handles /\ Lookup(d, DriverBinding) # {}
            /\ Manages(h, d)
            /\ CallFrom(IF Children(h, d) = {} THEN "stopping" ELSE "children",
                        StopFrame(h, d, Children(h, d)))
  /\ UNCHANGED dbvars

(* The children are stopped: stop the driver itself.                       *)
ChildrenStopped ==
  /\ At({"Disconnect"}, "children")
  /\ ret = "SUCCESS"
  /\ CallFrom("stopping", StopFrame(Top.handle, Top.agent, {}))
  /\ UNCHANGED dbvars

Disconnected ==
  /\ \/ At({"Disconnect"}, "stopping") /\ ret = "SUCCESS" /\ Return("SUCCESS")
     \/ /\ At({"Disconnect"}, "stopping") \/ At({"Disconnect"}, "children")
        /\ ret # "SUCCESS"
        /\ Return("NOT_FOUND")
  /\ UNCHANGED dbvars

-----------------------------------------------------------------------------
(* CoreConnectController, recursive and for all drivers.  No caller looks  *)
(* at its status.                                                          *)

(* CoreConnectSingleController collects the drivers once.                  *)
CollectDrivers ==
  /\ At({"Connect"}, "enter")
  /\ \/ Top.handle \notin handles /\ Return("INVALID_PARAMETER")
     \/ /\ Top.handle \in handles
        /\ Become([Top EXCEPT !.pc = "drivers",
             !.todo = { prot[i].handle : i \in ToSet(byProtocol[DriverBinding]) }])
  /\ UNCHANGED dbvars

(* Start one that supports the controller: which ones do, and in which     *)
(* order their versions put them, is up to the drivers.                    *)
StartDriver ==
  /\ At({"Connect"}, "drivers")
  /\ \E d \in Top.todo :
        Call(StartFrame(Top.handle, d), [Top EXCEPT !.todo = @ \ {d}])
  /\ UNCHANGED dbvars

(* None of the others supports it: on to the children, one per record.     *)
CollectChildren ==
  /\ At({"Connect"}, "drivers")
  /\ \/ Top.handle \notin handles /\ Return("SUCCESS")
     \/ /\ Top.handle \in handles
        /\ Become([Top EXCEPT !.pc = "children",
             !.todo = { io \in OpensOn(Top.handle) :
                          ByChildController \in io[2].attributes }])
  /\ UNCHANGED dbvars

ConnectChild ==
  /\ At({"Connect"}, "children")
  /\ \E io \in Top.todo :
        Call(ConnectFrame(io[2].controller), [Top EXCEPT !.todo = @ \ {io}])
  /\ UNCHANGED dbvars

Connected ==
  /\ At({"Connect"}, "children")
  /\ Top.todo = {}
  /\ Return("SUCCESS")
  /\ UNCHANGED dbvars

(* Start or Stop returns.  A conforming driver does not report that it has *)
(* stopped while it still manages the controller.                          *)
DriverReturns(s) ==
  /\ InDriver
  /\ ConformingDrivers /\ s = "SUCCESS" /\ Top.op = "Stop" /\ Top.todo = {} =>
       ~Manages(Top.handle, Top.agent)
  /\ Return(s)
  /\ UNCHANGED dbvars

-----------------------------------------------------------------------------
(* CoreInstallMultipleProtocolInterfaces and its inverse.  args holds the  *)
(* pairs to come, done the ones that succeeded.                            *)

MultipleFrame(function, h, args) ==
  [Frame(function) EXCEPT !.handle = h, !.args = args, !.before = Installed]

InstallMultiple(h, args) ==
  /\ MayCall("InstallMultiple")
  /\ Enter(MultipleFrame("InstallMultiple", h, args))
  /\ UNCHANGED dbvars

UninstallMultiple(h, args) ==
  /\ MayCall("UninstallMultiple")
  /\ \A k \in DOMAIN args : UnusedProtocol(h, args[k][1])
  /\ Enter(MultipleFrame("UninstallMultiple", h, args))
  /\ UNCHANGED dbvars

(* CoreLocateDevicePath finds the whole path of x on some handle.          *)
PathInstalled(x) ==
  \E i \in ToSet(byProtocol[DevicePath]) : PathOf[prot[i].interface] = PathOf[x]

Advance(k) ==
  Become([Top EXCEPT !.handle = k, !.args = Tail(@), !.done = Append(@, Head(Top.args))])

Fail_OffByOne(s) ==
  Become([Top EXCEPT !.pc = "rollback", !.status = s,
                     !.done = IF @ = << >> THEN @ ELSE Front(@)])

(* The error is kept while the pairs in done are taken back, first to last.*)
Fail(s) == Become([Top EXCEPT !.pc = "rollback", !.status = s])

(* A path that is found is refused.  The search answers NOT_FOUND when it  *)
(* cannot allocate the buffer for the handles, and then a path that is     *)
(* there is installed once more.                                           *)
InstallNext ==
  /\ At({"InstallMultiple"}, "enter")
  /\ Top.args # << >>
  /\ LET g == Head(Top.args)[1]
         x == Head(Top.args)[2]
     IN  \/ /\ g = DevicePath /\ PathInstalled(x)
            /\ Fail("ALREADY_STARTED")
            /\ UNCHANGED dbvars
         \/ \E k \in Handles \cup {NULL}, s \in Statuses :
              /\ InstallInterface(Top.handle, g, x, k, s)
              /\ IF s = "SUCCESS" THEN Advance(k) ELSE Fail(s)

UninstallNext ==
  /\ At({"UninstallMultiple"}, "enter")
  /\ Top.args # << >>
  /\ CallFrom("uninstalled",
       UninstallFrame(Top.handle, Head(Top.args)[1], Head(Top.args)[2]))
  /\ UNCHANGED dbvars

UninstalledNext ==
  /\ At({"UninstallMultiple"}, "uninstalled")
  /\ IF ret = "SUCCESS"
     THEN Become([Top EXCEPT !.pc = "enter", !.args = Tail(@),
                             !.done = Append(@, Head(Top.args))])
     ELSE Fail(ret)
  /\ UNCHANGED dbvars

UninstallDone ==
  /\ At({"InstallMultiple"}, "rollback")
  /\ Top.done # << >>
  /\ Call(UninstallFrame(Top.handle, Head(Top.done)[1], Head(Top.done)[2]),
          [Top EXCEPT !.done = Tail(@)])
  /\ UNCHANGED dbvars

(* The status of the install is not looked at.                             *)
ReinstallDone ==
  /\ At({"UninstallMultiple"}, "rollback")
  /\ Top.done # << >>
  /\ \E s \in Statuses :
        InstallInterface(Top.handle, Head(Top.done)[1], Head(Top.done)[2], Top.handle, s)
  /\ Become([Top EXCEPT !.done = Tail(@)])

Multiples == {"InstallMultiple", "UninstallMultiple"}

MultipleSucceeds ==
  /\ At(Multiples, "enter")
  /\ Top.args = << >>
  /\ Return("SUCCESS")
  /\ UNCHANGED dbvars

MultipleFails ==
  /\ At(Multiples, "rollback")
  /\ Top.done = << >>
  /\ Return(Top.status)
  /\ UNCHANGED dbvars

-----------------------------------------------------------------------------
(* CoreRegisterProtocolNotify, CoreUnregisterProtocolNotify, and the two   *)
(* services that hand out what a registration has not seen.                *)

RegisterProtocolNotify(g, e) ==
  /\ MayCall("RegisterNotify")
  /\ \/ \E r \in Registrations : RegisterNotify(g, e, r) /\ Answer("SUCCESS")
     \/ /\ Registered = Registrations
        /\ OnlyCreateEntry(g)
        /\ Answer("OUT_OF_RESOURCES")

UnregisterProtocolNotify(e) ==
  /\ MayCall("UnregisterNotify")
  /\ UnregisterNotify(e)
  /\ Answer("SUCCESS")

LocateByRegistration(service, r) ==
  /\ MayCall(service)
  /\ r \in Registered
  /\ \/ DeliverNext(r) /\ Answer("SUCCESS")
     \/ /\ ~HasNext(r) /\ Answer("NOT_FOUND")
        /\ UNCHANGED dbvars
     \/ /\ service = "LocateHandle" /\ HasNext(r)
        /\ Answer("BUFFER_TOO_SMALL")
        /\ UNCHANGED dbvars

-----------------------------------------------------------------------------
Init == DBInit /\ stack = << >> /\ ret = ""

Services ==
  \/ \E h \in Handles \cup {NULL}, g \in Protocols, x \in Interfaces :
        InstallProtocolInterface(h, g, x)
  \/ \E h \in Handles, g \in Protocols, x \in Interfaces :
        UninstallProtocolInterface(h, g, x)
  \/ \E h \in Handles, g \in Protocols, x, y \in Interfaces :
        ReinstallProtocolInterface(h, g, x, y)
  \/ \E h \in Handles, g \in Protocols, mode \in OpenModes, a \in Agents :
        \E c \in ControllersFor(h, mode) : OpenProtocol(h, g, a, c, mode)
  \/ \E h \in Handles, g \in Protocols, a \in Agents, mode \in OpenModes :
        \E c \in ControllersFor(h, mode) : CloseProtocol(h, g, a, c)
  \/ \E h \in Handles \cup {NULL}, args \in Arguments : InstallMultiple(h, args)
  \/ \E h \in Handles, args \in Arguments : UninstallMultiple(h, args)
  \/ \E g \in Protocols, e \in Events : RegisterProtocolNotify(g, e)
  \/ \E e \in Events : UnregisterProtocolNotify(e)
  \/ \E service \in {"LocateProtocol", "LocateHandle"}, r \in Registrations :
        LocateByRegistration(service, r)

(* The code of the library between the calls of its callers.               *)
Library ==
  \/ FindInterface \/ DisconnectDriver \/ DriverDisconnected \/ Purge
  \/ Reconnect \/ Denied \/ Vanished \/ Uninstall \/ Reinstall \/ Reinstalled
  \/ ExclusiveOpen \/ ExclusiveDenied
  \/ Disconnect \/ ChildrenStopped \/ Disconnected
  \/ CollectDrivers \/ StartDriver \/ CollectChildren \/ ConnectChild \/ Connected
  \/ InstallNext \/ UninstallNext \/ UninstalledNext \/ UninstallDone
  \/ ReinstallDone \/ MultipleSucceeds \/ MultipleFails

Driver == \E s \in {"SUCCESS", "DEVICE_ERROR"} : DriverReturns(s)

Next == Services \/ Library \/ Driver

Spec == Init /\ [][Next]_vars

(* The library keeps running, and so does a driver: a callback that again  *)
(* and again could return does so.  Callbacks are at depth 3 or more, and  *)
(* call nothing at MaxNesting.                                             *)
Fairness ==
  /\ WF_vars(Library) /\ WF_vars(Driver)
  /\ \A n \in 3 .. MaxNesting - 1 : SF_vars(Len(stack) = n /\ Driver)

FairSpec == Spec /\ Fairness

-----------------------------------------------------------------------------
(* Correctness.                                                            *)

(* The services keep the promises of the database (DBNext) although they   *)
(* drop the lock half way and drivers change the database meanwhile: no    *)
(* step removes or replaces an interface that is open, adds a second one   *)
(* of a GUID to a handle, or gives a driver an interface that another      *)
(* driver manages.                                                         *)
ServicesImplementDatabase == DBSpec

(* What is removed or replaced is what the caller named.  Between finding  *)
(* an interface and unlinking it the lock is dropped, and a callback may   *)
(* have put another interface in its place.                                *)
RemovesWhatWasNamed ==
  [][ \A i \in Allocated :
        prot'[i] = NULL \/ prot'[i].interface # prot[i].interface
          => Interface(i) = << Top.handle, Top.protocol, Top.interface >> ]_vars

(* Two agents never both have exclusive access, provided that a driver     *)
(* which is being stopped does not open anything: CoreOpenProtocol reads   *)
(* the flag of exclusive access once, drops the lock to disconnect who has *)
(* the interface, and records the exclusive open on its strength.          *)
ExclusiveAccess ==
  \A i \in Allocated : \A o, p \in ExclusiveOpens(i) : o = p

Given(f) == { << f.handle >> \o f.done[k] : k \in DOMAIN f.done }

MultipleEnds(function) ==
  At({function}, Top.pc) /\ Len(stack') < Len(stack)

(* InstallMultipleProtocolInterfaces installs all its interfaces on one    *)
(* handle or, when any of them fails, none: the rollback takes back what   *)
(* it installed and the handle it created, and nothing else.               *)
InstallMultipleAtomic ==
  [][ ~Idle /\ MultipleEnds("InstallMultiple") =>
        Installed' = IF ret' = "SUCCESS" THEN Top.before \cup Given(Top)
                                         ELSE Top.before ]_vars

(* "If there was an error, add all the interfaces that were uninstalled    *)
(* without any errors": a failed UninstallMultipleProtocolInterfaces       *)
(* leaves the database with the interfaces it found.                       *)
UninstallMultipleRestores ==
  [][ ~Idle /\ MultipleEnds("UninstallMultiple") /\ ret' # "SUCCESS" =>
        Installed' = Top.before ]_vars

(* Every call returns: disconnecting, stopping and reconnecting never go   *)
(* round in circles, when drivers conform, do not open anything while they *)
(* are being stopped, and controllers form no cycles.                      *)
CallsReturn == ~Idle ~> Idle
=============================================================================
