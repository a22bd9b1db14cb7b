------------------------------ MODULE Usb2HcHook ------------------------------
(***************************************************************************)
(* Usb2HcHook.c: a driver that puts its own functions into every interface *)
(* of the USB2 host controller protocol, keeps the functions that were     *)
(* there, and calls them.  It is told of interfaces by an event, which the *)
(* firmware (external) dispatches some time after it was signalled, once   *)
(* for all signals since; each dispatch locates one interface.             *)
(***************************************************************************)
EXTENDS Integers, Sequences, FiniteSets, SequencesExt

CONSTANTS
  Interfaces,            \* memory interfaces are in
  Controllers,           \* whose functions interfaces have
  MaxPrivates,           \* bound: allocations of the hook
  MaxMerged,             \* bound: signals while the event is signalled
  NULL

VARIABLES
  functions,             \* of each interface: a controller's, the hook's, or none
  owner,                 \* the controller that installed it
  unseen,                \* what LocateProtocol has not given for mUsbHookRegistration
  pending,               \* mUsbHookEvent is signalled: NULL before there is one
  mUsb2HcHookQueue,      \* the hook's notes, in their order
  firstOwner,            \* history: the controller that had it when it was first hooked
  merged,                \* history: signals that found the event signalled already
  call

vars == << functions, owner, unseen, pending, mUsb2HcHookQueue, firstOwner, merged, call >>
Firmware == << functions, owner, unseen, pending, mUsb2HcHookQueue, firstOwner, merged >>

Idle == [is |-> "idle"]
Hook == "hook"
None == "none"
Installed == { i \in Interfaces : functions[i] # None }

Init ==
  /\ functions = [i \in Interfaces |-> None] /\ owner = [i \in Interfaces |-> NULL]
  /\ unseen = << >> /\ pending = NULL
  /\ mUsb2HcHookQueue = << >>
  /\ firstOwner = [i \in Interfaces |-> NULL] /\ merged = 0
  /\ call = Idle

(***************************************************************************)
(* The firmware: controllers come, go, and are installed anew.  Without a  *)
(* registration, nobody is told.                                           *)
(***************************************************************************)
Signal ==
  /\ pending' = IF pending = NULL THEN NULL ELSE TRUE
  /\ pending = TRUE => merged < MaxMerged
  /\ merged' = IF pending = TRUE THEN merged + 1 ELSE merged

InstallProtocol ==
  \E i \in Interfaces, c \in Controllers :
    /\ functions[i] = None
    /\ functions' = [functions EXCEPT ![i] = c]
    /\ owner' = [owner EXCEPT ![i] = c]
    /\ unseen' = Append(unseen, i)
    /\ Signal
    /\ call' = Idle /\ UNCHANGED << mUsb2HcHookQueue, firstOwner >>

(* What is unseen without an interface, which is there once or not at all. *)
Without(i) ==
  IF \A n \in 1 .. Len(unseen) : unseen[n] # i THEN unseen
  ELSE RemoveAt(unseen, CHOOSE n \in 1 .. Len(unseen) : unseen[n] = i)

UninstallProtocol ==
  \E i \in Installed :
    /\ functions' = [functions EXCEPT ![i] = None]
    /\ unseen' = Without(i)
    /\ call' = Idle
    /\ UNCHANGED << owner, pending, mUsb2HcHookQueue, firstOwner, merged >>

ReinstallProtocol ==
  \E i \in Installed :
    /\ unseen' = Append(Without(i), i)
    /\ Signal
    /\ call' = Idle
    /\ UNCHANGED << functions, owner, mUsb2HcHookQueue, firstOwner >>

(* The event is also signalled once when it is made, for all that are there. *)
InitializeUsb2HcHook ==
  /\ pending = NULL
  /\ pending' = TRUE
  /\ merged' = IF unseen = << >> THEN 0 ELSE Len(unseen) - 1
  /\ call' = Idle
  /\ UNCHANGED << functions, owner, unseen, mUsb2HcHookQueue, firstOwner >>

(***************************************************************************)
(* The hook.                                                               *)
(***************************************************************************)
(* All the functions are exchanged, whosever they are. *)
Usb2HcProtocolCallback ==
  /\ pending = TRUE
  /\ pending' = FALSE
  /\ IF unseen = << >> THEN UNCHANGED << functions, unseen, mUsb2HcHookQueue, firstOwner >>
     ELSE LET usb2Hc == unseen[1]
          IN  /\ Len(mUsb2HcHookQueue) < MaxPrivates
              /\ mUsb2HcHookQueue' = Append(mUsb2HcHookQueue,
                                            [OrgUsb2Hc |-> functions[usb2Hc], Usb2Hc |-> usb2Hc])
              /\ functions' = [functions EXCEPT ![usb2Hc] = Hook]
              /\ firstOwner' = [firstOwner EXCEPT ![usb2Hc] = IF @ = NULL THEN owner[usb2Hc] ELSE @]
              /\ unseen' = SubSeq(unseen, 2, Len(unseen))
  /\ call' = Idle
  /\ UNCHANGED << owner, merged >>

(* The first note of the interface; at the end of the list is an assertion. *)
GetUsb2HcHookPrivateFromThis(this) ==
  LET notes == { n \in 1 .. Len(mUsb2HcHookQueue) : mUsb2HcHookQueue[n].Usb2Hc = this }
  IN  IF notes = {} THEN [OrgUsb2Hc |-> "asserts", Usb2Hc |-> this]
      ELSE mUsb2HcHookQueue[CHOOSE n \in notes : \A m \in notes : n <= m]

(* Whose function is called; a hook that calls the hook does so for ever. *)
Forward(function, this) ==
  LET org == GetUsb2HcHookPrivateFromThis(this).OrgUsb2Hc
  IN  /\ functions[this] = Hook
      /\ call' = [ is |-> "call", function |-> function, this |-> this,
                   reached |-> IF org = Hook THEN "endless" ELSE org ]
      /\ UNCHANGED Firmware

Unsupported(function, this) ==
  /\ functions[this] = Hook
  /\ call' = [is |-> "unsupported", function |-> function, this |-> this]
  /\ UNCHANGED Firmware

(* A transfer is dumped once it is done: its translator, and what went out, *)
(* or came in without an error, by *DataLength.                             *)
ForwardAndDump(function, this, direction, dataLength, translator, success) ==
  LET org  == GetUsb2HcHookPrivateFromThis(this).OrgUsb2Hc
      data == direction = "Out" \/ (direction = "In" /\ success)
  IN  /\ functions[this] = Hook
      /\ call' = [ is |-> IF translator = NULL \/ (data /\ dataLength = NULL) THEN "crash" ELSE "call",
                   function |-> function, this |-> this,
                   reached |-> IF org = Hook THEN "endless" ELSE org ]
      /\ UNCHANGED Firmware

Usb2HcHookGetCapability(this)            == Forward("GetCapability", this)
Usb2HcHookReset(this)                    == Forward("Reset", this)
Usb2HcHookGetState(this)                 == Forward("GetState", this)
Usb2HcHookSetState(this)                 == Forward("SetState", this)
Usb2HcHookGetRootHubPortStatus(this)     == Forward("GetRootHubPortStatus", this)
Usb2HcHookSetRootHubPortFeature(this)    == Forward("SetRootHubPortFeature", this)
Usb2HcHookClearRootHubPortFeature(this)  == Forward("ClearRootHubPortFeature", this)
Usb2HcHookIsochronousTransfer(this)      == Unsupported("IsochronousTransfer", this)
Usb2HcHookAsyncIsochronousTransfer(this) == Unsupported("AsyncIsochronousTransfer", this)

(* A request without data has no direction, and need have no length. *)
Usb2HcHookControlTransfer(this) ==
  \E direction \in {"In", "Out", "NoData"}, success \in BOOLEAN :
    ForwardAndDump("ControlTransfer", this, direction,
                   IF direction = "NoData" THEN NULL ELSE "given", "given", success)

(* The direction is in the endpoint's address. *)
Usb2HcHookBulkTransfer(this) ==
  \E direction \in {"In", "Out"}, success \in BOOLEAN :
    ForwardAndDump("BulkTransfer", this, direction, "given", "given", success)

Usb2HcHookSyncInterruptTransfer(this) ==
  \E direction \in {"In", "Out"}, success \in BOOLEAN :
    ForwardAndDump("SyncInterruptTransfer", this, direction, "given", "given", success)

(* Its length is a number, and its data are not dumped; the translator is   *)
(* OPTIONAL, as only devices behind a hub of another speed have one.        *)
Usb2HcHookAsyncInterruptTransfer(this) ==
  \E translator \in {NULL, "given"} :
    ForwardAndDump("AsyncInterruptTransfer", this, "NoData", NULL, translator, TRUE)

Call(this) ==
  \/ Usb2HcHookGetCapability(this) \/ Usb2HcHookReset(this)
  \/ Usb2HcHookGetState(this) \/ Usb2HcHookSetState(this)
  \/ Usb2HcHookControlTransfer(this) \/ Usb2HcHookBulkTransfer(this)
  \/ Usb2HcHookAsyncInterruptTransfer(this) \/ Usb2HcHookSyncInterruptTransfer(this)
  \/ Usb2HcHookIsochronousTransfer(this) \/ Usb2HcHookAsyncIsochronousTransfer(this)
  \/ Usb2HcHookGetRootHubPortStatus(this)
  \/ Usb2HcHookSetRootHubPortFeature(this) \/ Usb2HcHookClearRootHubPortFeature(this)

Next ==
  \/ InstallProtocol \/ UninstallProtocol \/ ReinstallProtocol
  \/ InitializeUsb2HcHook \/ Usb2HcProtocolCallback
  \/ \E i \in Installed : Call(i)
Spec == Init /\ [][Next]_vars
-----------------------------------------------------------------------------
(***************************************************************************)
(* A call through the hook reaches the controller that had the interface   *)
(* when it was first hooked, however often it was reinstalled, uninstalled *)
(* and hooked again since: never the hook itself, and never the assertion  *)
(* (Usb2HcHook.c:193, 216), nor does its dump end it but for the one       *)
(* translator that is optional.  An interface LocateProtocol has given is  *)
(* hooked, and once the event was dispatched as many wait at most as there *)
(* were signals that found it signalled (Usb2HcHook.c:677 locates one).    *)
(***************************************************************************)
HookTransparent ==
  /\ call.is \in {"call", "crash"} =>
       call.reached = firstOwner[call.this] /\ firstOwner[call.this] \in Controllers
  /\ call.is = "crash" => call.function = "AsyncInterruptTransfer"
  /\ \A i \in Installed : functions[i] = Hook \/ \E n \in 1 .. Len(unseen) : unseen[n] = i
  /\ pending = FALSE => Len(unseen) <= merged
================================================================================
