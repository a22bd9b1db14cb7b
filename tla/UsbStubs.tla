------------------------------ MODULE UsbStubs ------------------------------
(***************************************************************************)
(* The three stubs a USB fuzz case puts in place of real hardware: a host  *)
(* controller protocol (Usb2HcStubLib), a host controller PPI              *)
(* (Usb2HcPpiStubLib) and a USB I/O PPI (UsbIoPpiStubLib).  Each keeps, in *)
(* its own static variables, the three descriptor buffers it was           *)
(* initialized with, and answers descriptor requests from them, or from    *)
(* its built-in descriptors where it was given none.                       *)
(*                                                                         *)
(* A caller's data buffer is abstracted to where its leading bytes came    *)
(* from and how many there are: [from |-> source, count |-> n].  A source  *)
(* names the stub, the kind of descriptor and whether the bytes are the    *)
(* given or the built-in ones; "before" stands for the caller's own bytes. *)
(***************************************************************************)
EXTENDS Integers

CONSTANTS Sizes,        \* the sizes of the descriptor buffers a harness gives
          Lengths       \* the lengths a driver asks for

VARIABLES given,        \* given[s][k]: the size of stub s's buffer for k, or NoBuffer
          answer        \* the last transfer: what was asked and what came back

vars == <<given, answer>>

EFI_SUCCESS == "EFI_SUCCESS"
EFI_UNSUPPORTED == "EFI_UNSUPPORTED"

Kinds == {"device", "config", "string"}
Stubs == {"Usb2Hc", "Usb2HcPpi", "UsbIoPpi"}
NoBuffer == -1

(* sizeof of mDeviceDesc, mConfigDesc (configuration, interface, HID and   *)
(* endpoint descriptors in one packed structure) and mStringDesc.          *)
mDeviceDesc == 18
mConfigDesc == 9 + 9 + 9 + 7
mStringDesc == 4

SizeOf(kind) == [device |-> mDeviceDesc, config |-> mConfigDesc,
                 string |-> mStringDesc][kind]

Before == [from |-> "before", count |-> 0]
NoAnswer == [service |-> "none"]

Smaller(a, b) == IF a > b THEN b ELSE a

Descriptor_BuiltInSize(stub, kind, asked) ==
  [ from  |-> << stub, kind, IF given[stub][kind] # NoBuffer THEN "given" ELSE "built in" >>,
    count |-> Smaller(asked, SizeOf(kind)) ]

(* What one stub answers to a GET_DESCRIPTOR request for a kind of         *)
(* descriptor: the bytes it copies, at most as many as it was asked for.   *)
Descriptor(stub, kind, asked) ==
  LET size == given[stub][kind]
  IN  IF size # NoBuffer
        THEN [from |-> <<stub, kind, "given">>, count |-> Smaller(asked, size)]
        ELSE [from |-> <<stub, kind, "built in">>, count |-> Smaller(asked, SizeOf(kind))]

(* The requests a driver makes.  A standard GET_DESCRIPTOR of the device   *)
(* (direction in, request type 0x80) for one of the three kinds is         *)
(* answered; any other succeeds without moving a byte.                     *)
Requests == [in : BOOLEAN, standard : BOOLEAN, get : BOOLEAN,
             value : Kinds \cup {"report"}]

Answered(request) == /\ request.in
                     /\ request.standard
                     /\ request.get
                     /\ request.value \in Kinds

Transfer(stub, request, asked) ==
  [service |-> "control", stub |-> stub, request |-> request, asked |-> asked,
   status |-> EFI_SUCCESS,
   data |-> IF Answered(request) THEN Descriptor(stub, request.value, asked) ELSE Before]

(* With DataLength by reference the stub says how much it copied.          *)
ByReference(transfer) ==
  [transfer EXCEPT !.asked = IF Answered(transfer.request) THEN transfer.data.count ELSE @]

Usb2HcStubControlTransfer(request, asked) ==
  ByReference(Transfer("Usb2Hc", request, asked))

Usb2HcPpiStubControlTransfer(request, asked) ==
  ByReference(Transfer("Usb2HcPpi", request, asked))

(* UsbIoPpiStubControlTransfer has the length by value: the caller cannot  *)
(* be told.                                                                *)
UsbIoPpiStubControlTransfer(request, asked) == Transfer("UsbIoPpi", request, asked)

(* The services that are not simulated.                                    *)
Usb2HcStubStateServices == {"GetCapability", "Reset", "GetState", "SetState"}
Usb2HcStubOtherServices ==
  {"BulkTransfer", "AsyncInterruptTransfer", "SyncInterruptTransfer",
   "IsochronousTransfer", "AsyncIsochronousTransfer", "GetRootHubPortStatus",
   "SetRootHubPortFeature", "ClearRootHubPortFeature"}
Usb2HcPpiStubOtherServices ==
  {"BulkTransfer", "GetRootHubPortNumber", "GetRootHubPortStatus",
   "SetRootHubPortFeature", "ClearRootHubPortFeature"}
UsbIoPpiStubOtherServices ==
  {"BulkTransfer", "GetInterfaceDescriptor", "GetEndpointDescriptor", "PortReset"}

Unsupported(stub) ==
  CASE stub = "Usb2Hc" -> Usb2HcStubStateServices \cup Usb2HcStubOtherServices
    [] stub = "Usb2HcPpi" -> Usb2HcPpiStubOtherServices
    [] stub = "UsbIoPpi" -> UsbIoPpiStubOtherServices

-----------------------------------------------------------------------------
Init == /\ given = [s \in Stubs |-> [k \in Kinds |-> NoBuffer]]
        /\ answer = NoAnswer

(* Initialize overwrites all three of the stub's buffers at once and       *)
(* always hands out the same static interface.                             *)
Usb2HcStubInitialize(buffers) ==
  /\ given' = [given EXCEPT !["Usb2Hc"] = buffers]
  /\ answer' = NoAnswer

Usb2HcPpiStubInitialize(buffers) ==
  /\ given' = [given EXCEPT !["Usb2HcPpi"] = buffers]
  /\ answer' = NoAnswer

UsbIoPpiStubInitialize(buffers) ==
  /\ given' = [given EXCEPT !["UsbIoPpi"] = buffers]
  /\ answer' = NoAnswer

Initialize == /\ answer = NoAnswer
              /\ \E buffers \in [Kinds -> Sizes \cup {NoBuffer}] :
                   \/ Usb2HcStubInitialize(buffers)
                   \/ Usb2HcPpiStubInitialize(buffers)
                   \/ UsbIoPpiStubInitialize(buffers)

ControlTransfer == \E request \in Requests, asked \in Lengths :
  /\ answer = NoAnswer
  /\ answer' \in {Usb2HcStubControlTransfer(request, asked),
                  Usb2HcPpiStubControlTransfer(request, asked),
                  UsbIoPpiStubControlTransfer(request, asked)}
  /\ UNCHANGED given

OtherService == \E stub \in Stubs : \E name \in Unsupported(stub) :
  /\ answer = NoAnswer
  /\ answer' = [service |-> name, stub |-> stub, status |-> EFI_UNSUPPORTED]
  /\ UNCHANGED given

(* The driver has looked at the answer.                                    *)
Return == answer # NoAnswer /\ answer' = NoAnswer /\ UNCHANGED given

Next == Initialize \/ ControlTransfer \/ OtherService \/ Return

Spec == Init /\ [][Next]_vars

-----------------------------------------------------------------------------
(* A driver that believes the length a host controller stub reports reads  *)
(* only bytes that this stub copied in this very transfer, out of the      *)
(* descriptor it asked for, and never past that descriptor's end.  Stated  *)
(* of the descriptor requests: any other request leaves the driver's own   *)
(* bytes under a successful status.                                        *)
DescriptorsExact ==
  (answer.service = "control" /\ Answered(answer.request)) =>
    LET size == given[answer.stub][answer.request.value]
    IN  /\ answer.data.from \in {answer.stub} \X {answer.request.value} \X {"given", "built in"}
        /\ answer.data.from[3] = "built in" => size = NoBuffer
        /\ answer.data.count <= (IF size = NoBuffer THEN SizeOf(answer.request.value) ELSE size)
        /\ answer.stub # "UsbIoPpi" => answer.asked = answer.data.count
=============================================================================
