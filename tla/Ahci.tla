-------------------------------- MODULE Ahci --------------------------------
(***************************************************************************)
(* The AHCI driver of TestCase/MdeModulePkg/Bus/Ata/AhciPei/Override, as   *)
(* it is built here: the register accessors are cut off from the hardware, *)
(* so every register reads as zero and keeps nothing.  Devices are created *)
(* from identify data; block reads are cut into ATA commands, which the    *)
(* pass-through interface bounds and the transfer functions describe to    *)
(* the controller; security commands go the same way.                      *)
(*                                                                         *)
(* Numbers are scaled: a byte has Byte values, a half byte Half values, a  *)
(* UINT32 Word values.                                                     *)
(***************************************************************************)
EXTENDS Integers, FiniteSets, Sequences, FiniteSetsExt

CONSTANTS
  Byte, Half, Word,      \* how many values these types have
  DefaultBlock,          \* 0x200, the size of a block unless identified
  AHCI_MAX_PRDT_NUMBER,
  AHCI_MAX_DATA_PER_PRDT,
  Identifications,       \* the identify data devices give
  Ports,                 \* port numbers
  Reads,                 \* arguments [index, lba, size, buffer, aligned] of ReadBlocks
  Payloads,              \* sizes of security payloads
  Packets,               \* what clients pass through: see Packet
  Timeouts,              \* in multiples of the delay between two polls
  AllocationMayFail,     \* AllocatePages and AllocatePool may return NULL
  MaxCalls               \* bound: calls

VARIABLES
  devices,               \* DeviceList
  active, trusted,       \* ActiveDevices and TrustComputingDevices
  disks,                 \* the ports with a disk; DeviceIndex is their number
  descriptors,           \* the structures of AhciRegisters that are allocated
  rfisAbove,             \* AhciRFis lies above 4 GB, as pages of a 64-bit host do
  previousPort, previousMultiplier, \* PreviousPort and PreviousPortMultiplier
  call,                  \* the call that is running or has just returned
  commands,              \* the commands this call has sent
  calls                  \* how many calls there were

vars == << devices, active, trusted, disks, descriptors, rfisAbove, previousPort,
           previousMultiplier, call, commands, calls >>

None     == 65535        \* 0xFFFF, a port number or port multiplier
Forever  == 1000         \* the delay of a wait without a timeout

MAX_28BIT_TRANSFER_BLOCK_NUM     == Byte
MAX_48BIT_TRANSFER_BLOCK_NUM     == 2 * Byte
MAX_28BIT_ADDRESSING_CAPACITY    == Byte * Byte * Byte * Half - 1

mMaxTransferBlockNumber(lba48) ==
  IF lba48 THEN MAX_48BIT_TRANSFER_BLOCK_NUM ELSE MAX_28BIT_TRANSFER_BLOCK_NUM

(* How many blocks an address of either kind can name. *)
Reach(lba48) ==
  IF lba48 THEN Byte * (Byte * (Byte * (Byte * (Byte * Byte)))) ELSE Byte * (Byte * (Byte * Half))

MinOf(a, b) == IF a <= b THEN a ELSE b

(***************************************************************************)
(* Registers, as sets of the bits that are set.                            *)
(***************************************************************************)
AhciReadReg(register) == {}

(* Nothing but the first read matters: what is read never changes. *)
AhciWaitMmioSet(register, mask, test) ==
  IF AhciReadReg(register) \cap mask = test THEN "SUCCESS" ELSE "TIMEOUT"

AhciReset == AhciWaitMmioSet("GHC", {"RESET"}, {})

AhciStopCommand ==
  IF AhciReadReg("CMD") \cap {"ST", "CR"} = {} THEN "SUCCESS"
  ELSE AhciWaitMmioSet("CMD", {"CR"}, {})

AhciDisableFisReceive ==
  CASE AhciReadReg("CMD") \cap {"ST", "CR"} # {} -> "UNSUPPORTED"
    [] "FR" \notin AhciReadReg("CMD")            -> "SUCCESS"
    [] OTHER                                     -> AhciWaitMmioSet("CMD", {"FR"}, {})

AhciEnableFisReceive == "SUCCESS"

(* The status of the engine does not keep the command from being issued. *)
AhciStartCommand == AhciEnableFisReceive

(* How often AhciWaitMemSet looks at the received FIS: AhciBuildCommand has *)
(* cleared it and nothing fills it in.                                      *)
AhciWaitMemSet(timeout) == IF timeout = 0 THEN Forever ELSE timeout + 1

AhciGetNumberOfPortsFromMap(map) == Cardinality(map)

(***************************************************************************)
(* Transfer descriptors.  There is no IOMMU: mappings are NULL.            *)
(***************************************************************************)
IoMmuAllocateBuffer == IF AllocationMayFail THEN {"SUCCESS", "OUT_OF_RESOURCES"} ELSE {"SUCCESS"}
NULL == "NULL"
IoMmuMap == [status |-> "SUCCESS", mapping |-> NULL]

(* On an error only what has a mapping is freed. *)
AhciCreateTransferDescriptor ==
  \E rfis, list, table \in IoMmuAllocateBuffer :
    /\ rfisAbove' \in BOOLEAN
    /\ descriptors' = CASE rfis  # "SUCCESS" -> {}
                        [] rfis = "SUCCESS" /\ list # "SUCCESS" ->
                             IF IoMmuMap.mapping = NULL THEN {"RFis"} ELSE {}
                        [] rfis = "SUCCESS" /\ list = "SUCCESS" /\ table # "SUCCESS" ->
                             IF IoMmuMap.mapping = NULL THEN {"RFis", "CmdList"} ELSE {}
                        [] OTHER -> {"RFis", "CmdList", "CmdTable"}

(***************************************************************************)
(* Devices.                                                                *)
(***************************************************************************)
GetAtapi6Capacity(id) == IF id.lba48 THEN id.capacity48 ELSE 0

Unidentified == [lastBlock |-> 0, blockSize |-> 0, lba48 |-> FALSE, trust |-> FALSE]

(* The words of a logical sector are counted if the data says they are. *)
IdentifyAtaDevice(id) ==
  LET lba48    == GetAtapi6Capacity(id) > MAX_28BIT_ADDRESSING_CAPACITY
      capacity == IF lba48 THEN GetAtapi6Capacity(id) ELSE id.capacity28
      size     == IF id.longSectors THEN (2 * id.words) % Word ELSE DefaultBlock
  IN  IF \/ id.notDisk \/ capacity = 0 \/ size = 0
         \/ size > (Word - 1) \div mMaxTransferBlockNumber(lba48)
        THEN Unidentified
        ELSE [lastBlock |-> capacity - 1, blockSize |-> size, lba48 |-> lba48, trust |-> id.trust]

(* The first of the places of a list; 0 if there is none. *)
First(places) == IF places = {} THEN 0 ELSE Min(places)

SearchDeviceByPort(port, multiplier) ==
  First({ i \in DOMAIN devices : devices[i].port = port /\ devices[i].multiplier = multiplier })
SearchDeviceByIndex(index) == First({ i \in DOMAIN devices : devices[i].index = index })
SearchTrustComputingDeviceByIndex(index) ==
  First({ i \in DOMAIN devices : devices[i].trustIndex = index })

Returned(fn, arguments, status, value) ==
  [is |-> "returned", fn |-> fn, arguments |-> arguments, status |-> status, value |-> value]
NoCall == Returned("none", 0, "SUCCESS", 0)

(* The host goes on: nothing was read where no memory is. *)
Idle == call.is = "returned" /\ call.status # "FAULT"

(* Disks are found in the order of their ports.  Each is given the next    *)
(* number, whether a device comes of it or not.                            *)
CreateNewDevice ==
  \E id \in Identifications, port \in Ports, mayFail \in {FALSE, AllocationMayFail} :
    LET new == IdentifyAtaDevice(id)
        ok  == new # Unidentified /\ ~mayFail
    IN  /\ descriptors # {}
        /\ Idle
        /\ \A i \in DOMAIN disks : disks[i] < port
        /\ disks' = Append(disks, port)
        /\ active'  = IF ok THEN active + 1 ELSE active
        /\ trusted' = IF ok /\ new.trust THEN trusted + 1 ELSE trusted
        /\ devices' = IF ok
             THEN Append(devices, [port |-> port, multiplier |-> None, index |-> Len(disks) + 1,
                                   trustIndex |-> IF new.trust THEN trusted + 1 ELSE 0,
                                   lba48 |-> new.lba48, trust |-> new.trust,
                                   lastBlock |-> new.lastBlock, blockSize |-> new.blockSize])
             ELSE devices
        /\ UNCHANGED << descriptors, rfisAbove, previousPort, previousMultiplier, calls >>
        /\ call' = NoCall /\ commands' = << >>

(***************************************************************************)
(* Commands.                                                               *)
(***************************************************************************)
RShift8(n) == n \div Byte

(* The task file of a block transfer, with the head given. *)
TaskFile(lba48, lba, blocks, head) ==
  LET lba1 == RShift8(lba)
      lba2 == RShift8(lba1)
      lba3 == RShift8(lba2)
      lba4 == RShift8(lba3)
      lba5 == RShift8(lba4)
  IN  [ count |-> blocks % Byte,
        number |-> lba % Byte, low |-> lba1 % Byte, high |-> lba2 % Byte, head |-> head,
        countExp  |-> IF lba48 THEN RShift8(blocks) % Byte ELSE 0,
        numberExp |-> IF lba48 THEN lba3 % Byte ELSE 0,
        lowExp    |-> IF lba48 THEN lba4 % Byte ELSE 0,
        highExp   |-> IF lba48 THEN lba5 % Byte ELSE 0 ]

BlockCommand_DropsHead(lba48, lba, blocks) == TaskFile(lba48, lba, blocks, 0)

(* The head holds four bits of the address and, above them, the bit that   *)
(* selects the second device.                                              *)
BlockCommand(lba48, lba, blocks) ==
  TaskFile(lba48, lba, blocks,
           IF lba48 THEN 0 ELSE RShift8(RShift8(RShift8(lba))) % (2 * Half))

NoCommand == BlockCommand(FALSE, 0, 0)

(* The command and its payload, counted in sectors, of a trusted send or   *)
(* receive.                                                                *)
TrustCommand(size) ==
  [NoCommand EXCEPT !.count = (size \div DefaultBlock) % Byte,
                    !.number = RShift8(size \div DefaultBlock) % Byte]

(* A packet: protocol, lengths in bytes or sectors, whether its buffers are *)
(* aligned, and the timeout.                                                *)
Packet(protocol, in, out, bytes, aligned, timeout) ==
  [ protocol |-> protocol, in |-> in, out |-> out, bytes |-> bytes,
    aligned |-> aligned, timeout |-> timeout ]

(* The regions the controller is told to transfer; what was there if there *)
(* are too many.                                                           *)
Unbuilt == << [base |-> 0, last |-> -1] >>

AhciBuildCommand(length) ==
  LET number == (length + AHCI_MAX_DATA_PER_PRDT - 1) \div AHCI_MAX_DATA_PER_PRDT
      left(i) == length - (i - 1) * AHCI_MAX_DATA_PER_PRDT
  IN  IF number > AHCI_MAX_PRDT_NUMBER THEN Unbuilt
      ELSE [ i \in 1 .. number |->
               [ base |-> (i - 1) * AHCI_MAX_DATA_PER_PRDT,
                 last |-> IF left(i) < AHCI_MAX_DATA_PER_PRDT
                            THEN left(i) - 1 ELSE AHCI_MAX_DATA_PER_PRDT - 1 ] ]

(* What became of a command; it looks for the received FIS under an address *)
(* that is cut to 32 bits, or under a whole one.                            *)
Sends(regions, length, polls, cut, status) ==
  [sent |-> TRUE, regions |-> regions, length |-> length, polls |-> polls, cut |-> cut,
   status |-> status]
Refuses(status) ==
  [sent |-> FALSE, regions |-> << >>, length |-> 0, polls |-> 0, cut |-> FALSE, status |-> status]

(* A read ends at once.  A write waits for a FIS and ignores that none came. *)
AhciPioTransfer(read, length, timeout) ==
  IF length \div AHCI_MAX_PRDT_NUMBER > AHCI_MAX_DATA_PER_PRDT THEN Refuses("UNSUPPORTED")
  ELSE IF IoMmuMap.status # "SUCCESS" THEN Refuses("OUT_OF_RESOURCES")
  ELSE Sends(AhciBuildCommand(length), length,
             IF read \/ AhciStartCommand # "SUCCESS" THEN 0 ELSE AhciWaitMemSet(timeout),
             AhciStartCommand = "SUCCESS",
             IF "ERR" \in AhciReadReg("TFD") THEN "DEVICE_ERROR" ELSE "SUCCESS")

AhciNonDataTransfer(timeout) ==
  Sends(AhciBuildCommand(0), 0, AhciWaitMemSet(timeout), FALSE, "TIMEOUT")

AhciPassThruExecute(packet) ==
  CASE packet.protocol = "NON_DATA"     -> AhciNonDataTransfer(packet.timeout)
    [] packet.protocol = "PIO_DATA_IN"  -> AhciPioTransfer(TRUE, packet.in, packet.timeout)
    [] packet.protocol = "PIO_DATA_OUT" -> AhciPioTransfer(FALSE, packet.out, packet.timeout)
    [] OTHER                            -> Refuses("UNSUPPORTED")

AhciAtaPassThruPassThru(port, multiplier, packet) ==
  LET found == SearchDeviceByPort(port, multiplier)
      limit == (mMaxTransferBlockNumber(devices[found].lba48) * devices[found].blockSize) % Word
      inBytes(n) == IF packet.bytes THEN n ELSE (n * devices[found].blockSize) % Word
      sized == [packet EXCEPT !.in = inBytes(@), !.out = inBytes(@)]
  IN  CASE ~packet.aligned -> Refuses("INVALID_PARAMETER")
        [] packet.aligned /\ found = 0 -> Refuses("NOT_FOUND")
        [] packet.aligned /\ found # 0 /\ (sized.in > limit \/ sized.out > limit) ->
             Refuses("BAD_BUFFER_SIZE")
        [] OTHER -> AhciPassThruExecute(sized)

TransferAtaDevice(device, aligned, lba, blocks) ==
  AhciAtaPassThruPassThru(device.port, device.multiplier,
    Packet("PIO_DATA_IN", blocks, 0, FALSE, aligned, 1))

(* A payload to be sent is copied to an aligned buffer if it has to be. *)
TrustTransferAtaDevice(device, size, send, aligned, timeout, mayFail) ==
  IF size # 0 /\ send /\ ~aligned /\ mayFail THEN Refuses("OUT_OF_RESOURCES")
  ELSE AhciAtaPassThruPassThru(device.port, device.multiplier,
    IF size = 0 THEN Packet("NON_DATA", 0, 0, TRUE, TRUE, timeout)
    ELSE IF send THEN Packet("PIO_DATA_OUT", 0, size % Word, TRUE, TRUE, timeout)
    ELSE Packet("PIO_DATA_IN", size % Word, 0, TRUE, aligned, timeout))

(***************************************************************************)
(* Calls.                                                                  *)
(***************************************************************************)
Begin == /\ Idle
         /\ descriptors = {"RFis", "CmdList", "CmdTable"}
         /\ calls < MaxCalls
         /\ calls' = calls + 1
         /\ UNCHANGED << devices, active, trusted, disks, descriptors, rfisAbove >>

State == UNCHANGED << devices, active, trusted, disks, descriptors, rfisAbove, previousPort,
                      previousMultiplier, calls >>

(* Whether the FIS is looked for where it is not: what is read there is     *)
(* anything, or nothing can be read there.                                  *)
Astray(outcome) == outcome.sent /\ outcome.cut /\ rfisAbove
Statuses(outcome) == {outcome.status} \cup (IF Astray(outcome) THEN {"FAULT"} ELSE {})

(* A call that sends one command and waits until the outcome is there. *)
SendOne(fn, arguments, taskFile, outcome) ==
  /\ commands' = IF outcome.sent
       THEN << [taskFile |-> taskFile, regions |-> outcome.regions,
                length |-> outcome.length, offset |-> 0] >>
       ELSE << >>
  /\ \E polls \in {outcome.polls} \cup (IF Astray(outcome) THEN {0} ELSE {}),
        status \in Statuses(outcome) :
       call' = [is |-> "running", fn |-> "wait", polls |-> polls,
                returns |-> Returned(fn, arguments, status, 0)]

Wait ==
  /\ call.is = "running" /\ call.fn = "wait"
  /\ call' = CASE call.polls = 0       -> call.returns
               [] call.polls = Forever -> call
               [] OTHER                -> [call EXCEPT !.polls = @ - 1]
  /\ State /\ UNCHANGED commands

(* AhciRead: what it answers without a transfer; "" if it transfers. *)
ReadAnswer(r, device) ==
  CASE ~r.buffer -> "INVALID_PARAMETER"
    [] r.buffer /\ r.size = 0 -> "SUCCESS"
    [] r.buffer /\ r.size % device.blockSize # 0 -> "BAD_BUFFER_SIZE"
    [] r.buffer /\ r.size > 0 /\ r.size % device.blockSize = 0
         /\ (\/ r.lba > device.lastBlock
             \/ r.size \div device.blockSize - 1 > device.lastBlock - r.lba) -> "INVALID_PARAMETER"
    [] OTHER -> ""

AhciBlockIoReadBlocks ==
  \E r \in Reads :
    LET found  == SearchDeviceByIndex(r.index)
        answer == IF r.index = 0 \/ r.index > active THEN "INVALID_PARAMETER"
                  ELSE IF found = 0 THEN "NOT_FOUND"
                  ELSE ReadAnswer(r, devices[found])
    IN  /\ Begin
        /\ commands' = << >>
        /\ call' = IF answer # "" THEN Returned("ReadBlocks", r, answer, found)
                   ELSE [is |-> "running", fn |-> "AccessAtaDevice", arguments |-> r,
                         device |-> found, lba |-> r.lba, offset |-> 0,
                         left |-> r.size \div devices[found].blockSize]
        /\ UNCHANGED << previousPort, previousMultiplier >>

(* One round of the loop in AccessAtaDevice. *)
AccessAtaDevice ==
  /\ call.is = "running" /\ call.fn = "AccessAtaDevice"
  /\ LET device == devices[call.device]
         blocks == MinOf(call.left, mMaxTransferBlockNumber(device.lba48))
         out    == TransferAtaDevice(device, call.arguments.aligned, call.lba, blocks)
     IN  \E status \in Statuses(out) :
         /\ commands' = IF out.sent
              THEN Append(commands, [taskFile |-> BlockCommand(device.lba48, call.lba, blocks),
                                     regions |-> out.regions, length |-> out.length,
                                     offset |-> call.offset])
              ELSE commands
         /\ call' = IF status # "SUCCESS" \/ call.left = blocks
              THEN Returned("ReadBlocks", call.arguments, status, call.device)
              ELSE [call EXCEPT !.left = @ - blocks, !.lba = @ + blocks,
                                !.offset = @ + blocks * device.blockSize]
  /\ State

(* AhciStorageSecurityReceiveData and AhciStorageSecuritySendData *)
AhciStorageSecurity(fn, send) ==
  \E index \in 0 .. trusted + 1, size \in Payloads, timeout \in Timeouts, aligned \in BOOLEAN,
     mayFail \in {FALSE, AllocationMayFail} :
    LET found == SearchTrustComputingDeviceByIndex(index)
        answer == IF (~send /\ size = 0) \/ index = 0 \/ index > trusted THEN "INVALID_PARAMETER"
                  ELSE IF found = 0 THEN "NOT_FOUND"
                  ELSE IF ~devices[found].trust THEN "UNSUPPORTED"
                  ELSE ""
    IN  /\ Begin
        /\ IF answer # "" THEN /\ call' = Returned(fn, size, answer, found)
                               /\ commands' = << >>
           ELSE SendOne(fn, size, TrustCommand(size),
                        TrustTransferAtaDevice(devices[found], size, send, aligned, timeout, mayFail))
        /\ UNCHANGED << previousPort, previousMultiplier >>

AhciStorageSecurityReceiveData == AhciStorageSecurity("ReceiveData", FALSE)
AhciStorageSecuritySendData    == AhciStorageSecurity("SendData", TRUE)

PassThru ==
  \E packet \in Packets, port \in Ports :
    /\ Begin
    /\ SendOne("PassThru", packet, NoCommand, AhciAtaPassThruPassThru(port, None, packet))
    /\ UNCHANGED << previousPort, previousMultiplier >>

(* The device the search of the two enumerations comes to is the answer. *)
AhciAtaPassThruGetNextPort ==
  \E port \in Ports \cup {None} :
    LET found  == IF port = None THEN First(DOMAIN devices)
                  ELSE IF port = previousPort
                    THEN First({ i \in DOMAIN devices : devices[i].port > port }) ELSE 0
        status == IF found # 0 THEN "SUCCESS"
                  ELSE IF port \in {None, previousPort} THEN "NOT_FOUND" ELSE "INVALID_PARAMETER"
    IN  /\ Begin
        /\ commands' = << >>
        /\ call' = Returned("GetNextPort", [port |-> port, previous |-> previousPort], status,
                            IF found = 0 THEN port ELSE devices[found].port)
        /\ previousPort' = IF found = 0 THEN previousPort ELSE devices[found].port
        /\ UNCHANGED previousMultiplier

AhciAtaPassThruGetNextDevice ==
  \E port \in Ports, multiplier \in {0, None} :
    LET found == CASE previousMultiplier = None -> 0
                   [] previousMultiplier # None /\ multiplier = previousMultiplier ->
                        First({ i \in DOMAIN devices :
                                  devices[i].port = port /\ devices[i].multiplier > multiplier })
                   [] OTHER -> IF multiplier = None
                                 THEN First({ i \in DOMAIN devices : devices[i].port = port }) ELSE 0
        status == IF found # 0 THEN "SUCCESS"
                  ELSE IF previousMultiplier = None \/ multiplier \in {None, previousMultiplier}
                    THEN "NOT_FOUND" ELSE "INVALID_PARAMETER"
    IN  /\ Begin
        /\ commands' = << >>
        /\ call' = Returned("GetNextDevice", [port |-> port, multiplier |-> multiplier], status,
                            IF found = 0 THEN multiplier ELSE devices[found].multiplier)
        /\ previousMultiplier' = IF found # 0 THEN devices[found].multiplier
                                 ELSE IF previousMultiplier = None THEN 0 ELSE previousMultiplier
        /\ UNCHANGED previousPort

(* AhciModeInitialization resets the controller and finds no port that is   *)
(* implemented; a client may call AhciCreateTransferDescriptor itself.      *)
AhciModeInitialization ==
  /\ descriptors = {}
  /\ AhciReset = "SUCCESS"
  /\ MinOf(Cardinality(AhciReadReg("PI")), AhciGetNumberOfPortsFromMap(Ports)) = 0
  /\ AhciCreateTransferDescriptor
  /\ UNCHANGED << devices, active, trusted, disks, previousPort, previousMultiplier,
                  call, commands, calls >>

Init ==
  /\ devices = << >> /\ active = 0 /\ trusted = 0 /\ disks = << >>
  /\ descriptors = {} /\ rfisAbove = FALSE
  /\ previousPort = 0 /\ previousMultiplier = 0
  /\ call = NoCall
  /\ commands = << >>
  /\ calls = 0

Next ==
  \/ AhciModeInitialization \/ CreateNewDevice
  \/ AhciBlockIoReadBlocks \/ AccessAtaDevice
  \/ AhciStorageSecurityReceiveData \/ AhciStorageSecuritySendData
  \/ PassThru \/ Wait
  \/ AhciAtaPassThruGetNextPort \/ AhciAtaPassThruGetNextDevice

Spec == Init /\ [][Next]_vars

(***************************************************************************)
(* Properties.                                                             *)
(***************************************************************************)
(* Pieces that lie one behind the other, from first to before end.         *)
Consecutive(starts, sizes, first, end) ==
  /\ \A i \in DOMAIN starts :
       starts[i] = IF i = 1 THEN first ELSE starts[i - 1] + sizes[i - 1]
  /\ end = IF starts = << >> THEN first ELSE starts[Len(starts)] + sizes[Len(starts)]

(* What a device makes of a task file: 0 stands for the largest count. *)
AddressOf(c, lba48) ==
  c.number + Byte * (c.low + Byte * (c.high + Byte *
    (IF lba48 THEN c.numberExp + Byte * (c.lowExp + Byte * c.highExp) ELSE c.head % Half)))
CountOf(c, lba48) ==
  LET n == c.count + (IF lba48 THEN Byte * c.countExp ELSE 0)
  IN  IF n = 0 THEN IF lba48 THEN Byte * Byte ELSE Byte ELSE n

(* The regions make up length bytes. *)
Cover(regions, length) ==
  /\ Consecutive([ i \in DOMAIN regions |-> regions[i].base ],
                 [ i \in DOMAIN regions |-> regions[i].last + 1 ], 0, length)
  /\ \A i \in DOMAIN regions : regions[i].last >= 0

(* The lengths AhciMode.c:759, which divides before it compares, lets pass *)
(* although they take a region too many.                                   *)
RoundedDown(length) ==
  /\ length > AHCI_MAX_PRDT_NUMBER * AHCI_MAX_DATA_PER_PRDT
  /\ length \div AHCI_MAX_PRDT_NUMBER <= AHCI_MAX_DATA_PER_PRDT

(* Commands, as the device reads them, name the blocks from lba to before  *)
(* end, in order, and fill the buffer with them from its beginning, but    *)
(* for the lengths that take a region too many.                            *)
Transferred(sent, dev, lba, end) ==
  LET starts == [ i \in DOMAIN sent |-> AddressOf(sent[i].taskFile, dev.lba48) ]
      counts == [ i \in DOMAIN sent |-> CountOf(sent[i].taskFile, dev.lba48) ]
  IN  /\ Consecutive(starts, counts, lba, end)
      /\ \A i \in DOMAIN sent :
           LET length == counts[i] * dev.blockSize
           IN  /\ sent[i].taskFile.head < Half
               /\ sent[i].offset = (starts[i] - lba) * dev.blockSize
               /\ RoundedDown(length) \/ Cover(sent[i].regions, length)

(* ReadBlocks has read something and said that it succeeded. *)
HasRead == /\ call.is = "returned" /\ call.fn = "ReadBlocks" /\ call.status = "SUCCESS"
           /\ call.arguments.size > 0

ReadExactly(r, dev) ==
  LET blocks == r.size \div dev.blockSize
  IN  /\ Transferred(commands, dev, r.lba, r.lba + blocks)
      /\ blocks * dev.blockSize = r.size

(***************************************************************************)
(* When ReadBlocks succeeds, the commands it sent, as the device reads     *)
(* them, name exactly the blocks that were asked for, in order, and the    *)
(* regions of memory they fill make up the buffer, whatever the number of  *)
(* commands (AhciPeiBlockIo.c:64, AhciMode.c:1898, 424).  It is so for     *)
(* blocks an address of the device's kind can name; a device that claims   *)
(* more, which IdentifyAtaDevice does not check, is read elsewhere.        *)
(***************************************************************************)
ReadsWhatWasAsked ==
  HasRead =>
    LET r   == call.arguments
        dev == devices[call.value]
    IN  r.lba + (r.size \div dev.blockSize) <= Reach(dev.lba48) => ReadExactly(r, dev)

(***************************************************************************)
(* A client that asks for the first port and then for the one behind the   *)
(* port it was given comes to every port with a device: none is passed     *)
(* over (AhciPeiPassThru.c:286).                                           *)
(***************************************************************************)
PortsEnumerated ==
  call.is = "returned" /\ call.fn = "GetNextPort" =>
    LET from   == IF call.arguments.port = None THEN -1 ELSE call.arguments.port
        behind == { p \in { devices[i].port : i \in DOMAIN devices } : p > from }
    IN  from \in {-1, call.arguments.previous} =>
          IF behind = {} THEN call.status = "NOT_FOUND"
          ELSE /\ call.status = "SUCCESS"
               /\ call.value \in behind /\ \A p \in behind : call.value <= p

(***************************************************************************)
(* No two devices have a number in common, and every trusted one is found  *)
(* under its second number (AhciMode.c:1588, AhciPeiBlockIo.c:25,          *)
(* AhciPeiStorageSecurity.c:26).                                           *)
(***************************************************************************)
NumbersUnique ==
  /\ \A d \in DOMAIN devices : SearchDeviceByIndex(devices[d].index) = d
  /\ \A i \in 1 .. trusted : /\ SearchTrustComputingDeviceByIndex(i) # 0
                             /\ devices[SearchTrustComputingDeviceByIndex(i)].trust
  /\ Len(devices) = active

(***************************************************************************)
(* ASSERT (PrdtNumber <= AHCI_MAX_PRDT_NUMBER) of AhciMode.c:464, below    *)
(* which a command goes out with the regions of the one before it, fails   *)
(* for no length but the few that are rounded down.                        *)
(***************************************************************************)
RegionsFit ==
  \A i \in DOMAIN commands : commands[i].regions = Unbuilt => RoundedDown(commands[i].length)

(* The driver does to the disk and the memory what it was asked for.       *)
AhciExact == ReadsWhatWasAsked /\ PortsEnumerated /\ NumbersUnique /\ RegionsFit
================================================================================
