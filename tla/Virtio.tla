------------------------------- MODULE Virtio -------------------------------
(***************************************************************************)
(* TestStub/VirtioPciDevice10StubLib and VirtioBlkStubLib: a Virtio 1.0    *)
(* device that is nothing but the memory of a test buffer, the parsing of  *)
(* its PCI capabilities, and the initialisation of a block device, which   *)
(* is written against the protocol and so for any device.  A register is   *)
(* its value, a set of bits or a number; addresses are names.              *)
(***************************************************************************)
EXTENDS Integers, Sequences, FiniteSets

CONSTANTS
  Capabilities,          \* the lists of vendor capabilities a device may have
  FeatureWords,          \* contents of the 32-bit device feature register
  Capacities, BlkSizes,  \* contents of the configuration of the block device
  BlockExps, QueueSizes,
  CallsMayFail,          \* whether calls of the protocol may fail
  PAGE_SIZE, BAR_COUNT

VARIABLES
  device,                \* VIRTIO_1_0_DEV: its three configurations
  memory,                \* the registers of the device
  ring,                  \* Dev->Ring: none, allocated, mapped
  media,                 \* BlockIoMedia
  init                   \* VirtioBlkInit: where it is, and its locals

vars == << device, memory, ring, media, init >>

(***************************************************************************)
(* The registers: their configuration, offset and size.                    *)
(***************************************************************************)
Field ==
  [ DeviceFeatureSelect |-> << "common",  0, 4 >>, DeviceFeature |-> << "common",  4, 4 >>,
    DriverFeatureSelect |-> << "common",  8, 4 >>, DriverFeature |-> << "common", 12, 4 >>,
    DeviceStatus        |-> << "common", 20, 1 >>, QueueSelect   |-> << "common", 22, 2 >>,
    QueueSize           |-> << "common", 24, 2 >>, QueueEnable   |-> << "common", 28, 2 >>,
    QueueNotifyOff      |-> << "common", 30, 2 >>, QueueDesc     |-> << "common", 32, 8 >>,
    QueueAvail          |-> << "common", 40, 8 >>, QueueUsed     |-> << "common", 48, 8 >>,
    Capacity            |-> << "specific", 0, 8 >>, BlkSize      |-> << "specific", 20, 4 >>,
    PhysicalBlockExp    |-> << "specific", 24, 1 >> ]

CommonLength == 56       \* sizeof (VIRTIO_PCI_CAP_COMMON_CONFIG)
BlkLength    == 32       \* sizeof (VIRTIO_BLK_CONFIG)

NoConfig == [exists |-> FALSE, bar |-> 0, offset |-> 0, length |-> 0]
NoDevice == [common |-> NoConfig, notify |-> NoConfig, specific |-> NoConfig, multiplier |-> 0]

(* ParseBufferAndInitVirtioPciDev10 for a buffer with a valid header. *)
BufferDevice ==
  [ common   |-> [exists |-> TRUE, bar |-> 0, offset |-> 0, length |-> CommonLength],
    specific |-> [exists |-> TRUE, bar |-> 0, offset |-> CommonLength, length |-> BlkLength],
    notify   |-> [exists |-> TRUE, bar |-> 0, offset |-> CommonLength + BlkLength, length |-> 256],
    multiplier |-> 0 ]

(* Virtio10Transfer's check. *)
Transfers(config, offset, size) ==
  /\ config.exists
  /\ size <= config.length
  /\ offset <= config.length - size

Accessible(d, name) == Transfers(d[Field[name][1]], Field[name][2], Field[name][3])

(***************************************************************************)
(* ParseCapabilities: each capability of the list in turn; a BAR that does *)
(* not exist ends it.  The notify capability is longer than the others; if *)
(* it is not long enough, it is left after its place has been saved.       *)
(***************************************************************************)
Saved(config, cap) ==
  [config EXCEPT !.bar = cap.bar, !.offset = cap.offset, !.length = cap.length]

WithCapability(d, cap) ==
  CASE cap.type = "notify" /\ cap.capLen = "base" -> [d EXCEPT !.notify = Saved(@, cap)]
    [] cap.type = "notify" /\ cap.capLen # "base" ->
         [d EXCEPT !.notify = [Saved(@, cap) EXCEPT !.exists = TRUE], !.multiplier = cap.multiplier]
    [] OTHER -> [d EXCEPT ![cap.type] = [Saved(@, cap) EXCEPT !.exists = TRUE]]

Interesting(cap) == cap.capLen # "short" /\ cap.type \in {"common", "notify", "specific"}

(* GetBarType's check. *)
GetBarType(cap) == cap.bar < BAR_COUNT

ParseCapabilities(d, caps) ==
  LET parse[n \in 0 .. Len(caps)] ==
        IF n = 0 THEN [status |-> "SUCCESS", device |-> d]
        ELSE LET was == parse[n - 1]
             IN  CASE was.status # "SUCCESS" \/ ~Interesting(caps[n]) -> was
                   [] was.status = "SUCCESS" /\ Interesting(caps[n]) /\ ~GetBarType(caps[n]) ->
                        [was EXCEPT !.status = "INVALID_PARAMETER"]
                   [] OTHER -> [was EXCEPT !.device = WithCapability(@, caps[n])]
  IN  parse[Len(caps)]

(***************************************************************************)
(* VirtioBlkInit, one action per call of the protocol.                     *)
(***************************************************************************)
Start(at) ==
  [ at |-> at, status |-> "SUCCESS", nextStat |-> {}, features |-> {}, sectors |-> 0,
    blockSize |-> 0, queueSize |-> 0, revision |-> "1.0", caps |-> << >> ]

Buffers ==
  [ DeviceFeatureSelect : {0}, DeviceFeature : FeatureWords, DriverFeatureSelect : {0},
    DriverFeature : {{}}, DeviceStatus : {{}}, QueueSelect : {7}, QueueSize : QueueSizes,
    QueueEnable : {0}, QueueNotifyOff : {0}, QueueDesc : {"unset"}, QueueAvail : {"unset"},
    QueueUsed : {"unset"}, Capacity : Capacities, BlkSize : BlkSizes,
    PhysicalBlockExp : BlockExps ]

Init ==
  /\ ring = "none"
  /\ media = [blockSize |-> 0, lastBlock |-> 0]
  /\ \/ /\ device = NoDevice                          \* TestVirtioPciDevice.c
        /\ memory = [f \in DOMAIN Field |-> {}]        \* not used
        /\ \E caps \in Capabilities : init = [Start("parse") EXCEPT !.caps = caps]
     \/ /\ device = BufferDevice                      \* TestVirtioBlk.c, TestVirtio10Blk.c
        /\ memory \in Buffers
        /\ \E r \in {"0.9.5", "1.0"} : init = [Start("reset") EXCEPT !.revision = r]

Goto(next, changed) == init' = [changed EXCEPT !.at = next]

Fail(changed, label, status) == init' = [changed EXCEPT !.at = label, !.status = status]

(* InitVirtioPciDevice and RunTestHarness parse once each, and neither      *)
(* looks at what the parsing answers.  A parsing that cannot read all there *)
(* is of a list keeps what it has read, the place of a notify capability    *)
(* included whose multiplier it could not read.                             *)
Placed(cap) == [cap EXCEPT !.capLen = "base"]

PartsRead(caps) ==
  {<< >>} \cup {SubSeq(caps, 1, n - 1) : n \in DOMAIN caps}
          \cup {Append(SubSeq(caps, 1, n - 1), Placed(caps[n])) :
                   n \in {i \in DOMAIN caps : caps[i].type = "notify" /\ caps[i].capLen = "whole"}}

ParseOf(read, ending) ==
  /\ init.at \in {"parse", "parse again"}
  /\ LET parsed == ParseCapabilities(device, read)
     IN  /\ device' = parsed.device
         /\ Goto(IF init.at = "parse" THEN "parse again" ELSE "parsed",
                 [init EXCEPT !.status = IF parsed.status = "SUCCESS" THEN ending ELSE parsed.status])
  /\ UNCHANGED << memory, ring, media >>

Parse == ParseOf(init.caps, "SUCCESS")

ParseFails == CallsMayFail /\ \E read \in PartsRead(init.caps) : ParseOf(read, "DEVICE_ERROR")

(* Where a call that fails leads: nothing to undo, a ring, a mapped ring. *)
Undo ==
  CASE ring = "none" -> "failed" [] ring = "allocated" -> "release" [] ring = "mapped" -> "unmap"

Bit == [ack |-> "ACK", driver |-> "DRIVER", featuresOk |-> "FEATURES_OK", driverOk |-> "DRIVER_OK"]

After == [reset |-> "ack", ack |-> "driver", driver |-> "features", featuresOk |-> "select",
          driverOk |-> "done"]

Virtio10SetDeviceStatus ==
  /\ init.at \in DOMAIN After /\ init.at # "driverOk"
  /\ LET next == IF init.at = "reset" THEN {} ELSE init.nextStat \cup {Bit[init.at]}
     IN  /\ memory' = [memory EXCEPT !.DeviceStatus = next]
         /\ Goto(After[init.at], [init EXCEPT !.nextStat = next])
  /\ UNCHANGED << device, ring, media >>

(* The selected word is read twice: the memory does not mind the selector. *)
High == [b0 |-> "VERSION_1", b1 |-> "IOMMU_PLATFORM"]      \* bits 32 and 33

Virtio10GetDeviceFeatures ==
  /\ init.at = "features"
  /\ LET word == memory.DeviceFeature
     IN  Goto("capacity", [init EXCEPT !.features = word \cup {High[b] : b \in word \cap DOMAIN High}])
  /\ memory' = [memory EXCEPT !.DeviceFeatureSelect = 1]
  /\ UNCHANGED << device, ring, media >>

Known == {"BLK_SIZE", "TOPOLOGY", "RO", "FLUSH", "VERSION_1", "IOMMU_PLATFORM"}

(* The capacity, the block size and the topology: they have to be valid. *)
ReadConfiguration ==
  /\ init.at = "capacity"
  /\ LET sectors   == memory.Capacity
         hasSize   == "BLK_SIZE" \in init.features
         blockSize == IF hasSize THEN memory.BlkSize ELSE 512
         refused ==
           \/ sectors = 0
           \/ hasSize /\ (\/ blockSize = 0
                          \/ blockSize % 512 # 0
                          \/ sectors % (blockSize \div 512) # 0)
           \/ "TOPOLOGY" \in init.features /\ memory.PhysicalBlockExp >= 32
     IN  IF refused THEN Fail(init, Undo, "UNSUPPORTED")
         ELSE Goto(IF init.revision = "1.0" THEN "guest" ELSE "select",
                   [init EXCEPT !.sectors = sectors, !.blockSize = blockSize,
                                !.features = @ \cap Known])
  /\ UNCHANGED << device, memory, ring, media >>

(* Virtio10WriteFeatures before the queue, or a legacy device's after it. *)
Virtio10SetGuestFeatures ==
  /\ init.at \in {"guest", "legacy guest"}
  /\ LET features == IF init.at = "guest" THEN init.features
                     ELSE init.features \ {"VERSION_1", "IOMMU_PLATFORM"}
     IN  /\ Goto(IF init.at = "guest" THEN "featuresOk" ELSE "driverOk",
                 [init EXCEPT !.features = features])
         /\ memory' = [memory EXCEPT !.DriverFeatureSelect = 1,
                                     !.DriverFeature = features \cap {"VERSION_1", "IOMMU_PLATFORM"}]
  /\ UNCHANGED << device, ring, media >>

Virtio10SetQueueSel ==
  /\ init.at = "select"
  /\ memory' = [memory EXCEPT !.QueueSelect = 0]
  /\ Goto("queueSize", init)
  /\ UNCHANGED << device, ring, media >>

Virtio10GetQueueNumMax ==
  /\ init.at = "queueSize"
  /\ IF memory.QueueSize < 3 THEN Fail(init, Undo, "UNSUPPORTED")
     ELSE Goto("ringInit", [init EXCEPT !.queueSize = memory.QueueSize])
  /\ UNCHANGED << device, memory, ring, media >>

(* VirtioRingInit and VirtioRingMap. *)
AllocateRing ==
  /\ init.at \in {"ringInit", "ringMap"}
  /\ ring' = IF init.at = "ringInit" THEN "allocated" ELSE "mapped"
  /\ Goto(IF init.at = "ringInit" THEN "ringMap" ELSE "queueNum", init)
  /\ UNCHANGED << device, memory, media >>

(* SetQueueNum accepts the size that is there; SetQueueAlign that of a page. *)
Virtio10SetQueueNum ==
  /\ init.at = "queueNum"
  /\ IF memory.QueueSize = init.queueSize /\ PAGE_SIZE = 4096 THEN Goto("address", init)
     ELSE Fail(init, Undo, "UNSUPPORTED")
  /\ UNCHANGED << device, memory, ring, media >>

Virtio10SetQueueAddress ==
  /\ init.at = "address"
  /\ memory' = [ memory EXCEPT !.QueueDesc = "Desc", !.QueueAvail = "Avail", !.QueueUsed = "Used",
                               !.QueueEnable = 1 ]
  /\ Goto(IF init.revision = "1.0" THEN "driverOk" ELSE "legacy guest", init)
  /\ UNCHANGED << device, ring, media >>

DriverOk ==
  /\ init.at = "driverOk"
  /\ memory' = [memory EXCEPT !.DeviceStatus = init.nextStat \cup {"DRIVER_OK"}]
  /\ Goto("done", [init EXCEPT !.nextStat = @ \cup {"DRIVER_OK"}])
  /\ media' = [ blockSize |-> init.blockSize,
                lastBlock |-> init.sectors \div (init.blockSize \div 512) - 1 ]
  /\ UNCHANGED << device, ring >>

(* The selected queue is put back when its offset has been read, and not   *)
(* when that fails; then the kick is written behind the notify register.   *)
Virtio10SetQueueNotify(index) ==
  /\ init.at = "done" /\ init.status = "SUCCESS" /\ init.revision = "1.0"
  /\ Accessible(device, "QueueSelect")
  /\ memory' = [ memory EXCEPT !.QueueSelect =
                    IF Accessible(device, "QueueNotifyOff") THEN @ ELSE index ]
  /\ Goto(IF Accessible(device, "QueueNotifyOff")
             /\ Transfers(device.notify, memory.QueueNotifyOff * device.multiplier, 2)
           THEN "notified" ELSE "done", init)
  /\ UNCHANGED << device, ring, media >>

(* A device of the protocol, or an allocation, lets a call fail. *)
CallFails ==
  /\ CallsMayFail
  /\ init.at \notin {"parse", "parse again", "parsed", "failed", "release", "unmap", "done", "notified"}
  /\ Fail([init EXCEPT !.nextStat = IF init.at \in DOMAIN Bit THEN @ \cup {Bit[init.at]} ELSE @],
          Undo, "DEVICE_ERROR")
  /\ UNCHANGED << device, memory, ring, media >>

(* The labels at the end. *)
UnmapQueue ==
  /\ init.at = "unmap"
  /\ ring' = "allocated" /\ Goto("release", init)
  /\ UNCHANGED << device, memory, media >>

ReleaseQueue_Skipped ==
  /\ init.at = "release"
  /\ Goto("failed", init)
  /\ UNCHANGED << device, memory, ring, media >>

ReleaseQueue ==
  /\ init.at = "release"
  /\ ring' = "none" /\ Goto("failed", init)
  /\ UNCHANGED << device, memory, media >>

Failed ==
  /\ init.at = "failed"
  /\ memory' = [memory EXCEPT !.DeviceStatus = init.nextStat \cup {"FAILED"}]
  /\ Goto("done", init)
  /\ UNCHANGED << device, ring, media >>

Next ==
  \/ Parse \/ ParseFails
  \/ Virtio10SetDeviceStatus \/ Virtio10GetDeviceFeatures \/ ReadConfiguration
  \/ Virtio10SetGuestFeatures \/ Virtio10SetQueueSel \/ Virtio10GetQueueNumMax
  \/ AllocateRing \/ Virtio10SetQueueNum \/ Virtio10SetQueueAddress \/ DriverOk
  \/ \E index \in {0, 1} : Virtio10SetQueueNotify(index)
  \/ CallFails \/ UnmapQueue \/ ReleaseQueue \/ Failed

Spec == Init /\ [][Next]_vars

(***************************************************************************)
(* A device goes live only with its queue in place and the features        *)
(* agreed, and then its blocks cover its capacity exactly; whichever call  *)
(* fails, the ring is unmapped and released and the device is told         *)
(* (VirtioBlkInit, VirtioBlkStubLib.c:69).                                 *)
(***************************************************************************)
Live(m) == "DRIVER_OK" \in m.DeviceStatus /\ "FAILED" \notin m.DeviceStatus

InitOutcome ==
  /\ Live(memory) =>
       /\ ring = "mapped" /\ memory.QueueEnable = 1 /\ memory.QueueSelect = 0
       /\ init.revision = "1.0" => "FEATURES_OK" \in memory.DeviceStatus
       /\ init.features \subseteq Known
       /\ (media.lastBlock + 1) * (media.blockSize \div 512) = memory.Capacity
  /\ init.at = "done" /\ init.status # "SUCCESS" =>
       ring = "none" /\ "FAILED" \in memory.DeviceStatus
  /\ init.at = "done" /\ init.status = "SUCCESS" => Live(memory)

(***************************************************************************)
(* A configuration that exists has the place and length that one           *)
(* capability of the list gives, of a BAR the device has, whatever part of *)
(* the list was read; and once all of it was, parsing again finds the same *)
(* (VirtioPciDevice10StubLib.c:695).                                       *)
(***************************************************************************)
ConfigurationsDescribed ==
  init.at \in {"parse again", "parsed"} =>
    /\ \A c \in {"common", "notify", "specific"} : device[c].exists =>
         \E i \in DOMAIN init.caps :
           /\ init.caps[i].type = c
           /\ Saved(device[c], init.caps[i]) = device[c]
           /\ device[c].bar < BAR_COUNT
    /\ init.status = "SUCCESS" => ParseCapabilities(device, init.caps).device = device

(* Both: what the device is told and what the driver knows of it.          *)
VirtioExact == InitOutcome /\ ConfigurationsDescribed
================================================================================
