-------------------------------- MODULE Platform --------------------------------
(***************************************************************************)
(* Components that neither call one another nor share anything, side by    *)
(* side and each with variables of its own: the PPI database, the PCDs,    *)
(* memory allocation, the HOB list, the hook into USB host controllers,    *)
(* the stubs of USB, Virtio and disk devices and the AHCI driver.  What    *)
(* each promises is stated here, to be checked on small instances and      *)
(* proved for all of them.                                                 *)
(***************************************************************************)
EXTENDS Integers, Sequences

CONSTANTS
  Absent,                 \* NULL
  PpiLists, NotifyLists, NewPpis, MaxPpiCalls, MaxDepth, MaxPpis, MaxNotifies,
  Tokens, Guids, Values, BufferSizes, DatumSizes, MAX_ADDRESS, MaxPcdCalls,
  HeapSize, MaxBlocks, SIZE_4KB, HeadSize, PoolSizes, PageCounts, Alignments,
  Interfaces, Controllers, MaxPrivates, MaxMerged,
  Sizes, Lengths,
  SIZE_64KB, LargestData, DataLengths,
  Capabilities, FeatureWords, Capacities, BlkSizes, BlockExps, QueueSizes, CallsMayFail,
  PAGE_SIZE, BAR_COUNT,
  ImageSizes, BlockSizes, Aligns, DATA_BUFFER_BLOCK_NUM, MaxOffset, MaxLength,
  Byte, Half, AhciWord, DefaultBlock, AHCI_MAX_PRDT_NUMBER, AHCI_MAX_DATA_PER_PRDT,
  Identifications, Ports, AhciReads, AhciPayloads, Packets, Timeouts, AllocationMayFail,
  MaxAhciCalls

VARIABLES
  ppis, notifies, lastPpi, lastNotify, stack, told, replaced, ppiCalls,
  mPcdListEntry, mPcdExListEntry, heap, patch, pcdCall, latest, handed, pcdCalls,
  blocks, heads, pages, pools, heapCall,
  functions, owner, unseen, pending, mUsb2HcHookQueue, firstOwner, merged, hookCall,
  given, answer,
  hobMemory, endOfHobList, built, hobCall,
  device, registers, ring, blkMedia, init,
  image, media, before, diskCall,
  devices, active, trusted, disks, descriptors, rfisAbove, previousPort, previousMultiplier,
  ahciCall, commands, ahciCalls

Peim   == INSTANCE PpiDatabase WITH MaxCalls <- MaxPpiCalls, calls <- ppiCalls
Pcds   == INSTANCE Pcd WITH NULL <- Absent, MaxCalls <- MaxPcdCalls, call <- pcdCall, calls <- pcdCalls
Heap   == INSTANCE HostMemory WITH call <- heapCall
HcHook == INSTANCE Usb2HcHook WITH NULL <- Absent, call <- hookCall
Stubs  == INSTANCE UsbStubs
Hobs   == INSTANCE HobList WITH NULL <- Absent, memory <- hobMemory, call <- hobCall
Virtio10 == INSTANCE Virtio WITH memory <- registers, media <- blkMedia
Disk   == INSTANCE DiskStub WITH Sizes <- ImageSizes, call <- diskCall
AhciDriver == INSTANCE Ahci WITH
  Word <- AhciWord, Reads <- AhciReads, Payloads <- AhciPayloads,
  MaxCalls <- MaxAhciCalls,
  call <- ahciCall, calls <- ahciCalls

ppiVars  == << ppis, notifies, lastPpi, lastNotify, stack, told, replaced, ppiCalls >>
pcdVars  == << mPcdListEntry, mPcdExListEntry, heap, patch, pcdCall, latest, handed, pcdCalls >>
heapVars == << blocks, heads, pages, pools, heapCall >>
hookVars == << functions, owner, unseen, pending, mUsb2HcHookQueue, firstOwner, merged, hookCall >>
usbVars  == << given, answer >>
hobVars  == << hobMemory, endOfHobList, built, hobCall >>
virtioVars == << device, registers, ring, blkMedia, init >>
diskVars == << image, media, before, diskCall >>
ahciVars == << devices, active, trusted, disks, descriptors, rfisAbove, previousPort,
               previousMultiplier, ahciCall, commands, ahciCalls >>

platformVars ==
  << ppiVars, pcdVars, heapVars, hookVars, usbVars, hobVars, virtioVars, diskVars,
     ahciVars >>

-----------------------------------------------------------------------------
(* Every notification is called exactly once for every PPI it is for,       *)
(* whatever notifications install and register (PeiMain.h, Ppi.c).          *)
NotificationsMade == Peim!NotificationsMade

(* A PCD has the value it was last set to, and what a caller was handed     *)
(* stays current until the PCD moves (BasePcdLibHost.c).                    *)
PcdsExact == Pcds!PcdsExact

(* What callers own lies in memory that is allocated, and apart, and is     *)
(* given back when it is freed (MemoryAllocationLibHost.c).                 *)
AllocationsSound == Heap!AllocationsSound

(* Calls through the hook reach the controller that had the interface when  *)
(* it was first hooked; a stub returns the descriptor it was given, and no  *)
(* more than was asked.                                                     *)
UsbExact == HcHook!HookTransparent /\ Stubs!DescriptorsExact

(* The HOB list holds what was built, in order, and searches find it        *)
(* (HobLibHost.c).                                                          *)
HobsExact == Hobs!HobsExact

(* Initialisation ends in a device that works or leaves nothing behind      *)
(* (VirtioBlkStubLib.c, VirtioPciDevice10StubLib.c).                        *)
VirtioExact == Virtio10!VirtioExact

(* A transfer changes and returns exactly the bytes it is about             *)
(* (DiskStubLib.c).                                                         *)
DiskExact == Disk!DiskExact

(* The driver reads the blocks it was asked for where its addresses reach,  *)
(* enumerates every port, numbers no two devices alike, and names no memory *)
(* but that of the call (AhciMode.c, AhciPeiBlockIo.c, AhciPeiPassThru.c).  *)
AhciExact == AhciDriver!AhciExact
================================================================================
