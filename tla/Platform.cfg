SPECIFICATION MCSpec
CONSTANTS
  a = a
  b = b
  c = c
  d = d
  Absent = Absent
  PpiLists <- SmallPpiLists
  NotifyLists <- SmallNotifyLists
  NewPpis <- SmallNewPpis
  MaxPpiCalls = 6
  MaxDepth = 5
  MaxPpis = 3
  MaxNotifies = 2
  Tokens = {1, 2}
  Guids = {a, b}
  Values = {c, d}
  BufferSizes = {2}
  DatumSizes = {2, 3}
  MAX_ADDRESS = 3
  MaxPcdCalls = 2
  HeapSize = 15
  MaxBlocks = 2
  SIZE_4KB = 2
  HeadSize = 1
  PoolSizes = {3}
  PageCounts = {0, 1}
  Alignments = {1, 4}
  Interfaces = {a, b}
  Controllers = {c, d}
  MaxPrivates = 2
  MaxMerged = 2
  Sizes = {20}
  Lengths = {0, 18, 40}
  SIZE_64KB = 144
  LargestData = 20
  DataLengths = {5, 21}
  Capabilities <- SmallCapabilities
  FeatureWords <- SmallFeatureWords
  Capacities = {0, 6, 9}
  BlkSizes = {0, 512, 1000, 1536}
  BlockExps = {3, 32}
  QueueSizes = {2, 3}
  CallsMayFail = TRUE
  PAGE_SIZE = 4096
  BAR_COUNT = 6
  ImageSizes = {6, 9}
  BlockSizes = {2, 3}
  Aligns = {1, 2}
  DATA_BUFFER_BLOCK_NUM = 2
  MaxOffset = 9
  MaxLength = 10
  Byte = 4
  Half = 2
  AhciWord = 64
  DefaultBlock = 1
  AHCI_MAX_PRDT_NUMBER = 2
  AHCI_MAX_DATA_PER_PRDT = 8
  Identifications <- Identities
  Ports = {1, 2}
  AhciReads <- SmallReads
  AhciPayloads = {0, 1, 9}
  Packets <- SmallPackets
  Timeouts = {0, 1}
  AllocationMayFail = TRUE
  MaxAhciCalls = 2
INVARIANTS
  NotificationsMade FormatsReadable HobsExact PcdsExact AhciExact HcPathsExact DiskExact
  VirtioExact AllocationsSound UsbExact
PROPERTY AppendsSound
CHECK_DEADLOCK FALSE
