------------------------------ MODULE DiskStub ------------------------------
(***************************************************************************)
(* TestStub/DiskStubLib/DiskStubLib.c: block I/O on an image in memory,    *)
(* and disk I/O of any offset and size on top of it.  A transfer of disk   *)
(* I/O has three parts: the rest of the block it begins in, whole blocks   *)
(* (through a buffer of its own if the caller's is not aligned), and the   *)
(* beginning of the block it ends in.  Bytes are numbers; what is written  *)
(* is told from what was there.                                            *)
(***************************************************************************)
EXTENDS Integers, Sequences

CONSTANTS
  Sizes,                 \* sizes of the image
  BlockSizes, Aligns,    \* block sizes and IoAlign of the media
  DATA_BUFFER_BLOCK_NUM,
  MaxOffset, MaxLength   \* bound: transfers

VARIABLES
  image,                 \* the bytes of the image and what lies behind it
  media,                 \* BlockSize, IoAlign, LastBlock of Media, and Size
  before,                \* the image when the call began
  call                   \* the transfer: see Start

vars == << image, media, before, call >>

Idle == [is |-> "idle"]

Old(i) == i              \* the byte at i before the call
New(i) == 100 + i        \* the i-th byte of the caller's buffer
Unset  == -1             \* a byte of the caller's buffer that was not filled

(* Everything a block number up to LastBlock can mean. *)
Reach(m) == (m.lastBlock + 1) * m.blockSize

DiskStubInitialize ==
  /\ media \in { [size |-> s, blockSize |-> b, align |-> a,
                  lastBlock |-> (s + b - 1) \div b - 1] :
                 s \in Sizes, b \in BlockSizes, a \in Aligns }
  /\ image = [i \in 0 .. Reach(media) - 1 |-> Old(i)]
  /\ before = image
  /\ call = Idle

(***************************************************************************)
(* Block I/O: the statuses, and copies of the bytes from one block on.     *)
(***************************************************************************)
BlocksStatus(m, lba, size) ==
  CASE size = 0 -> "SUCCESS"
    [] size > 0 /\ size % m.blockSize # 0 -> "BAD_BUFFER_SIZE"
    [] size > 0 /\ size % m.blockSize = 0 /\ lba > m.lastBlock -> "INVALID_PARAMETER"
    [] OTHER -> IF lba + size \div m.blockSize - 1 > m.lastBlock
                  THEN "INVALID_PARAMETER" ELSE "SUCCESS"

ReadBlocks(m, img, lba, size) ==
  LET status == BlocksStatus(m, lba, size)
  IN  [ status |-> status,
        data |-> IF status = "SUCCESS" THEN [i \in 1 .. size |-> img[lba * m.blockSize + i - 1]]
                 ELSE << >> ]

WriteBlocks(m, img, lba, data) ==
  LET status == BlocksStatus(m, lba, Len(data))
      first  == lba * m.blockSize
  IN  [ status |-> status,
        image |-> IF status # "SUCCESS" THEN img
                  ELSE [ i \in DOMAIN img |-> IF i \in first .. first + Len(data) - 1
                                                THEN data[i - first + 1] ELSE img[i] ] ]

(***************************************************************************)
(* Disk I/O.                                                               *)
(***************************************************************************)
Start ==
  /\ call = Idle
  /\ before' = image
  /\ \E write \in BOOLEAN, offset \in 0 .. MaxOffset, size \in 0 .. MaxLength,
       address \in 0 .. media.align - 1 :
       LET underRun == offset % media.blockSize
       IN  call' = [ is |-> "head", write |-> write, offset |-> offset, size |-> size,
                     address |-> address,                     \* of Buffer
                     buffer |-> IF write THEN [i \in 1 .. size |-> New(i)]
                                ELSE [i \in 1 .. size |-> Unset],
                     done |-> 0,                              \* WorkingBuffer - Buffer
                     left |-> size,                           \* WorkingBufferSize
                     lba |-> offset \div media.blockSize,
                     complete |-> FALSE, overRun |-> 0, overRunLba |-> 0,
                     aligned |-> TRUE,                        \* what is left, in memory
                     chunk |-> media.blockSize * DATA_BUFFER_BLOCK_NUM, \* DataBufferSize
                     status |-> "SUCCESS" ]
  /\ UNCHANGED << image, media >>

Done(c, status) == [c EXCEPT !.is = "done", !.status = status]

(* Take the bytes of data to the caller's buffer behind those that are done. *)
Filled(c, data) ==
  [ i \in 1 .. c.size |-> IF i - c.done \in 1 .. Len(data) THEN data[i - c.done] ELSE c.buffer[i] ]

(* The next n bytes of the caller's buffer. *)
Given(c, n) == SubSeq(c.buffer, c.done + 1, c.done + n)

(* data with the bytes from at (counted from zero) on replaced by some. *)
Patched(data, at, some) ==
  [ i \in 1 .. Len(data) |-> IF i - at \in 1 .. Len(some) THEN some[i - at] ELSE data[i] ]

(* Write some into a block, which is read first; or read a part of it. *)
Partial(c, lba, at, length) ==
  LET block == ReadBlocks(media, image, lba, media.blockSize)
      wrote == WriteBlocks(media, image, lba, Patched(block.data, at, Given(c, length)))
  IN  IF block.status # "SUCCESS"
        THEN [status |-> block.status, image |-> image, buffer |-> c.buffer]
        ELSE IF c.write THEN [status |-> wrote.status, image |-> wrote.image, buffer |-> c.buffer]
        ELSE [ status |-> "SUCCESS", image |-> image,
               buffer |-> Filled(c, SubSeq(block.data, at + 1, at + length)) ]

WithOverRun_KeepsBlock(c) ==
  LET over == c.left % media.blockSize
  IN  [ c EXCEPT !.is = "blocks", !.overRun = over, !.overRunLba = c.lba,
                 !.aligned = (c.address + c.done) % media.align = 0,
                 !.left = IF ~c.complete /\ @ >= media.blockSize THEN @ - over ELSE @ ]

(* Before the whole blocks, it is settled what is left behind them. *)
WithOverRun(c) ==
  LET over == c.left % media.blockSize
  IN  [ c EXCEPT !.is = "blocks", !.overRun = over,
                 !.overRunLba = c.lba + c.left \div media.blockSize,
                 !.aligned = (c.address + c.done) % media.align = 0,
                 !.left = IF ~c.complete /\ @ >= media.blockSize THEN @ - over ELSE @ ]

(* The media id is another one, or there is no memory for a buffer of blocks. *)
Refuse ==
  /\ call.is = "head"
  /\ \E status \in {"MEDIA_CHANGED", "OUT_OF_RESOURCES"} : call' = Done(call, status)
  /\ UNCHANGED << image, media, before >>

FirstPart ==
  /\ call.is = "head"
  /\ LET underRun == call.offset % media.blockSize
         rest     == media.blockSize - underRun
         length   == IF rest > call.size THEN call.size ELSE rest
         part     == Partial(call, call.lba, underRun, length)
         after    == [ call EXCEPT !.buffer = part.buffer, !.done = length,
                                   !.left = @ - length, !.lba = @ + 1,
                                   !.complete = rest > call.size ]
     IN  IF underRun = 0
           THEN call' = WithOverRun(call) /\ image' = image
           ELSE /\ image' = part.image
                /\ call' = CASE part.status # "SUCCESS" -> Done(call, part.status)
                             [] part.status = "SUCCESS" /\ after.left = 0 -> Done(after, "SUCCESS")
                             [] OTHER -> WithOverRun(after)
  /\ UNCHANGED << media, before >>

(* One ReadBlocks or WriteBlocks of whole blocks. *)
WholeBlocks ==
  /\ call.is = "blocks"
  /\ LET length  == IF call.aligned \/ call.left <= call.chunk THEN call.left ELSE call.chunk
         read    == ReadBlocks(media, image, call.lba, length)
         wrote   == WriteBlocks(media, image, call.lba, Given(call, length))
         status  == IF call.write THEN wrote.status ELSE read.status
         after   == [ call EXCEPT !.buffer = IF call.write THEN @ ELSE Filled(call, read.data),
                                  !.done = @ + length, !.left = @ - length,
                                  !.lba = IF call.aligned THEN @ ELSE @ + DATA_BUFFER_BLOCK_NUM,
                                  !.is = IF length = call.left THEN "tail" ELSE "blocks" ]
     IN  IF call.complete \/ call.left < media.blockSize
           THEN call' = [call EXCEPT !.is = "tail"] /\ image' = image
           ELSE /\ image' = IF call.write THEN wrote.image ELSE image
                /\ call' = IF status = "SUCCESS" THEN after ELSE Done(call, status)
  /\ UNCHANGED << media, before >>

LastPart ==
  /\ call.is = "tail"
  /\ LET part == Partial(call, call.overRunLba, 0, call.overRun)
     IN  IF call.complete \/ call.overRun = 0
           THEN call' = Done(call, "SUCCESS") /\ image' = image
           ELSE /\ image' = part.image
                /\ call' = Done([call EXCEPT !.buffer = part.buffer], part.status)
  /\ UNCHANGED << media, before >>

(* The next call finds the image as new. *)
Return ==
  /\ call.is = "done"
  /\ call' = Idle
  /\ image' = [i \in DOMAIN image |-> Old(i)]
  /\ before' = image'
  /\ UNCHANGED media

Init == DiskStubInitialize
Next == Start \/ Refuse \/ FirstPart \/ WholeBlocks \/ LastPart \/ Return
Spec == Init /\ [][Next]_vars

(***************************************************************************)
(* A read that succeeds gives the bytes of the image from the offset on,   *)
(* however the transfer was cut; a write that succeeds puts the caller's   *)
(* bytes there; and at no time, in a write that fails neither, is a byte   *)
(* changed that the caller did not name (DiskStubLib.c:235, 445).  A read  *)
(* never changes the image.                                                *)
(***************************************************************************)
TransfersExact ==
  call.is # "idle" =>
    LET named == call.offset .. call.offset + call.size - 1
    IN  /\ \A i \in DOMAIN image :
             IF call.write /\ i \in named
               THEN image[i] \in {before[i], New(i - call.offset + 1)}
               ELSE image[i] = before[i]
        /\ call.is = "done" /\ call.status = "SUCCESS" =>
             /\ named \subseteq DOMAIN image
             /\ \A i \in named :
                  IF call.write THEN image[i] = New(i - call.offset + 1)
                  ELSE call.buffer[i - call.offset + 1] = image[i]

(* A transfer that lies inside the image is never refused for its range. *)
InsideSucceeds ==
  call.is = "done" /\ call.offset + call.size <= media.size =>
    call.status \notin {"INVALID_PARAMETER", "BAD_BUFFER_SIZE"}

(* Transfers do what they say, and all that should succeed do.             *)
DiskExact == TransfersExact /\ InsideSucceeds
================================================================================
