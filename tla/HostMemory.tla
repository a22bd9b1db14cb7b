------------------------------ MODULE HostMemory ------------------------------
(***************************************************************************)
(* MemoryAllocationLibHost.c: pools are blocks of malloc; pages are an     *)
(* aligned part of a larger block, and the PAGE_HEAD right below them says *)
(* what to free.  malloc (external) gives any free stretch of the heap, in *)
(* which whatever was there before still stands.   The unit is 16 bytes.    *)
(***************************************************************************)
EXTENDS Integers, FiniteSets

CONSTANTS
  HeapSize, MaxBlocks,  \* bounds: units of heap, blocks of malloc in use
  SIZE_4KB,             \* units of a page, small
  HeadSize,             \* sizeof (PAGE_HEAD)
  PoolSizes, PageCounts, Alignments

VARIABLES
  blocks,               \* blocks of malloc in use: [address, size]
  heads,                \* address of the pages -> PAGE_HEAD below them, if it has its Signature
  pages,                \* pages callers own: [address, pages, alignment, block]
  pools,                \* pools callers own: [block, contents]
  call

vars == << blocks, heads, pages, pools, call >>

Init ==
  /\ blocks = {} /\ heads = << >> /\ pages = {} /\ pools = {} /\ call = "idle"

Units(from, size) == from .. from + size - 1
Overlaps(a, asize, b, bsize) == Units(a, asize) \cap Units(b, bsize) # {}

(* Everywhere malloc can put a block; it may also have no memory. *)
Places(size) ==
  { a \in 1 .. HeapSize - size :
      /\ Cardinality(blocks) < MaxBlocks
      /\ \A b \in blocks : ~Overlaps(a, size, b.address, b.size) }

NoMemory == call' = "NULL" /\ UNCHANGED << blocks, heads, pages, pools >>

(* A caller writes what it was given: heads of pages freed before are lost. *)
Kept(address, size) == { h \in DOMAIN heads : ~Overlaps(h - HeadSize, HeadSize, address, size) }
Overwrite(address, size) == [a \in Kept(address, size) |-> heads[a]]

(***************************************************************************)
(* Pages.                                                                  *)
(***************************************************************************)
EFI_SIZE_TO_PAGES(size) == (size + SIZE_4KB - 1) \div SIZE_4KB

AlignUp(n, alignment) == ((n + alignment - 1) \div alignment) * alignment

AlignedBuffer_NoHead(allocated, alignment) == AlignUp(allocated, alignment)

AlignedBuffer(allocated, alignment) ==
  LET first == AlignUp(allocated, alignment)
  IN  IF first - allocated < HeadSize THEN first + alignment ELSE first

AllocateAlignedPages(count, asked) ==
  LET alignment  == IF asked < SIZE_4KB THEN SIZE_4KB ELSE asked
      totalPages == count + EFI_SIZE_TO_PAGES(alignment) * 2
      size       == totalPages * SIZE_4KB
  IN  \/ NoMemory
      \/ \E allocated \in Places(size) :
           LET buffer == AlignedBuffer(allocated, alignment)
           IN  /\ blocks' = blocks \cup {[address |-> allocated, size |-> size]}
               /\ heads' = [ a \in Kept(buffer, count * SIZE_4KB) \cup {buffer} |->
                               IF a = buffer THEN [allocated |-> allocated, alignedPages |-> count]
                               ELSE heads[a] ]
               /\ pages' = pages \cup {[ address |-> buffer, pages |-> count, alignment |-> asked,
                                         block |-> [address |-> allocated, size |-> size] ]}
               /\ call' = "allocated"
               /\ UNCHANGED pools

AllocatePages(count)         == AllocateAlignedPages(count, SIZE_4KB)
AllocateRuntimePages(count)  == AllocatePages(count)
AllocateReservedPages(count) == AllocatePages(count)
AllocateAlignedRuntimePages(count, alignment)  == AllocateAlignedPages(count, alignment)
AllocateAlignedReservedPages(count, alignment) == AllocateAlignedPages(count, alignment)

(* Nothing tells the caller that its pages stay because it named another count. *)
FreeAlignedPages(buffer, count) ==
  LET head == heads[buffer]
  IN  IF buffer \notin DOMAIN heads \/ head.alignedPages # count
        THEN call' = "ignored" /\ UNCHANGED << blocks, heads, pages, pools >>
        ELSE /\ blocks' = { b \in blocks : b.address # head.allocated }
             /\ heads' = [h \in DOMAIN heads \ {buffer} |-> heads[h]]     \* Signature = 0
             /\ pages' = { p \in pages : p.address # buffer }
             /\ call' = "freed"
             /\ UNCHANGED pools

FreePages(buffer, count) == FreeAlignedPages(buffer, count)

(***************************************************************************)
(* Pools.                                                                  *)
(***************************************************************************)
Pool(size, contents, others) ==
  \/ NoMemory
  \/ \E a \in Places(size) :
       LET block == [address |-> a, size |-> size]
       IN  /\ blocks' = blocks \cup {block}
           /\ pools' = others \cup {[block |-> block, contents |-> contents]}
           /\ heads' = Overwrite(a, size)
           /\ call' = "allocated"
           /\ UNCHANGED pages

AllocatePool(size)             == Pool(size, "any", pools)
AllocateRuntimePool(size)      == AllocatePool(size)
AllocateReservedPool(size)     == AllocatePool(size)
AllocateZeroPool(size)         == Pool(size, "zero", pools)
AllocateRuntimeZeroPool(size)  == AllocateZeroPool(size)
AllocateReservedZeroPool(size) == AllocateZeroPool(size)
AllocateCopyPool(size)         == Pool(size, "copy", pools)
AllocateRuntimeCopyPool(size)  == AllocateCopyPool(size)
AllocateReservedCopyPool(size) == AllocateCopyPool(size)

(* realloc: the same block grown or cut, or another one in its place. *)
ReallocatePool(pool, newSize) ==
  LET others == { b \in blocks : b # pool.block }
      block(a) == [address |-> a, size |-> newSize]
      free(a)  == \A b \in others : ~Overlaps(a, newSize, b.address, b.size)
      apart(a) == ~Overlaps(a, newSize, pool.block.address, pool.block.size)
  IN  \/ NoMemory
      \/ \E a \in 1 .. HeapSize - newSize :
           /\ free(a) /\ (a = pool.block.address \/ apart(a))
           /\ blocks' = others \cup {block(a)}
           /\ pools' = (pools \ {pool}) \cup {[pool EXCEPT !.block = block(a)]}
           /\ heads' = Overwrite(a, newSize)
           /\ call' = "allocated"
           /\ UNCHANGED pages

ReallocateRuntimePool(pool, newSize)  == ReallocatePool(pool, newSize)
ReallocateReservedPool(pool, newSize) == ReallocatePool(pool, newSize)

FreePool(pool) ==
  /\ blocks' = { b \in blocks : b.address # pool.block.address }
  /\ pools' = pools \ {pool}
  /\ call' = "freed"
  /\ UNCHANGED << heads, pages >>

Next ==
  \/ \E count \in PageCounts :
       \/ AllocateRuntimePages(count) \/ AllocateReservedPages(count)
       \/ \E alignment \in Alignments : \/ AllocateAlignedRuntimePages(count, alignment)
                                        \/ AllocateAlignedReservedPages(count, alignment)
       \/ \E p \in pages : FreePages(p.address, count)
  \/ \E size \in PoolSizes :
       \/ AllocateRuntimePool(size) \/ AllocateReservedPool(size)
       \/ AllocateRuntimeZeroPool(size) \/ AllocateReservedZeroPool(size)
       \/ AllocateRuntimeCopyPool(size) \/ AllocateReservedCopyPool(size)
       \/ \E pool \in pools : ReallocateRuntimePool(pool, size) \/ ReallocateReservedPool(pool, size)
  \/ \E pool \in pools : FreePool(pool)

Spec == Init /\ [][Next]_vars
--------------------------------------------------------------------------------
(***************************************************************************)
(* Pages lie, aligned as asked and their head with them, inside the block  *)
(* that is freed for them, wherever malloc put it (the two extra           *)
(* alignments of MemoryAllocationLibHost.c:99 suffice); no head is written *)
(* over while its pages are owned; so every block in use is the block of   *)
(* exactly one owner, and freeing gives it back.                           *)
(***************************************************************************)
PagesInside ==
  \A p \in pages :
    /\ p.address % p.alignment = 0 /\ p.address % SIZE_4KB = 0
    /\ Units(p.address - HeadSize, HeadSize + p.pages * SIZE_4KB)
         \subseteq Units(p.block.address, p.block.size)
    /\ p.address \in DOMAIN heads
    /\ heads[p.address] = [allocated |-> p.block.address, alignedPages |-> p.pages]

EachBlockOwned ==
  /\ blocks = { p.block : p \in pages } \cup { q.block : q \in pools }
  /\ Cardinality(blocks) = Cardinality(pages) + Cardinality(pools)

AllocationsSound == PagesInside /\ EachBlockOwned
================================================================================
