-------------------------------- MODULE Heap --------------------------------
(***************************************************************************)
(* The kernel heap of src/kernel/memory.c: a first-fit block list over the *)
(* window [KERNEL_HEAP_START, KERNEL_HEAP_START + KERNEL_HEAP_SIZE).       *)
(*                                                                         *)
(* Each memory_block_t header sits immediately before the bytes it         *)
(* describes; the list is kept in address order (split inserts the tail    *)
(* right after its head, merge removes the successor), so it is modelled   *)
(* as a sequence of records <<start, size, type>>.  Addresses are offsets  *)
(* from heap_start, so NULL (0) is never a block start.                    *)
(*                                                                         *)
(* size_t arithmetic is kept modulo 2^SizeWidth: the alignment step        *)
(* (size + 3) & ~3 wraps for sizes near the top of the range.              *)
(***************************************************************************)
EXTENDS Integers, Sequences, SequencesExt

CONSTANTS
  HeapSize,   \* KERNEL_HEAP_SIZE
  Hdr,        \* sizeof(memory_block_t)
  SizeWidth,  \* bit width of size_t
  Requests    \* sizes callers pass to kmalloc

ASSUME Hdr > 0 /\ Hdr % 4 = 0 /\ HeapSize > Hdr /\ HeapSize % 4 = 0
ASSUME Requests \subseteq 0..(2^SizeWidth - 1)

VARIABLE blocks

NULL == 0
FREE == "FREE"
ALLOCATED == "ALLOCATED"

Word == 2^SizeWidth

(* Every block size is a multiple of 4: kmalloc aligns requests and the  *)
(* header size is a multiple of 4.                                        *)
Block == [start : 0..HeapSize, size : {n \in 0..HeapSize : n % 4 = 0},
          type : {FREE, ALLOCATED}]

(* heap_init: one free block spanning the window after its own header.    *)
InitBlocks == << [start |-> Hdr, size |-> HeapSize - Hdr, type |-> FREE] >>

(* Mutants of the alignment step: the rounding left out, and the mask     *)
(* applied without adding 3 first.                                        *)
AlignUpNoRounding(size) == size
AlignUpRoundsDown(size) == size - (size % 4)

(* size = (size + 3) & ~3, in size_t arithmetic.                          *)
AlignUp(size) == LET s == (size + 3) % Word IN s - (s % 4)

(* find_free_block: index of the first free block of at least size bytes, *)
(* 0 when there is none.                                                  *)
FindFreeBlock(bs, size) ==
  SelectInSeq(bs, LAMBDA b : b.type = FREE /\ b.size >= size)

(* Mutant: the tail's data starts right after the head's, with no room   *)
(* left for its header.                                                   *)
SplitBlockNoHeader(bs, i, size) ==
  IF bs[i].size <= size + Hdr THEN bs
  ELSE InsertAt([bs EXCEPT ![i].size = size], i + 1,
                [start |-> bs[i].start + size,
                 size  |-> bs[i].size - size - Hdr,
                 type  |-> FREE])

(* split_block: carve size bytes off the front of block i; the rest, less *)
(* a new header, becomes a free block right after it.                     *)
SplitBlock(bs, i, size) ==
  IF bs[i].size <= size + Hdr THEN bs
  ELSE InsertAt([bs EXCEPT ![i].size = size], i + 1,
                [start |-> bs[i].start + size + Hdr,
                 size  |-> bs[i].size - size - Hdr,
                 type  |-> FREE])

(* merge_adjacent_blocks: one pass from the list head; after a merge the  *)
(* same block is compared with its new successor.                         *)
RECURSIVE MergeFrom(_, _), MergeFromAlwaysAdvance(_, _)
(* Mutant: the pass moves on after a merge instead of comparing the grown *)
(* block with its new successor.                                          *)
MergeFromAlwaysAdvance(bs, i) ==
  IF i >= Len(bs) THEN bs
  ELSE IF /\ bs[i].type = FREE
          /\ bs[i + 1].type = FREE
          /\ bs[i].start + bs[i].size + Hdr = bs[i + 1].start
       THEN MergeFromAlwaysAdvance(
              RemoveAt([bs EXCEPT ![i].size = @ + bs[i + 1].size + Hdr], i + 1),
              i + 1)
       ELSE MergeFromAlwaysAdvance(bs, i + 1)

MergeFrom(bs, i) ==
  IF i >= Len(bs) THEN bs
  ELSE IF /\ bs[i].type = FREE
          /\ bs[i + 1].type = FREE
          /\ bs[i].start + bs[i].size + Hdr = bs[i + 1].start
       THEN MergeFrom(RemoveAt([bs EXCEPT ![i].size = @ + bs[i + 1].size + Hdr],
                               i + 1), i)
       ELSE MergeFrom(bs, i + 1)

MergeAdjacentBlocks(bs) == MergeFrom(bs, 1)

(* kmalloc: the new block list and the returned pointer.                  *)
KmallocResult(bs, req) ==
  IF req = 0 THEN [blocks |-> bs, ptr |-> NULL]
  ELSE LET size == AlignUp(req)
           i    == FindFreeBlock(bs, size)
       IN IF i = 0 THEN [blocks |-> bs, ptr |-> NULL]
          ELSE LET carved == IF bs[i].size > size + Hdr
                             THEN SplitBlock(bs, i, size) ELSE bs
               IN [blocks |-> [carved EXCEPT ![i].type = ALLOCATED],
                   ptr    |-> bs[i].start]

(* Mutant: the block is marked free but neighbours are not coalesced.    *)
KfreeResultNoMerge(bs, ptr) ==
  IF ptr = NULL THEN bs
  ELSE LET i == SelectInSeq(bs, LAMBDA b : b.start = ptr)
       IN IF i # 0 /\ bs[i].type = ALLOCATED
          THEN [bs EXCEPT ![i].type = FREE]
          ELSE bs

(* kfree: the header is read at ptr - Hdr.  Only a header that is in the  *)
(* list and tagged ALLOCATED changes the list; any other address reads a  *)
(* stale header or block data, whose type write leaves the list as it is. *)
KfreeResult(bs, ptr) ==
  IF ptr = NULL THEN bs
  ELSE LET i == SelectInSeq(bs, LAMBDA b : b.start = ptr)
       IN IF i # 0 /\ bs[i].type = ALLOCATED
          THEN MergeAdjacentBlocks([bs EXCEPT ![i].type = FREE])
          ELSE bs

-----------------------------------------------------------------------------
Init == blocks = InitBlocks

Kmalloc(req) == blocks' = KmallocResult(blocks, req).blocks

(* Callers free pointers they hold, stale ones and never-returned ones:   *)
(* every address that is or was a block start can be passed.              *)
Kfree(ptr) == blocks' = KfreeResult(blocks, ptr)

FreeTargets == {a \in 1..HeapSize : a % 4 = 0}

(* krealloc: NULL is a plain kmalloc and size 0 a plain kfree; otherwise  *)
(* a new block is taken first and the old one freed only if that worked.  *)
(* The memcpy of size bytes changes no block header.                      *)
Krealloc(ptr, req) ==
  blocks' = IF ptr = NULL THEN KmallocResult(blocks, req).blocks
            ELSE IF req = 0 THEN KfreeResult(blocks, ptr)
            ELSE LET m == KmallocResult(blocks, req)
                 IN IF m.ptr # NULL THEN KfreeResult(m.blocks, ptr) ELSE blocks

Next ==
  \/ \E req \in Requests : Kmalloc(req)
  \/ \E ptr \in FreeTargets : Kfree(ptr)
  \/ \E ptr \in {NULL} \cup FreeTargets, req \in Requests : Krealloc(ptr, req)

Spec == Init /\ [][Next]_blocks

-----------------------------------------------------------------------------
TypeOK == blocks \in Seq(Block) /\ Len(blocks) >= 1

(* The blocks tile the heap window: each header directly follows the      *)
(* previous block's bytes and the last block ends at the window's end.    *)
(* Split and merge must both move Hdr bytes between header and data.      *)
HeapTiling ==
  /\ blocks[1].start = Hdr
  /\ \A i \in 1..(Len(blocks) - 1) :
        blocks[i].start + blocks[i].size + Hdr = blocks[i + 1].start
  /\ blocks[Len(blocks)].start + blocks[Len(blocks)].size = HeapSize

(* After every kmalloc and kfree no two neighbouring blocks are both free:*)
(* the coalesce pass of kfree leaves nothing to merge, so a later         *)
(* first-fit search sees every free run as one block.                     *)
Coalesced ==
  \A i \in 1..(Len(blocks) - 1) :
     ~(blocks[i].type = FREE /\ blocks[i + 1].type = FREE)

(* The heap implements the abstract allocator of Allocator.tla: the live  *)
(* regions are the allocated blocks.                                      *)
AllocatedRegions ==
  {[ptr |-> blocks[i].start, size |-> blocks[i].size] :
      i \in {j \in 1..Len(blocks) : blocks[j].type = ALLOCATED}}

Abstract == INSTANCE Allocator WITH live <- AllocatedRegions

(* kmalloc never hands out bytes of a live region, gives every caller at  *)
(* least the bytes it asked for, and kfree releases exactly one region.   *)
AllocatorRefinement == Abstract!Spec
=============================================================================
