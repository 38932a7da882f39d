------------------------------ MODULE PhysPages ------------------------------
(***************************************************************************)
(* The physical page allocator of src/kernel/memory.c: one bit per frame   *)
(* in an array of bitmap_size words of WordBits bits.  Frames are handed   *)
(* out and taken back as byte addresses (frame * PAGE_SIZE), and frame 0   *)
(* doubles as the "no free page" answer of find_free_physical_page.        *)
(***************************************************************************)
EXTENDS Integers, FiniteSetsExt

CONSTANTS
  BitmapSize,  \* bitmap_size: number of words
  WordBits,    \* bits per bitmap word (32)
  PageSize,    \* PAGE_SIZE
  UsedFrames,  \* frames marked used at boot (0x600000 / PAGE_SIZE)
  FreeAddrs    \* addresses callers pass to free_physical_page

ASSUME UsedFrames >= 1 /\ UsedFrames <= BitmapSize * WordBits

VARIABLES
  bitmap,      \* bitmap[f] is the bit of frame f
  lastAlloc    \* the address the latest alloc_physical_page returned

Frames == 0..(BitmapSize * WordBits - 1)

(* Bit j of word i. *)
Bit(bm, i, j) == bm[i * WordBits + j]

(* find_free_physical_page: the first word that is not all ones, then its *)
(* first zero bit; 0 when every word is full.                             *)
FindFreePhysicalPage(bm) ==
  LET open == {i \in 0..(BitmapSize - 1) :
                 \E j \in 0..(WordBits - 1) : ~Bit(bm, i, j)}
  IN IF open = {} THEN 0
     ELSE LET i == Min(open)
          IN i * WordBits + Min({j \in 0..(WordBits - 1) : ~Bit(bm, i, j)})

(* init_physical_page_bitmap: clear the bitmap, then set the boot frames. *)
Init ==
  /\ bitmap = [f \in Frames |-> f < UsedFrames]
  /\ lastAlloc = 0

(* alloc_physical_page: a found page 0 counts as failure and is not set;  *)
(* either way page * PAGE_SIZE is returned.                               *)
AllocPhysicalPage ==
  LET page == FindFreePhysicalPage(bitmap) IN
  /\ bitmap' = IF page # 0 THEN [bitmap EXCEPT ![page] = TRUE] ELSE bitmap
  /\ lastAlloc' = page * PageSize

(* free_physical_page: clears the bit of any in-range address, with no    *)
(* check that the frame was allocated or is one of the boot frames.       *)
FreePhysicalPage(addr) ==
  LET pageNum == addr \div PageSize IN
  /\ bitmap' = IF pageNum < BitmapSize * WordBits
               THEN [bitmap EXCEPT ![pageNum] = FALSE] ELSE bitmap
  /\ UNCHANGED lastAlloc

(* mark_page_allocated / mark_page_free: set_bitmap_bit with no range     *)
(* check at all; callers are taken to pass in-range addresses.            *)
MarkPage(addr, set) ==
  /\ bitmap' = [bitmap EXCEPT ![addr \div PageSize] = set]
  /\ UNCHANGED lastAlloc

MarkAddrs == {f * PageSize : f \in Frames}

Next ==
  \/ AllocPhysicalPage
  \/ \E addr \in FreeAddrs : FreePhysicalPage(addr)
  \/ \E addr \in MarkAddrs, set \in BOOLEAN : MarkPage(addr, set)

vars == <<bitmap, lastAlloc>>

Spec == Init /\ [][Next]_vars

-----------------------------------------------------------------------------
TypeOK ==
  /\ bitmap \in [Frames -> BOOLEAN]
  /\ lastAlloc \in {f * PageSize : f \in Frames}
=============================================================================
