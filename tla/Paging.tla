------------------------------- MODULE Paging -------------------------------
(***************************************************************************)
(* The two-level page tables of src/kernel/memory.c over the physical page *)
(* allocator.  The page directory lives at a fixed frame; page tables are  *)
(* carved from a static watermark by create_page_table, one per directory  *)
(* slot the first time map_page needs it, and are never reclaimed.  None  *)
(* of these frames is marked in the physical page bitmap.                  *)
(***************************************************************************)
EXTENDS Integers, Sequences, SequencesExt

CONSTANTS
  BitmapSize, WordBits, PageSize, UsedFrames, FreeAddrs,
  NDir,         \* PAGE_DIRECTORY_SIZE
  NTab,         \* PAGE_TABLE_SIZE
  PtBase,       \* first frame of create_page_table's watermark (0x700000)
  PdFrame,      \* frame of the page directory (0x1000000)
  KernelStart,  \* first page of the kernel-image map (0x100000)
  KernelPages,  \* its length in pages (0x100000 / PAGE_SIZE)
  MapAddrs,     \* physical addresses callers pass to map_page
  FlagSets      \* flag combinations callers pass to map_page

VARIABLES bitmap, lastAlloc, pd, tables, nextPt

P == INSTANCE PhysPages

vars == <<bitmap, lastAlloc, pd, tables, nextPt>>

TableFrames == PtBase..(PtBase + NDir - 1)
VPages == 0..(NDir * NTab - 1)
VAddrs == 0..(NDir * NTab * PageSize - 1)
Unmapped == -1

(* page_entry_t with the bits the kernel writes.                          *)
ZeroEntry == [present |-> FALSE, rw |-> FALSE, user |-> FALSE,
              global |-> FALSE, address |-> 0]

(* get_page_directory_index, get_page_table_index, get_page_offset.       *)
PdIndex(va) == (va \div (NTab * PageSize)) % NDir
PtIndex(va) == (va \div PageSize) % NTab
PageOffset(va) == va % PageSize

(* create_page_table: the next frame of the static watermark, zeroed.    *)
CreatePageTable(k) ==
  [k EXCEPT !.tables[k.nextPt] = [t \in 0..(NTab - 1) |-> ZeroEntry],
            !.nextPt = @ + 1]

(* The leaf map_page writes: the frame of physical_addr and the flags.   *)
LeafEntry(pa, flags) ==
  [present |-> "P" \in flags, rw |-> "W" \in flags, user |-> "U" \in flags,
   global |-> "G" \in flags, address |-> pa \div PageSize]

(* The directory entry map_page writes for a new table.                   *)
DirEntry(pt) ==
  [ZeroEntry EXCEPT !.present = TRUE, !.rw = TRUE, !.user = TRUE, !.address = pt]

(* Mutant: the directory entry is filled in but not marked present, so    *)
(* the next map_page in the same slot creates another table.              *)
MapPageResultNoPresent(k, va, pa, flags) ==
  LET d  == PdIndex(va)
      k1 == IF k.pd[d].present THEN k
            ELSE [CreatePageTable(k) EXCEPT
                    !.pd[d] = [DirEntry(k.nextPt) EXCEPT !.present = FALSE]]
  IN [k1 EXCEPT !.tables[k1.pd[d].address][PtIndex(va)] = LeafEntry(pa, flags)]

(* map_page on k = [pd, tables, nextPt]: a directory slot that is not      *)
(* present gets a fresh zeroed table from the watermark (create_page_table *)
(* never fails), then the leaf entry takes the address and the flags.     *)
MapPageResult(k, va, pa, flags) ==
  LET d  == PdIndex(va)
      k1 == IF k.pd[d].present THEN k
            ELSE [CreatePageTable(k) EXCEPT !.pd[d] = DirEntry(k.nextPt)]
  IN [k1 EXCEPT !.tables[k1.pd[d].address][PtIndex(va)] = LeafEntry(pa, flags)]

(* paging_init: the zeroed directory, then setup_identity_paging (the     *)
(* first directory slot, present|writable|global) and setup_kernel_paging *)
(* (present|writable), one map_page per page in that order.               *)
BootMaps ==
  [i \in 1..NTab |-> [page |-> i - 1, flags |-> {"P", "W", "G"}]]
    \o [i \in 1..KernelPages |-> [page |-> KernelStart + i - 1, flags |-> {"P", "W"}]]

BootState ==
  FoldLeft(LAMBDA k, m : MapPageResult(k, m.page * PageSize, m.page * PageSize, m.flags),
           [pd |-> [d \in 0..(NDir - 1) |-> ZeroEntry],
            tables |-> [f \in TableFrames |-> [t \in 0..(NTab - 1) |-> ZeroEntry]],
            nextPt |-> PtBase],
           BootMaps)

Init ==
  /\ P!Init
  /\ pd = BootState.pd
  /\ tables = BootState.tables
  /\ nextPt = BootState.nextPt

Pt == [pd |-> pd, tables |-> tables, nextPt |-> nextPt]

MapPage(va, pa, flags) ==
  LET k == MapPageResult(Pt, va, pa, flags) IN
  /\ pd' = k.pd /\ tables' = k.tables /\ nextPt' = k.nextPt
  /\ UNCHANGED <<bitmap, lastAlloc>>

(* Mutant: the present bit of the directory entry is cleared instead of  *)
(* the leaf's, unmapping every page of the slot.                          *)
UnmapPageClearsDirectory(va) ==
  /\ pd[PdIndex(va)].present
  /\ pd' = [pd EXCEPT ![PdIndex(va)].present = FALSE]
  /\ UNCHANGED <<bitmap, lastAlloc, tables, nextPt>>

(* unmap_page: false if the directory slot is absent; otherwise only the  *)
(* leaf's present bit is cleared and the table stays.                     *)
UnmapPage(va) ==
  /\ pd[PdIndex(va)].present
  /\ tables' = [tables EXCEPT ![pd[PdIndex(va)].address][PtIndex(va)].present = FALSE]
  /\ UNCHANGED <<bitmap, lastAlloc, pd, nextPt>>

(* destroy_page_table: free_physical_page of the table's address; the     *)
(* directory entry still points at it.                                    *)
DestroyPageTable(f) ==
  /\ f \in {pd[d].address : d \in {e \in 0..(NDir - 1) : pd[e].present}}
  /\ P!FreePhysicalPage(f * PageSize)
  /\ UNCHANGED <<pd, tables, nextPt>>

AllocPhysicalPage ==
  /\ P!AllocPhysicalPage
  /\ UNCHANGED <<pd, tables, nextPt>>

(* free_physical_page called by other callers of the exported API on      *)
(* addresses of their choosing.                                           *)
FreePhysicalPage(addr) ==
  /\ P!FreePhysicalPage(addr)
  /\ UNCHANGED <<pd, tables, nextPt>>

(* One address inside each virtual page, at offset 1 in odd pages, so     *)
(* both aligned and unaligned addresses reach the index arithmetic.       *)
CallerVAddrs == {v * PageSize + (v % 2) : v \in VPages}

Next ==
  \/ \E va \in CallerVAddrs, pa \in MapAddrs, flags \in FlagSets : MapPage(va, pa, flags)
  \/ \E va \in CallerVAddrs : UnmapPage(va)
  \/ \E f \in TableFrames : DestroyPageTable(f)
  \/ AllocPhysicalPage
  \/ \E addr \in FreeAddrs : FreePhysicalPage(addr)

Spec == Init /\ [][Next]_vars

-----------------------------------------------------------------------------
(* get_physical_address: 0 when the directory slot or the leaf is absent. *)
GetPhysicalAddress(va) ==
  IF ~pd[PdIndex(va)].present THEN 0
  ELSE LET e == tables[pd[PdIndex(va)].address][PtIndex(va)]
       IN IF ~e.present THEN 0 ELSE e.address * PageSize + PageOffset(va)

Entry == [present : BOOLEAN, rw : BOOLEAN, user : BOOLEAN, global : BOOLEAN,
          address : P!Frames]

TypeOK ==
  /\ P!TypeOK
  /\ pd \in [0..(NDir - 1) -> Entry]
  /\ tables \in [TableFrames -> [0..(NTab - 1) -> Entry]]
  /\ nextPt \in PtBase..(PtBase + NDir)

(* The frame a virtual page translates to, as the abstract map sees it.   *)
Translation ==
  [v \in VPages |->
     LET e == tables[pd[PdIndex(v * PageSize)].address][PtIndex(v * PageSize)]
     IN IF pd[PdIndex(v * PageSize)].present /\ e.present THEN e.address
        ELSE Unmapped]

Abstract == INSTANCE PageMap WITH pageMap <- Translation, PFrames <- P!Frames,
              BootMap <- [v \in VPages |->
                            IF v < NTab \/ v \in KernelStart..(KernelStart + KernelPages - 1)
                            THEN v ELSE Unmapped]

(* The two-level structure implements a flat page map: every map_page and *)
(* unmap_page changes the translation of exactly the page it names, and   *)
(* creating a table for a new directory slot loses no earlier mapping.    *)
PageMapRefinement == Abstract!Spec

=============================================================================
