------------------------------ MODULE MCPaging ------------------------------
(* Model-checking instance of Paging over the scaled bitmap of MCPhysPages. *)
EXTENDS Paging

MCBitmapSize == 2
MCWordBits == 4
MCPageSize == 2
MCUsedFrames == 3
(* Frame 0, also the value of a failed allocation, freed by a caller;     *)
(* table frames are freed by destroy_page_table.                          *)
MCFreeAddrs == {0}
(* Two directory slots of two entries: the identity map fills slot 0 and  *)
(* slot 1 is created on demand.                                           *)
MCNDir == 2
MCNTab == 2
(* Boot frames 0..2 (6MB), a free gap at frame 3, the table watermark at  *)
(* frame 4 (7MB), the directory at frame 7 (16MB).                        *)
MCPtBase == 4
MCPdFrame == 7
(* The kernel image (1MB..2MB) is the second page of the identity range.  *)
MCKernelStart == 1
MCKernelPages == 1
(* A page-aligned free frame and an unaligned address in a table frame.   *)
MCMapAddrs == {6, 9}
(* Present and writable; unmap_page gives the entries that are not        *)
(* present.                                                               *)
MCFlagSets == {{"P", "W"}}
=============================================================================
