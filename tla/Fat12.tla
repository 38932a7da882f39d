------------------------------- MODULE Fat12 -------------------------------
(***************************************************************************)
(* The FAT12 encoding of fs_read_fat and fs_write_fat                      *)
(* (src/fs/filesystem.c): two 12-bit entries in every three bytes of       *)
(* fat_table, each accessed through the little-endian 16-bit word at byte  *)
(* offset cluster * 3 / 2.  An even cluster owns the low 12 bits of its    *)
(* word, an odd cluster the high 12, and the nibble in between belongs to  *)
(* the neighbour.                                                          *)
(***************************************************************************)
EXTENDS Integers, Bitwise

CONSTANTS
  NClusters,  \* clusters the table holds
  Values      \* 12-bit values callers write

VARIABLE bytes   \* fat_table as bytes

Clusters == 0..(NClusters - 1)
Bytes == 0..(((NClusters - 1) * 3) \div 2 + 1)

(* A little-endian 16-bit load through a uint16_t pointer.               *)
Word(b, off) == b[off] + 256 * b[off + 1]

(* A little-endian 16-bit store through a uint16_t pointer.              *)
SetWord(b, off, w) == [b EXCEPT ![off] = w % 256, ![off + 1] = w \div 256]

(* fs_read_fat: the high 12 bits of the word for an odd cluster, the low  *)
(* 12 for an even one.                                                    *)
FsReadFat(b, c) ==
  LET w == Word(b, (c * 3) \div 2)
  IN IF c % 2 = 1 THEN shiftR(w, 4) ELSE w & 4095

(* Mutant: the even-cluster write does not keep the neighbour's nibble.   *)
FsWriteFatNoKeep(b, c, v) ==
  LET off == (c * 3) \div 2
      w   == Word(b, off)
  IN SetWord(b, off, IF c % 2 = 1 THEN (w & 15) | ((v * 16) % 65536)
                     ELSE v & 4095)

(* fs_write_fat: keep the neighbour's nibble and put the value in the     *)
(* cluster's 12 bits; value << 4 is truncated to the 16-bit word.         *)
FsWriteFat(b, c, v) ==
  LET off == (c * 3) \div 2
      w   == Word(b, off)
  IN SetWord(b, off, IF c % 2 = 1 THEN (w & 15) | ((v * 16) % 65536)
                     ELSE (w & 61440) | (v & 4095))

(* fs_init: memset to zero, then cluster 0 reserved (0xFF8) and cluster 1 *)
(* end of chain (0xFFF).                                                  *)
Init ==
  bytes = FsWriteFat(FsWriteFat([i \in Bytes |-> 0], 0, 4088), 1, 4095)

WriteFat(c, v) == bytes' = FsWriteFat(bytes, c, v)

Next == \E c \in Clusters, v \in Values : WriteFat(c, v)

Spec == Init /\ [][Next]_bytes

-----------------------------------------------------------------------------
Decoded == [c \in Clusters |-> FsReadFat(bytes, c)]

Abstract == INSTANCE FatTable WITH fat <- Decoded,
              FatInit <- [c \in Clusters |-> CASE c = 0 -> 4088
                                               [] c = 1 -> 4095
                                               [] OTHER -> 0]

(* The packed table behaves as an array of 12-bit entries: every          *)
(* fs_write_fat changes what fs_read_fat returns for that cluster only,   *)
(* to the value written, although neighbouring clusters share a byte.     *)
FatRefinement == Abstract!Spec
=============================================================================
