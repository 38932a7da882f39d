------------------------------- MODULE MCHeap -------------------------------
(* Model-checking instance of Heap: a scaled heap window.                  *)
EXTENDS Heap

(* Header and window scaled down from 20 and 0x100000 bytes, keeping the  *)
(* 4-byte alignment; the window holds up to six small blocks.            *)
MCHdr == 4
MCHeapSize == 48
(* size_t scaled with the window so that wrap-around stays reachable.     *)
MCSizeWidth == 8
(* Sizes that align up to 4 and 8 bytes and one that exactly fills a      *)
(* block with no room left to split.                                      *)
MCRequests == {0, 3, 8, 12}
(* A small request and 2^SizeWidth - 3, the scaled 'malloc 4294967293':   *)
(* adding 3 wraps it to 0.                                                 *)
MCRequestsWrap == {3, 2^MCSizeWidth - 3}
=============================================================================
