------------------------------- MODULE MCFat12 -------------------------------
(* Model-checking instance of Fat12.                                       *)
EXTENDS Fat12

(* Four clusters: two even/odd pairs, so both shared bytes are exercised. *)
MCNClusters == 4
(* Free, a cluster number with every nibble set differently (2879, the    *)
(* last cluster fs_find_free_cluster scans), end of chain and reserved.   *)
MCValues == {0, 2879, 4095, 4088}
=============================================================================
