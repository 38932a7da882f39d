------------------------------ MODULE FatTable ------------------------------
(***************************************************************************)
(* What the file allocation table promises its users in                    *)
(* src/fs/filesystem.c: one 12-bit value per cluster, which                *)
(* fs_write_fat(cluster, value) sets and fs_read_fat(cluster) returns,     *)
(* leaving every other cluster's value as it was.                          *)
(***************************************************************************)
CONSTANTS
  Clusters,   \* cluster numbers
  Values,     \* values written into the table
  FatInit     \* the table fs_init leaves

VARIABLE fat

Init == fat = FatInit

Write(c, v) == fat' = [fat EXCEPT ![c] = v]

Next == \E c \in Clusters, v \in Values : Write(c, v)

Spec == Init /\ [][Next]_fat
=============================================================================
