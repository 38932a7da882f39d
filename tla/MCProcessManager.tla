-------------------------- MODULE MCProcessManager --------------------------
(* Model-checking instance of ProcessManager.                              *)
EXTENDS ProcessManager

(* The idle process and two more PCBs.                                     *)
MCMaxProcesses == 3
(* Enough PIDs for a slot to be reused twice.                              *)
MCMaxPid == 4
MCQuantum == 10
(* Heap scaled as in MCHeap: room for exactly two stacks.                  *)
MCStackSize == 8
MCHdr == 4
MCHeapSize == 24
MCSizeWidth == 8
MCPriorities == {2}
(* process_count scaled from 32 bits; wrap-around stays far from the pool  *)
(* size as it is in the code.                                              *)
MCCountWidth == 3

=============================================================================
