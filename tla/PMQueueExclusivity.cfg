CONSTANTS
  MaxProcesses <- MCMaxProcesses
  MaxPid <- MCMaxPid
  Quantum <- MCQuantum
  StackSize <- MCStackSize
  Hdr <- MCHdr
  HeapSize <- MCHeapSize
  SizeWidth <- MCSizeWidth
  Priorities <- MCPriorities
  CountWidth <- MCCountWidth
SPECIFICATION Spec
INVARIANT QueueExclusivity
CHECK_DEADLOCK FALSE
