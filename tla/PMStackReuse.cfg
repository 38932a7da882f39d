CONSTANTS
  MaxProcesses <- MCMaxProcesses
  MaxPid <- MCMaxPid
  Quantum <- MCQuantum
  StackSize <- MCStackSize
  Hdr <- MCHdr
  HeapSize <- MCHeapSize
  SizeWidth <- MCSizeWidth
  Priorities <- MCPriorities
  CountWidth <- MCCountWidth
  MaxSyscalls <- MCMaxSyscalls
  CallNums <- MCProcCallNums
  ArgVals <- MCProcArgVals
  LevelArgs <- MCLevelArgs
  Commands <- MCProcCommands
SPECIFICATION SystemSpec
INVARIANT LiveStacksAllocated
CHECK_DEADLOCK FALSE
