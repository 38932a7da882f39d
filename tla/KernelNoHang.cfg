CONSTANTS
  MaxProcesses <- MCMaxProcesses
  MaxPid <- MCMaxPid
  Quantum <- MCQuantum
  StackSize <- MCStackSize
  Hdr <- MCHdr
  HeapSize <- MCHeapSize
  SizeWidth <- MCSizeWidth
  Priorities <- MCPriorities
  CountWidth <- MCCountWidth
  MaxSyscalls <- MCMaxSyscalls
  CallNums <- MCCallNums
  ArgVals <- MCArgVals
  LevelArgs <- MCLevelArgs
  Commands <- MCCommands
SPECIFICATION KernelSpec
INVARIANT NoHang
CHECK_DEADLOCK FALSE
