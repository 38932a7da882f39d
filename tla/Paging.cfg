CONSTANTS
  BitmapSize <- MCBitmapSize
  WordBits <- MCWordBits
  PageSize <- MCPageSize
  UsedFrames <- MCUsedFrames
  FreeAddrs <- MCFreeAddrs
  NDir <- MCNDir
  NTab <- MCNTab
  PtBase <- MCPtBase
  PdFrame <- MCPdFrame
  KernelStart <- MCKernelStart
  KernelPages <- MCKernelPages
  MapAddrs <- MCMapAddrs
  FlagSets <- MCFlagSets
SPECIFICATION Spec
INVARIANT TypeOK
PROPERTY PageMapRefinement
