CONSTANTS
  Hdr <- MCHdr
  HeapSize <- MCHeapSize
  SizeWidth <- MCSizeWidth
  Requests <- MCRequests
SPECIFICATION Spec
INVARIANT TypeOK
INVARIANT HeapTiling
INVARIANT Coalesced
PROPERTY AllocatorRefinement
