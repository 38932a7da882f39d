CONSTANTS
  Hdr <- MCHdr
  HeapSize <- MCHeapSize
  SizeWidth <- MCSizeWidth
  Requests <- MCRequestsWrap
SPECIFICATION Spec
PROPERTY AllocatorRefinement
