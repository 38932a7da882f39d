CONSTANTS
  BufferSize <- MCBufferSize
  Keys <- MCKeys
  ScancodeMap <- MCScancodeMap
  ShiftMap <- MCShiftMap
  MaxKeys <- MCMaxKeys
  MaxLength <- MCMaxLength
  MaxArgs <- MCMaxArgs
  MaxHeld <- MCMaxHeld
  Builds <- MCBuilds
SPECIFICATION FairSpec
INVARIANT TypeOK
INVARIANT AtomicBuildKeepsKeys
 
INVARIANT ArgsAreWords
PROPERTY EveryKeyRead
