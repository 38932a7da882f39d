SPECIFICATION Spec
CONSTANTS
  a = a
  b = b
  NClusters <- MCNClusters
  NRoot <- MCNRoot
  Bases <- MCBases
  SectorSize <- MCSectorSize
  Sizes <- MCSizes
  SeekOffsets <- MCSeekOffsets
  MaxFileSize <- MCMaxFileSize
  NameBases <- MCNameBases
CHECK_DEADLOCK FALSE
INVARIANT
  NoHang
