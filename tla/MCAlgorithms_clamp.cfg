\* The same inputs; paths that climb behind a leading slash.
CONSTANTS
  FileSystems <- MCFileSystems
  Root        <- MCRoot
  Segments    <- MCSegments
  Segment     <- MCSegment
  MaxLinks    = 4
  Token       <- MCToken
  Lines       <- MCLines
  Byte        <- MCByte
  Lower       <- MCLower
  Atoi        <- MCAtoi
  Packets     <- MCPackets
  Settings    <- MCSettings
  FileSizes   <- MCFileSizes
  Texts       <- MCTexts
  BlockSizes  = {1, 2, 3, 4}
SPECIFICATION Spec
INVARIANT
  ClimbingIsRefused
CHECK_DEADLOCK FALSE
