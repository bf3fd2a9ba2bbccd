\* Every algorithm on every input of MCAlgorithms.
CONSTANTS
  FileSystems <- MCFileSystems
  Root        <- MCRoot
  Segments    <- MCSegments
  Segment     <- MCSegment
  MaxLinks    = 4
  Token       <- MCToken
  Lines       <- MCLines
  Byte        <- MCByte
  Lower       <- MCLower
  Atoi        <- MCAtoi
  Packets     <- MCPackets
  Settings    <- MCSettings
  FileSizes   <- MCFileSizes
  Texts       <- MCTexts
  BlockSizes  = {1, 2, 3, 4}
SPECIFICATION Spec
INVARIANTS
  SafeJoinConfines
  ParseSplitsCleanly
  NegotiationIsConservative
  NetasciiStreams
CHECK_DEADLOCK FALSE
