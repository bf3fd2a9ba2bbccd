\* Block numbers wrap twice in the file and packets arrive up to 2 blocks late.
CONSTANTS
  Chunks = 9
  BlockMod = 4
  MaxRetries = 3
  Lifetime = 2
SPECIFICATION FairSpec
INVARIANTS TypeOK CopyIsPrefix CompleteMeansStored
PROPERTIES TransferSpec SessionEnds
CHECK_DEADLOCK FALSE
