\* One session; block numbers wrap within the file.
CONSTANTS
  w1 = w1
  w2 = w2
  Session = {w1}
  Chunks = 7
  BlockMod = 3
  Lifetime = 1
SPECIFICATION FairSpec
INVARIANTS CompleteMeansWritten DoneMeansWritten
PROPERTIES TransferSpec ShutdownDrains
CHECK_DEADLOCK FALSE
