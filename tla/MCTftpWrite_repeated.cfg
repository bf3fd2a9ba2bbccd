\* The WRQ arrives twice and starts two sessions on one file.
CONSTANTS
  w1 = w1
  w2 = w2
  Session = {w1, w2}
  Chunks = 2
  BlockMod = 4
  Lifetime = 2
SYMMETRY Symmetry
SPECIFICATION Spec
INVARIANT CompleteMeansWritten
CHECK_DEADLOCK FALSE
