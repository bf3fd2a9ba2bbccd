\* Two late ACKs make the session give a block up without a timeout.
CONSTANTS
  Chunks = 3
  BlockMod = 8
  MaxRetries = 2
  Lifetime = 3
SPECIFICATION Spec
INVARIANT AbortMeansTimeouts
CHECK_DEADLOCK FALSE
