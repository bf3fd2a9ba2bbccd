\* Each of the three servers, stopped in each of the three ways, with three
\* connections of which one comes from an address that is not allowed.
CONSTANTS
  Conn   = {c1, c2, c3}
  Denied = {c3}
  NoConn = NoConn
SPECIFICATION Spec
INVARIANT
  RefusedOnlyAtDeadline
PROPERTIES
  StartReturns
  LeavesNothingBehind
CHECK_DEADLOCK FALSE
