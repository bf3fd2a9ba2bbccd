\* One client at each door and an account that is listed twice.
CONSTANTS
  FtpSession   = {f1}
  SftpSession  = {s1}
  User         = {ann}
  ann          = ann
  Anonymous    = anonymous
  Config      <- MCTwice
  Name         = {a, b, out}
  Escaping     = {out}
  MaxHandles   = 2
  MaxUpdates   = 0
  NoName       = NoName
  Client       = {s1}
  Path         = {a}
  StartLike    = {}
  NoPath       = NoPath
  Buffer       = 1
  MaxTransfers = 1
SPECIFICATION MCSpec
INVARIANT
  RightsWereInForce
CHECK_DEADLOCK FALSE
