\* One client at each door, one account with two sets of rights, a reload
\* at any moment, two paths inside the root and one outside.  The table:
\* one client, one path that two transfers may have open at a time, and
\* three of their events in the channel.
CONSTANTS
  FtpSession   = {f1}
  SftpSession  = {s1}
  User         = {ann}
  ann          = ann
  Anonymous    = anonymous
  Config      <- MCConfig
  Name         = {a, b, out}
  Escaping     = {out}
  MaxHandles   = 2
  MaxUpdates   = 1
  NoName       = NoName
  Client       = {s1}
  Path         = {a}
  StartLike    = {}
  NoPath       = NoPath
  Buffer       = 3
  MaxTransfers = 2
SPECIFICATION MCSpec
INVARIANTS
  RightsWereInForce
  SftpRowsMatch
PROPERTY
  ChangesWereGranted
CHECK_DEADLOCK FALSE
