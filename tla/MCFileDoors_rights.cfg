\* The permissions as auth.go words them: opening a file for append makes
\* it, and through SFTP "M" sets its size.
CONSTANTS
  FtpSession   = {f1}
  SftpSession  = {s1}
  User         = {ann}
  ann          = ann
  Anonymous    = anonymous
  Config      <- MCConfig
  Name         = {a, b, out}
  Escaping     = {out}
  MaxHandles   = 2
  MaxUpdates   = 0
  NoName       = NoName
  Client       = {s1}
  Path         = {a}
  StartLike    = {}
  NoPath       = NoPath
  Buffer       = 1
  MaxTransfers = 1
SPECIFICATION MCSpec
PROPERTY
  ChangesAsDocumented
CHECK_DEADLOCK FALSE
