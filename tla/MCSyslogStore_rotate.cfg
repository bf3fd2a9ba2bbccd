\* Two stores on one directory, three lines of which one fills a file
\* alone, two seconds, one error of the system, on POSIX and on Windows.
CONSTANTS
  Store     <- MCStore
  Setting   <- MCSetting
  Platforms = {TRUE, FALSE}
  Msg       <- MCMsg
  Size      <- MCSize
  MaxSize   = 2
  MaxTime   = 1
  File      <- MCFile
  MaxFaults = 1
  None      = None
SPECIFICATION Spec
INVARIANTS
  AcceptedIsKept
  RefusalHasACause
  FilesAreBounded
PROPERTY
  ExpiredWasOld
CHECK_DEADLOCK FALSE
