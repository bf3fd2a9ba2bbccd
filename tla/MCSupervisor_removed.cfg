SPECIFICATION Spec
CONSTANTS
  f1 = f1
  f2 = f2
  f3 = f3
  c1 = c1
  c2 = c2
  None = None
  Name = {"ftp"}
  Inst = {f1, f2}
  NameOf <- FtpOnly
  Caller = {c1}
  Removable = {"ftp"}
  EarlyCalls = FALSE
  MaxCrashes = 1
CHECK_DEADLOCK FALSE
INVARIANT RemovedIsDown
