SPECIFICATION Spec
CONSTANTS
  a1 = a1
  a2 = a2
  x1 = x1
  x2 = x2
  Addr = {a1, a2}
  Rest = {x1, x2}
  Service <- Services
  Rank <- CodeOrder
  Updatable = {"webui"}
  MayFail = {"syslog"}
  Web = "webui"
  Config <- Configs
  Default <- JustWeb
  Empty = Empty
  Broken = Broken
  Boot = Boot
  None = None
  MaxReloads = 3
CHECK_DEADLOCK FALSE
INVARIANT LastSaveWins
