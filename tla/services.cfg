SPECIFICATION MCSpec
CONSTANTS
  x = x  y = y  r1 = r1  r2 = r2
  Transfer = {x, y}  Parts = 2  Changes = 1  TransferTombs = 1
  Restarts = 2
  DaemonRestarts = 2  Evictions = 2
  Agent = {x, y}  Command = {1, 2}
  Routine = {r1, r2}  Window = 2  Others = 2  Generations = 2
  Caller = {x, y}  Hosts = 3
  Bootstraps = 3  Reboots = 2
INVARIANTS
  DownloadsOwned WriteVerdict ExecHonest DesktopKept ReceiptIsTrue MintedOnce
  StillReachable
CHECK_DEADLOCK FALSE
