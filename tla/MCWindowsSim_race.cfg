SPECIFICATION Spec
CONSTANTS
  Threads = {t1, t2}
  NumDevices = 1
  DeviceIds <- Devices
  Offered = {"open"}
  Sizes = {1}
  MaxSize = 2
  Latencies = {3}
  UINT64_MAX = 99
  MutexIds = {1, 2}
  Starters = {t1, t2}
  Starts = {FALSE}
  Free = Free
  Nil = Nil
  Watched = 0
  MaxTransfers = 1
INVARIANTS ExclusiveOpen
CHECK_DEADLOCK FALSE
