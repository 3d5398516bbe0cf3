SPECIFICATION FairSpec
CONSTANTS
  Threads = {t1, t2}
  NumDevices = 2
  DeviceIds <- MCDeviceIds
  Offered = {"open", "close", "transfer", "get", "reset", "cleanup"}
  Sizes = {1, 3}
  MaxSize = 2
  Latencies = {0, 3}
  UINT64_MAX = 99
  MutexIds = {1, 2}
  Starters = {t1}
  Starts = {TRUE, FALSE}
  Free = Free
  Nil = Nil
  Watched = 0
  MaxTransfers = 2
INVARIANTS ActiveMeansInUse SnapshotsConsistent ActiveDevicesHaveMutexes
PROPERTIES ImplementsStatsObject CallsReturn
