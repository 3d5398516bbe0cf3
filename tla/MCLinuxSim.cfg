SPECIFICATION FairSpec
CONSTANTS
  Threads = {t1, t2}
  NumDevices = 2
  DeviceIds <- MCDeviceIds
  Sizes = {0, 1}
  Latencies = {0, 3}
  Free = Free
  Watched = 0
  MaxTransfers = 1
INVARIANTS SectionsAreAtomic InitialisedBeforeUse SnapshotsConsistent
PROPERTIES ImplementsStatsObject MutexesAreReleased
