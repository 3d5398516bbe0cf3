SPECIFICATION FairSpec
CONSTANTS
  Procs = {p1, p2}
  Requests = {ra, rb}
  Statuses = {1}
  Size = 2
  Free = Free
  MaxSubmissions = 3
  MaxOverruns = 1
  MaxTime = 1
INVARIANTS RingIndices TimestampsOrdered SpaceIsPromised
PROPERTIES PendingIntact ImplementsQueue CallsReturn
