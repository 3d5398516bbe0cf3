SPECIFICATION FairSpec
CONSTANTS
  c1 = c1
  c2 = c2
  p1 = p1
  p2 = p2
  None = None
  Callers <- MCCallers
  Pollers <- MCPollers
  Warmup = 1
  NumTransfers = 2
  MaxTransfers = 3
INVARIANT OnePoller
INVARIANT DiesOnlyOfPolls
INVARIANT BenchmarkIsExact
PROPERTY StopReturns
CHECK_DEADLOCK FALSE
