SPECIFICATION FairSpec
CONSTANTS
  Configs <- MCConfigs
  PatternTransfers = 1
  MaxTransfers = 2
INVARIANT RecordsAreComplete
INVARIANT RowsMatchDevices
INVARIANT BusyOnlyIfShared
INVARIANT DiesOnlyOf
PROPERTY SessionEnds
CHECK_DEADLOCK FALSE
