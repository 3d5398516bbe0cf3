SPECIFICATION FairSpec
CONSTANTS
  Users = {u1, u2}
  Readers = {}
  Issued = {"TRANSFER", "GET_STATS", "RESET_STATS", "SET_ERROR", "FOREIGN"}
  Requests <- MCRequests
  Latencies = {2, 5}
  MaxSize <- MCMaxSize
  Nobody = Nobody
  MaxTransfers = 2
  MaxErrors = 1
INVARIANTS OneWriterAtATime SnapshotsConsistent
PROPERTIES ImplementsStatsObject IoctlsReturn
