SPECIFICATION Spec
CONSTANTS
  Users = {u1}
  Readers = {r1}
  Issued = {"TRANSFER"}
  Requests <- Smallest
  Latencies = {2}
  MaxSize <- MCMaxSize
  Nobody = Nobody
  MaxTransfers = 1
  MaxErrors = 1
INVARIANTS ProcCountersBelongTogether
