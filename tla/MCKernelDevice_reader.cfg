SPECIFICATION Spec
CONSTANTS
  Users = {u1, u2}
  Readers = {r1}
  Issued = {"TRANSFER"}
  Requests <- Smallest
  Latencies = {2, 5}
  MaxSize <- MCMaxSize
  Nobody = Nobody
  MaxTransfers = 3
  MaxErrors = 1
SYMMETRY Symmetry
INVARIANTS ProcLagsByOneTransfer
