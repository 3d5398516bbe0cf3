--------------------------- MODULE MCKernelDevice ---------------------------
(***************************************************************************)
(* Instances of KernelDevice for TLC.                                      *)
(***************************************************************************)
EXTENDS KernelDevice, TLC

\* The size limit stands for 1 MB; the requests are the smallest valid one and
\* one for each way to be invalid.
MCMaxSize == 2
Smallest == {[buffer |-> "user", size |-> 1, direction |-> 0]}
Invalid == {[buffer |-> "null", size |-> 1, direction |-> 0],
            [buffer |-> "user", size |-> 0, direction |-> 0],
            [buffer |-> "user", size |-> MCMaxSize + 1, direction |-> 0],
            [buffer |-> "user", size |-> 1, direction |-> 2]}
MCRequests == Smallest \cup Invalid

Symmetry == Permutations(Users)
=============================================================================
