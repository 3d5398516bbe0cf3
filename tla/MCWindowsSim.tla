---------------------------- MODULE MCWindowsSim ----------------------------
(***************************************************************************)
(* Instances of WindowsSim for TLC.                                        *)
(***************************************************************************)
EXTENDS WindowsSim, TLC

\* One device of the table, and the numbers below and above it.
MCDeviceIds == {-1, 0, NumDevices}

Symmetry == Permutations(Threads)
=============================================================================
