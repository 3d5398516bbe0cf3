----------------------------- MODULE MCLinuxSim -----------------------------
(***************************************************************************)
(* Instances of LinuxSim for TLC.                                          *)
(***************************************************************************)
EXTENDS LinuxSim, TLC

\* One number below, one above the table.
MCDeviceIds == {-1} \cup Devices \cup {NumDevices}

Symmetry == Permutations(Threads)
=============================================================================
