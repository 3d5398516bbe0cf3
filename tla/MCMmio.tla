------------------------------- MODULE MCMmio -------------------------------
(***************************************************************************)
(* Mmio for TLC: two users who clear one interrupt or both, take back the  *)
(* error bit of the status, and switch error injection on and off.         *)
(***************************************************************************)
EXTENDS Mmio, TLC

CONSTANTS u1, u2

MCUsers == {u1, u2}
MCStatusValues == {{"READY", "PENDING"}}
MCControlValues == {{"ENABLE", "RESET"}}
MCClearValues == {{"COMPLETE"}, {"COMPLETE", "ERROR"}}
MCInjectValues == {0, 257}

Symmetry == Permutations(MCUsers)
=============================================================================
