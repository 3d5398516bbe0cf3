----------------------------- MODULE MCOptions -----------------------------
(***************************************************************************)
(* Instances of Options for TLC: for each numeric option both ends of its  *)
(* range and the numbers just outside.                                     *)
(***************************************************************************)
EXTENDS Options

MCInputs == [o \in NumberOptions |->
  CASE o = "num-devices" -> {0, 1, 8, 9}
    [] o = "size" -> {63, 64, 4194304, 4194305}
    [] o = "rate" -> {0, 1, 10000, 10001}
    [] o = "threads" -> {0, 1, 2, 64, 65}
    [] o = "duration" -> {0, 1, 3600, 3601}]
=============================================================================
