----------------------------- MODULE MCMonitor -----------------------------
(***************************************************************************)
(* Monitor for TLC: two threads of a program, and polling threads enough   *)
(* for a stray one beside the current one.                                 *)
(***************************************************************************)
EXTENDS Monitor

CONSTANTS c1, c2, p1, p2

MCCallers == {c1, c2}
MCPollers == {p1, p2}
=============================================================================
