------------------------------- MODULE MCRing -------------------------------
(***************************************************************************)
(* Instances of Ring for TLC.                                              *)
(***************************************************************************)
EXTENDS Ring, TLC

\* Contexts and requests are interchangeable.
Symmetry == Permutations(Procs) \cup Permutations(Requests)
=============================================================================
