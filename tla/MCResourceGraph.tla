-------------------------- MODULE MCResourceGraph --------------------------
(***************************************************************************)
(* Instances of ResourceGraph for TLC.                                     *)
(***************************************************************************)
EXTENDS ResourceGraph, TLC

Symmetry == Permutations(Names)
=============================================================================
