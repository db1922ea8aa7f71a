-------------------------- MODULE MCSessionManager --------------------------
(* Instances of SessionManager for TLC.                                     *)
EXTENDS SessionManager, TLC

(* The ids, the resources and the requests are interchangeable.             *)
Symmetry ==
  Permutations(Sessions) \cup Permutations(Resources) \cup Permutations(Requests)
=============================================================================
