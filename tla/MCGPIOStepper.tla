--------------------------- MODULE MCGPIOStepper ---------------------------
(* Instances of GPIOStepper for TLC.                                        *)
EXTENDS GPIOStepper, TLC

(* Revolutions GoFor is called with: backwards, for ever and forwards.      *)
AllDistances == {-1, 0, 1}
BothWays == {-1, 1}

Symmetry == Permutations(Threads)
=============================================================================
