--------------------------- MODULE ConnectionMonitor ---------------------------
(***************************************************************************)
(* What the page promises about its connection: one pass at a time asks    *)
(* the robot, every pass ends in a verdict, only a verdict moves the       *)
(* banner, a bad verdict is followed by an attempt to repair, and passes   *)
(* go on for ever.                                                         *)
(***************************************************************************)
VARIABLES
  phase,   \* "off", "asking", "repairing" or "waiting"
  banner   \* the page says that the connection is lost

vars == <<phase, banner>>

Init == phase = "off" /\ banner = FALSE

Start    == phase = "off" /\ phase' = "asking" /\ UNCHANGED banner
Good     == phase = "asking" /\ phase' = "waiting" /\ banner' = FALSE
Bad      == phase = "asking" /\ phase' = "repairing" /\ banner' = TRUE
Repaired == phase = "repairing" /\ phase' = "waiting" /\ UNCHANGED banner
Again    == phase = "waiting" /\ phase' = "asking" /\ UNCHANGED banner

Pass == Good \/ Bad \/ Repaired \/ Again
Next == Start \/ Pass

Steps == Init /\ [][Next]_vars

Spec == Steps /\ WF_vars(Pass)

=============================================================================
