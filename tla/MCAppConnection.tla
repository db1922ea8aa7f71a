---------------------------- MODULE MCAppConnection ----------------------------
(* Instance of AppConnection for TLC.                                      *)
EXTENDS AppConnection

(* A WebRTC page that needs no log-in, a direct one that does and whose     *)
(* robot has no sessions.                                                   *)
TwoDeployments == {<<TRUE, FALSE, TRUE>>, <<FALSE, TRUE, FALSE>>}

=============================================================================
