----------------------------- MODULE MCSessions -----------------------------
(***************************************************************************)
(* The sessions of a robot for TLC, in two instances: few ids and one user *)
(* while the clock moves, and more ids and users while it stands still.  A *)
(* behaviour runs one of them, its focus.                                  *)
(***************************************************************************)
EXTENDS MCSessionManager

CONSTANTS MoreSessions, MoreOwners

VARIABLE focus

Users == INSTANCE SessionManager WITH Sessions <- MoreSessions, Owners <- MoreOwners,
                                      MaxTime <- 0

SessionsInit == (focus = "time" /\ Init) \/ (focus = "users" /\ Users!Init)

\* Close is not called here: it ends expireLoop, and nothing more expires.
SessionsNext ==
  \/ focus = "time" /\ Next /\ UNCHANGED <<focus, closing>>
  \/ focus = "users" /\ Users!Next /\ UNCHANGED <<focus, closing>>

SessionsSpec == SessionsInit /\ [][SessionsNext]_<<focus, vars>>

\* As Symmetry, for the ids of both and the users.
BothSymmetry ==
  Symmetry \cup Permutations(MoreSessions) \cup Permutations(MoreOwners)
=============================================================================
