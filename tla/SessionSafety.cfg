SPECIFICATION SessionsSpec
CONSTANTS
  Sessions = {s1, s2}
  MoreSessions = {t1, t2, t3}
  Resources = {r1}
  Owners = {o1}
  MoreOwners = {u1, u2}
  Requests = {q1, q2}
  Nil = Nil
  NoResource = NoResource
  Idle = Idle
  heartbeatWindow = 1
  maxSessions = 1
  MaxTime = 1
INVARIANTS
  NoOrphanedMotion
  OwnSessionsOnly
  SessionLimit
PROPERTIES
  StopsOnlyExpired
  ExpiredNeverReturns
SYMMETRY BothSymmetry
CHECK_DEADLOCK FALSE
