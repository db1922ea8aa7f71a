SPECIFICATION FairSpec
CONSTANTS
  Sessions = {s1, s2}
  Resources = {r1}
  Owners = {o1}
  Requests = {q1}
  Nil = Nil
  NoResource = NoResource
  Idle = Idle
  heartbeatWindow = 1
  maxSessions = 0
  MaxTime = 1
PROPERTY LapsedIsDeleted
CHECK_DEADLOCK FALSE
