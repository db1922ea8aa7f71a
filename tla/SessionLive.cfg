SPECIFICATION FairSpec
CONSTANTS
  Sessions = {s1}
  Resources = {r1, r2}
  Owners = {o1}
  Requests = {q1}
  Nil = Nil
  NoResource = NoResource
  Idle = Idle
  heartbeatWindow = 1
  maxSessions = 1
  MaxTime = 1
PROPERTIES
  CallsReturn
  LapsedIsDeleted
  MotionEndsWithSession
