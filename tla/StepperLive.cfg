SPECIFICATION FairSpec
CONSTANTS
  Threads = {t1, t2}
  None = None
  Calls = {"goTo", "goTillStop", "stop"}
  Distances = {1}
  Goals = {1}
  Forever = 2
  MaxTarget = 1
INVARIANTS
  OneLiveOp
  MovingHasSpeed
PROPERTY MovesReturn
