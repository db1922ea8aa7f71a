SPECIFICATION Spec
CONSTANTS
  Threads = {t1, t2}
  None = None
  Calls = {"goFor", "slowGoFor", "reset", "stop"}
  Distances <- BothWays
  Goals = {0, 1}
  Forever = 2
  MaxTarget = 1
SYMMETRY Symmetry
INVARIANTS
  ClearMoveArrives
  InterruptedStops
CHECK_DEADLOCK FALSE
