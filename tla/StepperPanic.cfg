SPECIFICATION Spec
CONSTANTS
  Threads = {t1}
  None = None
  Calls = {"goFor", "reset"}
  Distances = {2}
  Goals = {0, 1}
  Forever = 3
  MaxTarget = 1
INVARIANTS NeverPanics
