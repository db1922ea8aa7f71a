SPECIFICATION RobotSpec
CONSTANTS
  Names <- NamesABS
  Values <- NodeValues
  Nil = Nil
  Components <- AB
  Services = {"s"}
  Unknown <- UnknownABS
  unk <- AsUnknown
  Configs <- ConfigsABS
  NoConfig <- Zero
  Actions = {"none", "reconfigure", "rebuild"}
  Ticker = TRUE
  MaxReconfigure = 3
  MaxBuilds = 3
  MaxFaults = 1
  Requests = {q1, q2, q3}
  IDs = {i1, i2}
  Labels = {l1, l2}
  Waiters = {w1}
  None = None
  SharedIDs = FALSE
INVARIANTS
  ServedIsOpen
  DependenciesCurrent
  ComponentsRecreated
  ConfigIsFollowed
  OperationsTracked
PROPERTIES
  ComponentsBuilt
  BlockEnds
CHECK_DEADLOCK FALSE
