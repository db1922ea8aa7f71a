SPECIFICATION Spec
CONSTANTS
  Names <- NamesAB
  Values <- NodeValues
  Nil = Nil
  Components <- AB
  Services = {}
  Unknown <- UnknownAB
  unk <- AsUnknownAB
  Configs <- ConfigsAB
  NoConfig <- Zero
  Actions = {"reconfigure", "rebuild"}
  Ticker = TRUE
  MaxReconfigure = 3
  MaxBuilds = 3
  MaxFaults = 1
CHECK_DEADLOCK FALSE
INVARIANTS
  NothingServedClosed
