SPECIFICATION OperatorSpec
CONSTANTS
  Keys = {"w"}
  BaseIds = {1, 2, 3}
  MaxMounts = 1
  Fields = {}
  Pads = {1}
  StickValues = {0}
  NaN = NaN
  Null = Null
  NoValue = NoValue
  Timers = {1, 2}
  MaxEvents = 2
  Positions = {p1, p2}
  MaxId = 3
  MaxViews = 3
  MaxWork = 4
  Feeds = {"image", "pcd", "sensor"}
  Versions = {1, 2}
  FeedIds = {1, 2}
  Parts = {"x", "y"}
  MaxAsked = 2
INVARIANTS
  LabelsUnique
  OneInterval
PROPERTIES
  HiddenStops
  DisconnectReported
  WaypointsShown
  PanelsSettle
CHECK_DEADLOCK FALSE
