SPECIFICATION PanelsSpec
CONSTANTS
  Null = Null
  NaN = NaN
  Cameras = {c1, c2}
  NoCamera = NoCamera
  Offered = {"Every Second", "Manual Refresh"}
  StreamIds = {1, 2}
  MaxStreamCalls = 2
  Keys = {"w"}
  Ids = {1, 2, 3}
  MaxMounts = 2
  Fields = {"mode", "type"}
  Pads = {0, 1}
  StickValues = {0, 1}
  Leads <- Behind
  Timers = {t1, t2}
  MaxEvents = 2
  Actuators = {"arm", "gantry", "servo", "gripper", "motor"}
  Axes = {"j0", "j1"}
  Amounts = {1}
  Typed = {2}
  Edited = {"j0"}
  MaxMoves = 3
  MaxStatus = 2
  Askers = {"do", "board", "sensors", "audio"}
  Parts = {"x", "y"}
  MaxAsked = 2
  Starts = {0, 1, 2}
  MaxList = 3
SYMMETRY Symmetry
INVARIANTS
  StreamsMatchMaps
  FrameTimerIsWanted
  ReleasedMeansStopped
  PressedIsHeld
  EventsInOrder
  ButtonsObeyed
  AnswersAreTrue
  ListsInOrder
CHECK_DEADLOCK FALSE
