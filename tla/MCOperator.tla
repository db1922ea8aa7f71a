----------------------------- MODULE MCOperator -----------------------------
(***************************************************************************)
(* The parts of the page with held keys and timers, for TLC: the base      *)
(* panel, the gamepad panel, the navigation panel, the panels that refresh *)
(* themselves and the command panel.  They share no state: a behaviour     *)
(* runs one of them, its focus, and the others rest in an initial state.   *)
(***************************************************************************)
EXTENDS NavigationPanel, RefreshPanels

CONSTANTS NaN, Keys, BaseIds, MaxMounts, Fields, Pads, StickValues, Timers, MaxEvents, Parts, MaxAsked

VARIABLES
  focus,
  page, held, down, baseMounted, inst, tab, isActive, pressedKeys, pressed, stopped, discrete,
  baseCalls, power, lost, missed, late,
  plugged, stick, padMounted, gamepadIdx, prevConnected, enabled, curState, padTimers,
  handle, padCalls, lastEvent, stamps, unsynced,
  asker, part, setPin, input, executing, listening, answer, asked, sent, level, stream,
  askReachable, edited, changed

Base == INSTANCE BaseTeleop WITH Ids <- BaseIds, mounted <- baseMounted, calls <- baseCalls
Pad  == INSTANCE GamepadInput WITH Leads <- {0}, timers <- padTimers
Do   == INSTANCE RequestPanels WITH Askers <- {"do"}, shown <- answer, reachable <- askReachable

baseVars == <<page, held, down, baseMounted, inst, tab, isActive, pressedKeys, pressed,
              stopped, discrete, baseCalls, power, lost, missed, late>>
padVars  == <<plugged, stick, padMounted, gamepadIdx, prevConnected, enabled, curState,
              padTimers, handle, padCalls, lastEvent, stamps, unsynced>>
doVars   == <<asker, part, setPin, input, executing, listening, answer, asked, sent, level,
              stream, askReachable, edited, changed>>
all == <<focus, baseVars, padVars, navVars, feedVars, doVars>>

OperatorInit ==
  /\ focus \in {"teleop", "gamepad", "navigation", "refresh", "do"}
  /\ Base!Init /\ Pad!PadInit /\ NavigationInit /\ FeedInit /\ Do!AskInit
  /\ focus # "gamepad" => plugged = {}
  /\ focus # "refresh" => feed = "sensor" /\ world = 1
  /\ focus # "do" => level = [p \in Parts |-> "low"]

OnTeleop     == focus = "teleop" /\ UNCHANGED <<focus, padVars, navVars, feedVars, doVars>>
OnGamepad    == focus = "gamepad" /\ UNCHANGED <<focus, baseVars, navVars, feedVars, doVars>>
OnNavigation == focus = "navigation" /\ UNCHANGED <<focus, baseVars, padVars, feedVars, doVars>>
OnRefresh    == focus = "refresh" /\ UNCHANGED <<focus, baseVars, padVars, navVars, doVars>>
OnDo         == focus = "do" /\ UNCHANGED <<focus, baseVars, padVars, navVars, feedVars>>

OperatorNext ==
  \/ OnTeleop /\ Base!Next
  \/ OnGamepad /\ Pad!PadNext
  \/ OnNavigation /\ NavigationNext
  \/ OnRefresh /\ FeedNext
  \/ OnDo /\ Do!AskNext

\* Calls are served and answered, timers and intervals fire.
OperatorSpec ==
  /\ OperatorInit /\ [][OperatorNext]_all
  /\ \A i \in BaseIds : WF_all(OnTeleop /\ Base!Progress(i))
  /\ \A t \in Timers : WF_all(OnGamepad /\ Pad!Timer(t))
  /\ WF_all(OnGamepad /\ (Pad!Trigger(1) \/ Pad!LoseEvent(1)))
  /\ \A v \in Views : WF_all(OnNavigation /\ (AskAgain(v) \/ WaypointsAnswer(v)))
  /\ WF_all(OnRefresh /\ (RefreshBegins \/ RefreshGoesOn))
  /\ \A i \in FeedIds : WF_all(OnRefresh /\ Tick(i)) /\ WF_all(OnRefresh /\ Of(i))
  /\ \A n \in 1 .. MaxAsked : WF_all(OnDo /\ Do!Of(n))

\* A base whose page is hidden comes to a stop (handleVisibilityChange of base.vue),
\* unless RUN was on its way or the stop is lost.
HiddenStops == Base!HiddenStops

\* A pad that is pulled out is reported as disconnected (tick of gamepad.vue).
DisconnectReported == Pad!DisconnectReported

\* A panel that refreshes itself ends up with the robot's answer, and the
\* button of the command panel comes back (doCommand).
PanelsSettle == PollingSettles /\ Do!DoButtonReturns
=============================================================================
