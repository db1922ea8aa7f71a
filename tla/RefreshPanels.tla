---------------------------- MODULE RefreshPanels ----------------------------
(***************************************************************************)
(* The panels that ask for the same thing again and again: the two maps of *)
(* components/slam.vue, each with an interval, and the readings of         *)
(* components/movement-sensor.vue, with a timer that each round sets anew. *)
(* The feeds share nothing; a behaviour follows one of them.               *)
(***************************************************************************)
EXTENDS Naturals

CONSTANTS
  Feeds,         \* feeds looked at: "image", "pcd" and "sensor"
  Versions,      \* what the robot may answer
  FeedIds,       \* bound: calls in flight, intervals
  NoValue

VARIABLES
  feed,          \* the feed of this behaviour
  panelMounted,  \* whether its panel is on the page
  show,          \* showImage, showPCD
  selected,      \* selectedImageValue, selectedPCDValue
  intervals,     \* intervals that run
  intervalId,    \* slamImageIntervalId, slamPCDIntervalId
  leaked,        \* an interval of an unmounted panel runs
  round,         \* the sensor's refresh: "off", "timer", "asking" or "stuck"
  orphan,        \* an unmounted sensor's refresh, likewise
  calls,         \* calls in flight; val is the answer once the robot made it
  display,       \* imageMap, pointcloud; orientation, coordinate and so on
  world,         \* what the robot would answer now
  feedReachable  \* calls succeed

slam      == <<show, selected, intervals, intervalId, leaked>>
sensor    == <<round, orphan>>
feedRobot == <<world, feedReachable>>
feedVars  == <<feed, panelMounted, slam, sensor, calls, display, feedRobot>>

Rounds == {"off", "timer", "asking", "stuck"}

FeedTypeOK ==
  /\ feed \in Feeds /\ panelMounted \in BOOLEAN /\ show \in BOOLEAN
  /\ selected \in {"manual", "timed"}
  /\ intervals \subseteq FeedIds /\ intervalId \in FeedIds \cup {NoValue} /\ leaked \in BOOLEAN
  /\ round \in Rounds /\ orphan \in Rounds
  /\ calls \subseteq [id : FeedIds, val : Versions \cup {NoValue}]
  /\ display \in Versions \cup {NoValue} /\ world \in Versions /\ feedReachable \in BOOLEAN

Free == FeedIds \ {c.id : c \in calls}

\* A call for the map, or for the readings the sensor supports.
Ask ==
  /\ Free # {}
  /\ calls' = calls \cup {[id |-> CHOOSE i \in Free : TRUE, val |-> NoValue]}

-----------------------------------------------------------------------------
(* slam.vue.                                                               *)

Slam == feed \in {"image", "pcd"} /\ panelMounted

Cleared_bug(time) == IF time = "off" THEN intervals \ {intervalId} ELSE intervals
Cleared(time) == intervals \ {intervalId}

\* updateSLAMImageRefreshFrequency, updateSLAMPCDRefreshFrequency
Update(time) ==
  /\ IF time = "off" THEN UNCHANGED calls ELSE Ask
  /\ IF time = "timed"
       THEN \E i \in FeedIds \ Cleared(time) :
              intervals' = Cleared(time) \cup {i} /\ intervalId' = i
       ELSE intervals' = Cleared(time) /\ UNCHANGED intervalId
  /\ UNCHANGED leaked

\* toggleImageExpand, togglePCDExpand
Toggle ==
  /\ Slam /\ show' = ~show
  /\ Update(IF show' THEN selected ELSE "off")
  /\ UNCHANGED <<feed, panelMounted, selected, sensor, display, feedRobot>>

\* The select and its handler, offered while the map is shown.
Select(time) ==
  /\ Slam /\ show /\ selected' = time
  /\ Update(time)
  /\ UNCHANGED <<feed, panelMounted, show, sensor, display, feedRobot>>

\* refreshImageMap, refreshPCDMap
Refresh ==
  /\ Slam /\ show
  /\ Update(selected)
  /\ UNCHANGED <<feed, panelMounted, show, selected, sensor, display, feedRobot>>

Tick(i) ==
  /\ Slam /\ i \in intervals /\ Ask
  /\ UNCHANGED <<feed, panelMounted, slam, sensor, display, feedRobot>>

-----------------------------------------------------------------------------
(* movement-sensor.vue.                                                    *)

\* The timer fires: refresh asks for the properties.
RefreshBegins ==
  /\ round = "timer" /\ round' = "asking"
  /\ UNCHANGED <<feed, panelMounted, slam, orphan, calls, display, feedRobot>>

RefreshGoesOn_bug ==
  /\ round = "asking" /\ feedReachable /\ round' = "off"
  /\ Ask
  /\ UNCHANGED <<feed, panelMounted, slam, orphan, display, feedRobot>>

\* The properties are there: the calls for the readings, and the timer again.
RefreshGoesOn ==
  /\ round = "asking" /\ feedReachable /\ round' = "timer"
  /\ Ask
  /\ UNCHANGED <<feed, panelMounted, slam, orphan, display, feedRobot>>

\* An error: the promise is never resolved.
RefreshStuck ==
  /\ round = "asking" /\ ~feedReachable /\ round' = "stuck"
  /\ UNCHANGED <<feed, panelMounted, slam, orphan, calls, display, feedRobot>>

\* The answer for the properties of an unmounted panel sets its timer again.
OrphanGoesOn ==
  /\ orphan = "asking" /\ orphan' = IF feedReachable THEN "timer" ELSE "stuck"
  /\ UNCHANGED <<feed, panelMounted, slam, round, calls, display, feedRobot>>

OrphanBegins ==
  /\ orphan = "timer" /\ orphan' = "asking"
  /\ UNCHANGED <<feed, panelMounted, slam, round, calls, display, feedRobot>>

-----------------------------------------------------------------------------
(* Mounting, the calls, the robot.                                         *)

Mount ==
  /\ ~panelMounted /\ panelMounted' = TRUE
  /\ round' = IF feed = "sensor" THEN "timer" ELSE "off"
  /\ UNCHANGED <<feed, slam, orphan, calls, display, feedRobot>>

\* onUnmounted of the sensor clears its timer.  slam.vue has no onUnmounted: its
\* interval runs on (leaked).  What it asks for, and the calls in flight, are for
\* refs of a component that is gone: they are not followed any further.
FeedUnmount ==
  /\ panelMounted /\ panelMounted' = FALSE
  /\ show' = FALSE /\ selected' = "manual" /\ intervals' = {} /\ intervalId' = NoValue
  /\ leaked' = (leaked \/ intervals # {})
  /\ round' = "off" /\ orphan' = IF round = "asking" THEN "asking" ELSE orphan
  /\ calls' = {} /\ display' = NoValue
  /\ UNCHANGED <<feed, feedRobot>>

Serve(c) ==
  /\ feedReachable /\ c.val = NoValue
  /\ calls' = (calls \ {c}) \cup {[c EXCEPT !.val = world]}
  /\ UNCHANGED <<feed, panelMounted, slam, sensor, display, feedRobot>>

Answer(c) ==
  /\ c.val # NoValue \/ ~feedReachable
  /\ calls' = calls \ {c}
  /\ display' = IF c.val = NoValue THEN display ELSE c.val
  /\ UNCHANGED <<feed, panelMounted, slam, sensor, feedRobot>>

Change(v) ==
  /\ world # v /\ world' = v
  /\ UNCHANGED <<feed, panelMounted, slam, sensor, calls, display, feedReachable>>

FeedReachable ==
  /\ feedReachable' = ~feedReachable
  /\ UNCHANGED <<feed, panelMounted, slam, sensor, calls, display, world>>

-----------------------------------------------------------------------------
FeedInit ==
  /\ feed \in Feeds /\ panelMounted = FALSE
  /\ show = FALSE /\ selected = "manual" /\ intervals = {} /\ intervalId = NoValue /\ leaked = FALSE
  /\ round = "off" /\ orphan = "off"
  /\ calls = {} /\ display = NoValue /\ world \in Versions /\ feedReachable = TRUE

FeedNext ==
  \/ Mount \/ FeedUnmount \/ Toggle \/ Refresh \/ FeedReachable
  \/ RefreshBegins \/ RefreshGoesOn \/ RefreshStuck \/ OrphanBegins \/ OrphanGoesOn
  \/ \E time \in {"manual", "timed"} : Select(time)
  \/ \E i \in FeedIds : Tick(i)
  \/ \E c \in calls : Serve(c) \/ Answer(c)
  \/ \E v \in Versions : Change(v)

FeedSpec == FeedInit /\ [][FeedNext]_feedVars

\* Timers fire, and a call is served and answered.
Of(i) == \E c \in calls : c.id = i /\ (Serve(c) \/ Answer(c))

FeedFairness ==
  /\ WF_feedVars(RefreshBegins \/ RefreshGoesOn)
  /\ \A i \in FeedIds : WF_feedVars(Tick(i)) /\ WF_feedVars(Of(i))

-----------------------------------------------------------------------------
(* Properties.                                                             *)

Timed == Slam /\ show /\ selected = "timed"

\* An interval runs exactly while its map is shown with a refresh frequency,
\* and never two of them, however often the map is shown, hidden, refreshed
\* and given another frequency.
OneInterval == intervals = IF Timed THEN {intervalId} ELSE {}

Polling == Timed \/ (feed = "sensor" /\ panelMounted /\ round # "stuck")

\* Once the robot's answer stays what it is and calls succeed, a panel that
\* refreshes itself shows that answer for good, although answers may overtake
\* one another.
PollingSettles ==
  \A v \in Versions : <>[](Polling /\ feedReachable /\ world = v) => <>[](display = v)

\* Deviation: the sensor refreshes itself while it is mounted.  One error of
\* getProperties ends it for good.
NeverStuck == round # "stuck"

\* Deviation: an unmounted panel asks for nothing.
UnmountedIsSilent == orphan = "off" /\ ~leaked

=============================================================================
