--------------------------- MODULE NavigationPanel ---------------------------
(***************************************************************************)
(* The navigation panel (components/navigation.vue): each press of "Go"    *)
(* makes a map view once the maps script is there; a view asks for the     *)
(* waypoints every second and keeps one marker for each position.  All the *)
(* views put their markers on the newest view's map.  The map itself is    *)
(* external; the loop that moves the robot's marker is left out.           *)
(***************************************************************************)
EXTENDS Naturals, FiniteSets

CONSTANTS
  Positions,   \* positions on the map
  MaxId,       \* bound: waypoints added
  MaxViews,    \* bound: views made
  MaxWork,     \* bound: views made and waypoints added together
  Null         \* no timer

VARIABLES
  mounted,     \* whether the panel is on the page
  script,      \* the maps script: "absent", "loading" or "ready"
  waiting,     \* calls of initNavigation that await mapReady
  views,       \* how many views were made; map is that of the newest
  asking,      \* views with a getWaypoints call in flight
  timers,      \* views whose timer for updateWaypoints is set
  updateTimerId, \* the view whose timer onUnmounted would clear
  markers,     \* knownWaypoints of each view
  labels,      \* localLabelCounter of each view
  waypoints,   \* waypoints of the robot
  nextId,      \* ids the robot has not given away begin here
  reachable    \* calls succeed

browser == <<mounted, script, waiting>>
polling == <<asking, timers, updateTimerId>>
shown   == <<markers, labels>>
navRobot == <<waypoints, nextId, reachable>>
navVars  == <<browser, views, polling, shown, navRobot>>

Views    == 1 .. MaxViews
Ids      == 1 .. MaxId
Waypoint == [id : Ids, pos : Positions]
Marker   == [pos : Positions, id : Ids, label : Nat, map : Nat]

NavigationTypeOK ==
  /\ mounted \in BOOLEAN /\ script \in {"absent", "loading", "ready"}
  /\ waiting \in 0 .. MaxViews /\ views \in 0 .. MaxViews
  /\ asking \subseteq Views /\ timers \subseteq Views
  /\ updateTimerId \in Views \cup {Null}
  /\ \A v \in Views : markers[v] \subseteq Marker /\ labels[v] \in Nat
  /\ waypoints \subseteq Waypoint /\ nextId \in 1 .. MaxId + 1 /\ reachable \in BOOLEAN

-----------------------------------------------------------------------------
Work == views + waiting + (nextId - 1)

\* initNavigation after its await: n new views, which poll at once.
MakeViews(n) ==
  LET new == views + 1 .. views + n IN
  /\ views' = views + n
  /\ asking' = asking \cup new
  /\ UNCHANGED <<timers, updateTimerId, shown>>

\* initNavigationView: loadMaps calls initNavigation too if the script is
\* there already, ready or not.
Go ==
  LET n == IF script = "absent" THEN 1 ELSE 2 IN
  /\ mounted /\ views + waiting + n <= MaxViews /\ Work + n <= MaxWork
  /\ script' = IF script = "absent" THEN "loading" ELSE script
  /\ IF script = "ready"
       THEN MakeViews(n) /\ UNCHANGED waiting
       ELSE waiting' = waiting + n /\ UNCHANGED <<views, polling, shown>>
  /\ UNCHANGED <<mounted, navRobot>>

\* The script calls googleMapsInit, which resolves mapReady.
GoogleMapsInit ==
  /\ script = "loading" /\ script' = "ready"
  /\ waiting' = 0 /\ MakeViews(waiting)
  /\ UNCHANGED <<mounted, navRobot>>

-----------------------------------------------------------------------------
\* updateWaypoints when its timer fires.
AskAgain(v) ==
  /\ v \in timers
  /\ timers' = timers \ {v} /\ asking' = asking \cup {v}
  /\ UNCHANGED <<browser, views, updateTimerId, shown, navRobot>>

First(p) == CHOOSE w \in waypoints : w.pos = p /\ \A u \in waypoints : u.pos = p => w.id <= u.id

\* Positions of the answer without a marker, in the order of the list.
Unknown(v) == {w.pos : w \in waypoints} \ {m.pos : m \in markers[v]}
Rank(v, p) == Cardinality({q \in Unknown(v) : First(q).id <= First(p).id})

\* A marker for each new position: its label is the counter, its id that of
\* the first waypoint there, and it is on the map that is the newest now.
NewMarkers(v) ==
  {[pos |-> p, id |-> First(p).id, label |-> labels[v] + Rank(v, p), map |-> views] :
     p \in Unknown(v)}

\* Markers of positions that are gone are taken off the map.
Kept_bug(v) == markers[v]
Kept(v) == {m \in markers[v] : \E w \in waypoints : w.pos = m.pos}

LabelsAfter_bug(v) == Cardinality(Kept(v) \cup NewMarkers(v))
LabelsAfter(v) == labels[v] + Cardinality(Unknown(v))

\* The answer to getWaypoints, an error included: either way the timer is set.
WaypointsAnswer(v) ==
  /\ v \in asking
  /\ asking' = asking \ {v} /\ timers' = timers \cup {v} /\ updateTimerId' = v
  /\ IF reachable
       THEN /\ markers' = [markers EXCEPT ![v] = Kept(v) \cup NewMarkers(v)]
            /\ labels' = [labels EXCEPT ![v] = LabelsAfter(v)]
       ELSE UNCHANGED shown
  /\ UNCHANGED <<browser, views, navRobot>>

\* onUnmounted clears one timer.
Unmount ==
  /\ mounted /\ mounted' = FALSE
  /\ timers' = timers \ {updateTimerId}
  /\ UNCHANGED <<script, waiting, views, asking, updateTimerId, shown, navRobot>>

-----------------------------------------------------------------------------
(* The robot's waypoints (services/navigation, which returns those it has  *)
(* not visited); a click on a map and its call are one step.               *)

\* A click on the map, or another client: addWaypoint.
AddWaypoint(p) ==
  /\ reachable
  /\ nextId <= MaxId /\ Work < MaxWork
  /\ nextId' = nextId + 1
  /\ waypoints' = waypoints \cup {[id |-> nextId, pos |-> p]}
  /\ UNCHANGED <<browser, views, polling, shown, reachable>>

\* A double click on a marker asks to remove the waypoint it was made for.
RemoveMarker(v, m) ==
  /\ reachable /\ mounted /\ m \in markers[v]
  /\ waypoints' = {w \in waypoints : w.id # m.id}
  /\ UNCHANGED <<browser, views, polling, shown, nextId, reachable>>

\* The robot reaches a waypoint: the oldest of those it has not visited.
Visited(w) ==
  /\ w \in waypoints /\ \A u \in waypoints : w.id <= u.id
  /\ waypoints' = waypoints \ {w}
  /\ UNCHANGED <<browser, views, polling, shown, nextId, reachable>>

Reachable ==
  /\ reachable' = ~reachable
  /\ UNCHANGED <<browser, views, polling, shown, waypoints, nextId>>

-----------------------------------------------------------------------------
NavigationInit ==
  /\ mounted = TRUE /\ script = "absent" /\ waiting = 0 /\ views = 0
  /\ asking = {} /\ timers = {} /\ updateTimerId = Null
  /\ markers = [v \in Views |-> {}] /\ labels = [v \in Views |-> 0]
  /\ waypoints = {} /\ nextId = 1 /\ reachable = TRUE

NavigationNext ==
  \/ Go \/ GoogleMapsInit \/ Unmount \/ Reachable
  \/ \E v \in Views : AskAgain(v) \/ WaypointsAnswer(v)
  \/ \E p \in Positions : AddWaypoint(p)
  \/ \E v \in Views : \E m \in markers[v] : RemoveMarker(v, m)
  \/ \E w \in waypoints : Visited(w)

NavigationSpec == NavigationInit /\ [][NavigationNext]_navVars

\* Timers fire and calls are answered.
Fairness == \A v \in Views : WF_navVars(AskAgain(v) \/ WaypointsAnswer(v))

-----------------------------------------------------------------------------
(* Properties.                                                             *)

\* Two markers made by a view never carry the same label, although waypoints
\* come and go between the answers (localLabelCounter only grows).
LabelsUnique ==
  \A v \in Views : \A m, n \in markers[v] : m.label = n.label => m.pos = n.pos

\* Markers on the k-th map, whichever view made them.
OnMap(k) == {m \in UNION {markers[v] : v \in Views} : m.map = k}

\* Once the waypoints stay as they are and the robot answers, the map of a
\* mounted panel shows exactly their positions: updateWaypoints goes on after
\* an error and after an answer, also with several views.
WaypointsShown ==
  \A P \in SUBSET Positions :
    <>[](mounted /\ reachable /\ views > 0 /\ {w.pos : w \in waypoints} = P)
      => <>[]({m.pos : m \in OnMap(views)} = P)

\* Deviation: labels are unique on the map.  Each view counts for itself, and
\* they all draw on the newest map (navigation.vue:23, 108, 169).
MapLabelsUnique ==
  \A m, n \in OnMap(views) : m.label = n.label => m.pos = n.pos

\* Deviation: a marker removes a waypoint of its position.  It keeps the id of
\* the waypoint it was made for when another one takes its place.
MarkerIdIsCurrent ==
  \A v \in Views : \A m \in markers[v] :
    (\E w \in waypoints : w.pos = m.pos) => \E w \in waypoints : w.pos = m.pos /\ w.id = m.id

\* Deviation: an unmounted panel sets no more timers.  Only one of the timers
\* is cleared, and an answer that comes later sets one again.
UnmountedIsQuiet == ~mounted => timers = {}

=============================================================================
