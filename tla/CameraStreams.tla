---------------------------- MODULE CameraStreams ----------------------------
(***************************************************************************)
(* The camera streams the front end asks the robot for: the camera panels  *)
(* (camera.vue), the previews of the base panel (base.vue) and the timer   *)
(* that polls stills (app.vue).  The two kinds of viewers know of each     *)
(* other through the maps of lib/camera-state.ts; add and remove requests  *)
(* (lib/stream.ts) travel independently of each other.                     *)
(***************************************************************************)
EXTENDS Naturals, FiniteSets

CONSTANTS
  Cameras,       \* names of cameras, none part of another
  NoCamera,      \* no camera: no timer runs
  Offered,       \* options of the refresh select box in use: some of "Live",
                 \* "Manual Refresh" and "Every Second"
  StreamIds,     \* bound: calls in flight about one name
  MaxStreamCalls \* bound: calls in flight when the user acts

VARIABLES
  there,         \* cameras among the resources: their panels are mounted
  camera,        \* camera of each panel: its switch is on
  selectedValue, \* selectedValue of each panel
  cameraState,   \* cameraStreamStates
  baseMounted,   \* whether the base panel is mounted
  known,         \* keys of baseStreamStates
  baseState,     \* baseStreamStates
  frameTimer,    \* the camera cameraFrameIntervalId polls; viewCameraFrame clears the
                 \* interval before it sets one, so that no second one runs
  streamCalls,   \* stream calls in flight
  streams,       \* external: streams the robot sends to this page
  excused,       \* history: cameras whose bookkeeping may be off, see below
  left           \* history: camera panels that were unmounted

panels == <<there, camera, selectedValue, frameTimer, left>>
cameraVars == <<panels, cameraState, baseMounted, known, baseState,
                streamCalls, streams, excused>>

ViewValues == {"live"} \cup Offered
StreamCall == [name : Cameras, id : StreamIds, op : {"add", "remove"},
               from : {"camera", "base"}, served : BOOLEAN]

CameraTypeOK ==
  /\ there \subseteq Cameras /\ camera \in [Cameras -> BOOLEAN]
  /\ selectedValue \in [Cameras -> ViewValues] /\ cameraState \in [Cameras -> BOOLEAN]
  /\ baseMounted \in BOOLEAN /\ known \subseteq Cameras
  /\ baseState \in [Cameras -> BOOLEAN]
  /\ frameTimer \in Cameras \cup {NoCamera}
  /\ streamCalls \subseteq StreamCall /\ streams \subseteq Cameras
  /\ excused \subseteq Cameras /\ left \subseteq Cameras

-----------------------------------------------------------------------------
FreeId(n) == {i \in StreamIds : \A c \in streamCalls : c.name = n => c.id # i}
StreamRoom(n)   == FreeId(n) # {} /\ Cardinality(streamCalls) < MaxStreamCalls

\* addStream and removeStream.
StreamRequest(n, op, from) ==
  [name |-> n, id |-> CHOOSE i \in FreeId(n) : TRUE, op |-> op, from |-> from,
   served |-> FALSE]

\* A switch while a call of the opposite kind about the same name is in flight.
Crossing(n, op) == \E c \in streamCalls : c.name = n /\ c.op # op

Crossed(S, op) == {n \in S : Crossing(n, op)}

-----------------------------------------------------------------------------
(* The camera panel.                                                       *)

MustAdd(c) == ~baseState[c] /\ ~cameraState[c]

MustRemove_bug(c) == cameraState[c]
MustRemove(c) == ~baseState[c] /\ cameraState[c]

OpFor(isOn) == IF isOn THEN "add" ELSE "remove"

\* viewCamera: the map changes at once if no call is needed, and otherwise
\* when the call is answered.
viewCamera(c, isOn) ==
  /\ IF (isOn /\ MustAdd(c)) \/ (~isOn /\ MustRemove(c))
       THEN /\ streamCalls' = streamCalls \cup {StreamRequest(c, OpFor(isOn), "camera")}
            /\ UNCHANGED cameraState
       ELSE /\ cameraState' = [cameraState EXCEPT ![c] = isOn]
            /\ UNCHANGED streamCalls
  /\ excused' = excused \cup Crossed({c}, OpFor(isOn))

toggleExpand(c) ==
  /\ c \in there /\ StreamRoom(c)
  /\ camera' = [camera EXCEPT ![c] = ~@]
  /\ viewCamera(c, ~camera[c])
  /\ UNCHANGED <<there, selectedValue, frameTimer, left, baseMounted, known,
                 baseState, streams>>

\* viewCameraFrame of app.vue: one timer serves all panels.
FrameTimerFor_bug(c, v) == IF v = "Every Second" THEN c ELSE frameTimer
FrameTimerFor(c, v) == IF v = "Every Second" THEN c ELSE NoCamera

\* selectCameraView.  The options offer "Live", the code compares with "live":
\* every choice switches the stream off.
selectCameraView(c, v) ==
  /\ c \in there /\ camera[c] /\ StreamRoom(c)
  /\ selectedValue' = [selectedValue EXCEPT ![c] = v]
  /\ viewCamera(c, v = "live")
  /\ frameTimer' = IF v = "live" THEN NoCamera ELSE FrameTimerFor(c, v)
  /\ UNCHANGED <<there, camera, left, baseMounted, known, baseState, streams>>

\* refreshCamera: one still, and the timer is cleared.
refreshCamera(c) ==
  /\ c \in there /\ camera[c] /\ selectedValue[c] = "Manual Refresh"
  /\ frameTimer' = NoCamera
  /\ UNCHANGED <<there, camera, selectedValue, left, cameraState, baseMounted,
                 known, baseState, streamCalls, streams, excused>>

\* The panel comes with its camera: initStreamState.
CameraMount(c) ==
  /\ c \notin there
  /\ there' = there \cup {c}
  /\ cameraState' = [cameraState EXCEPT ![c] = FALSE]
  /\ UNCHANGED <<camera, selectedValue, frameTimer, left, baseMounted, known, baseState,
                 streamCalls, streams, excused>>

\* The panel goes with its camera, and its refs with it; no stream is removed.
CameraUnmount(c) ==
  /\ c \in there
  /\ there' = there \ {c}
  /\ camera' = [camera EXCEPT ![c] = FALSE]
  /\ selectedValue' = [selectedValue EXCEPT ![c] = "live"]
  /\ left' = left \cup {c} /\ excused' = excused \cup {c}
  /\ UNCHANGED <<frameTimer, cameraState, baseMounted,
                 known, baseState, streamCalls, streams>>

-----------------------------------------------------------------------------
(* Previews of the base panel.                                             *)

\* cameraStreamStates.get(name), where name is the joined selection: a key of
\* the map only if a single camera is selected.
OthersView(sel) == \E c \in Cameras : sel = {c} /\ cameraState[c]

TurnOn(sel)  == {c \in known : c \in sel /\ ~baseState[c]}
TurnOff(sel) == {c \in known : c \notin sel /\ baseState[c]}

\* viewPreviewCamera.
viewPreviewCamera(sel) ==
  /\ baseMounted /\ \A c \in Cameras : StreamRoom(c)
  /\ baseState' = [c \in Cameras |-> IF c \in known THEN c \in sel ELSE baseState[c]]
  /\ streamCalls' = streamCalls \cup
       IF OthersView(sel) THEN {}
       ELSE {StreamRequest(c, "add", "base") : c \in TurnOn(sel)}
              \cup {StreamRequest(c, "remove", "base") : c \in TurnOff(sel)}
  /\ excused' = excused \cup Crossed(TurnOn(sel), "add") \cup Crossed(TurnOff(sel), "remove")
       \cup {c \in TurnOff(sel) : cameraState[c] # OthersView(sel)}
  /\ UNCHANGED <<panels, cameraState, baseMounted, known, streams>>

\* The select box offers the cameras among the resources.
SelectCameras(sel) == sel \subseteq there /\ viewPreviewCamera(sel)

\* handleTabSelect deselects all previews.
handleTabSelect == viewPreviewCamera({})

\* initStreamState of base.vue.
BaseMount ==
  /\ ~baseMounted /\ baseMounted' = TRUE
  /\ known' = known \cup there
  /\ baseState' = [c \in Cameras |-> c \notin there /\ baseState[c]]
  /\ excused' = excused \cup {c \in there : baseState[c]}
  /\ UNCHANGED <<panels, cameraState, streamCalls, streams>>

BaseUnmount ==
  /\ baseMounted /\ baseMounted' = FALSE
  /\ UNCHANGED <<panels, cameraState, known, baseState, streamCalls,
                 streams, excused>>

-----------------------------------------------------------------------------
(* The robot: the stream server lies outside the repository.               *)

\* The camera panel awaits its calls, the previews do not.
Done(c) == IF c.from = "camera" THEN {[c EXCEPT !.served = TRUE]} ELSE {}

ServeStream(c) ==
  /\ c \in streamCalls /\ ~c.served
  /\ streams' = IF c.op = "add" THEN streams \cup {c.name} ELSE streams \ {c.name}
  /\ streamCalls' = (streamCalls \ {c}) \cup Done(c)
  /\ UNCHANGED <<panels, cameraState, baseMounted, known, baseState, excused>>

StreamFail(c) ==
  /\ c \in streamCalls /\ ~c.served
  /\ streamCalls' = (streamCalls \ {c}) \cup Done(c)
  /\ excused' = excused \cup {c.name}
  /\ UNCHANGED <<panels, cameraState, baseMounted, known, baseState, streams>>

\* The rest of viewCamera, after its await and whatever the outcome.
StreamAnswer(c) ==
  /\ c \in streamCalls /\ c.served
  /\ streamCalls' = streamCalls \ {c}
  /\ cameraState' = [cameraState EXCEPT ![c.name] = (c.op = "add")]
  /\ UNCHANGED <<panels, baseMounted, known, baseState, streams, excused>>

\* A new connection: the robot has forgotten the streams of the old one.
Reconnect ==
  /\ streams # {}
  /\ streams' = {} /\ excused' = Cameras
  /\ UNCHANGED <<panels, cameraState, baseMounted, known, baseState, streamCalls>>

-----------------------------------------------------------------------------
CameraInit ==
  /\ there = Cameras /\ camera = [c \in Cameras |-> FALSE]
  /\ selectedValue = [c \in Cameras |-> "live"]
  /\ cameraState = [c \in Cameras |-> FALSE]
  /\ baseMounted = TRUE /\ known = Cameras /\ baseState = [c \in Cameras |-> FALSE]
  /\ frameTimer = NoCamera /\ streamCalls = {} /\ streams = {}
  /\ excused = {} /\ left = {}

CameraNext ==
  \/ \E c \in Cameras : toggleExpand(c) \/ refreshCamera(c) \/ CameraMount(c) \/ CameraUnmount(c)
  \/ \E c \in Cameras, v \in Offered : selectCameraView(c, v)
  \/ \E sel \in SUBSET Cameras : SelectCameras(sel)
  \/ handleTabSelect \/ BaseMount \/ BaseUnmount
  \/ \E c \in streamCalls : ServeStream(c) \/ StreamFail(c) \/ StreamAnswer(c)
  \/ Reconnect

CameraSpec == CameraInit /\ [][CameraNext]_cameraVars

-----------------------------------------------------------------------------
(* Properties.                                                             *)

Settled(n) == \A c \in streamCalls : c.name # n

StreamWanted(n) == cameraState[n] \/ baseState[n]

\* Once its calls are answered a stream runs exactly if some panel's map says
\* so, however the switches of the camera panel and the selections of the
\* previews interleave with the answers (viewCamera writes its map after an
\* await, viewPreviewCamera at once).  The exceptions: a call failed; the
\* switch was thrown back while the call was in flight; a panel or the
\* connection was lost; a preview was dropped by looking up another camera.
StreamsMatchMaps ==
  \A n \in Cameras : Settled(n) /\ n \notin excused => (n \in streams <=> StreamWanted(n))

\* The timer that polls stills (viewCameraFrame) polls a camera only while its
\* panel asks for that, or after the panel is gone: nothing clears it then.  The
\* converse does not hold: a panel loses its timer to the next one that asks.
FrameTimerIsWanted ==
  frameTimer # NoCamera => selectedValue[frameTimer] = "Every Second" \/ frameTimer \in left

\* What base.vue 217 says, "Only remove stream if other components are not
\* using the stream": the preview asks for a removal only of cameras whose own
\* panel has no stream on.
RemovesOnlyUnused ==
  [][\A c \in streamCalls' \ streamCalls :
       (c.from = "base" /\ c.op = "remove") => ~cameraState[c.name]]_cameraVars

\* Deviation: a camera whose switch is on shows its stream once its calls are
\* answered, failures apart.  The stream is lost if the switch goes off and on
\* within one round trip, and no panel asks again after a reconnection.
ViewedIsStreamed ==
  \A c \in there : Settled(c) /\ camera[c] /\ selectedValue[c] = "live" => c \in streams

=============================================================================
