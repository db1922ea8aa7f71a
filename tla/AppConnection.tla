----------------------------- MODULE AppConnection -----------------------------
(***************************************************************************)
(* The page itself (app.vue): logging in, the loop that asks the robot for *)
(* its resources, operations and sessions and reconnects, and the status   *)
(* stream.  An action is one turn of the browser's event loop; between two *)
(* turns the robot may change, go away and come back.                      *)
(***************************************************************************)
EXTENDS Naturals

CONSTANTS
  Resources,   \* names of resources
  Relevant,    \* those with a subtype of relevantSubtypesForStatus
  Sensors,     \* the resource that is the sensors service
  Deployments  \* settings: WebRTC or direct, log-in or not, sessions or not

ASSUME RelevantAssumption == Relevant \subseteq Resources /\ Sensors \in Resources \ Relevant
ASSUME DeploymentsAssumption == Deployments \subseteq BOOLEAN \X BOOLEAN \X BOOLEAN

VARIABLES
  webrtc,        \* isWebRtcEnabled()
  password,      \* whether a log-in is needed (supportedAuthTypes is not empty)
  login,         \* "idle", "connecting", "retry" (timer of initConnect) or "done"
  pc,            \* where manageLoop is: what it awaits
  mgr,           \* its statuses, connectionRestablished and newErrors
  banner,        \* errorMessage is not empty
  errorShown,    \* errors["connection"]
  sessionsSupported,
  resources,     \* resources
  resourcesOnce,
  restart,       \* shouldRestartStatusStream of the queryMetadata in flight
  stream,        \* statusStream: "none", "open", or "dead" and not yet noticed
  fresh,         \* lastStatusTS is less than checkIntervalMillis old
  status,        \* resources with an entry in status
  sensorsAsked,  \* a getSensors call is in flight
  sensorNames,   \* sensorNames is not empty
  up,            \* the robot can be reached
  peer,          \* the WebRTC connection of the client is up
  present,       \* resources of the robot
  sessionsThere, \* whether the robot implements GetSessions
  calm,          \* the robot has stopped changing
  streamFor      \* history: relevant resources when the stream was opened

page   == <<banner, errorShown, sessionsSupported>>
data   == <<resources, status, sensorsAsked, sensorNames>>
robot  == <<up, peer, present, sessionsThere, calm>>
flow   == <<resourcesOnce, restart, stream, fresh, streamFor>>
vars   == <<webrtc, password, login, pc, mgr, page, data, flow, robot>>

Manager == [resources : BOOLEAN, ops : BOOLEAN, sessions : BOOLEAN,
            restablished : BOOLEAN, errors : BOOLEAN]

TypeOK ==
  /\ webrtc \in BOOLEAN /\ password \in BOOLEAN
  /\ login \in {"idle", "connecting", "retry", "done"}
  /\ pc \in {"off", "names", "ops", "sessions", "connect", "reops", "timer"}
  /\ mgr \in Manager /\ banner \in BOOLEAN /\ errorShown \in BOOLEAN
  /\ sessionsSupported \in BOOLEAN /\ resourcesOnce \in BOOLEAN /\ restart \in BOOLEAN
  /\ resources \subseteq Resources /\ status \subseteq Resources
  /\ stream \in {"none", "open", "dead"} /\ fresh \in BOOLEAN
  /\ sensorsAsked \in BOOLEAN /\ sensorNames \in BOOLEAN
  /\ up \in BOOLEAN /\ peer \in BOOLEAN /\ present \subseteq Resources
  /\ sessionsThere \in BOOLEAN /\ calm \in BOOLEAN /\ streamFor \subseteq Resources

-----------------------------------------------------------------------------
(* How calls end.                                                          *)

Usable == IF webrtc THEN peer ELSE up

\* ConnectionClosedError is what a closed WebRTC connection gives; a direct
\* call to a robot that is away fails with another error.
Outcomes ==
  IF Usable THEN {"ok"} \cup (IF calm THEN {} ELSE {"error"})
  ELSE IF webrtc THEN {"closed"} ELSE {"error"}

-----------------------------------------------------------------------------
(* Logging in: initConnect, doLogin, doConnect.                            *)

Login ==
  /\ login = "idle" /\ password
  /\ login' = "connecting"
  /\ UNCHANGED <<webrtc, password, pc, mgr, page, data, flow, robot>>

Retry ==
  /\ login = "retry" /\ login' = "connecting"
  /\ UNCHANGED <<webrtc, password, pc, mgr, page, data, flow, robot>>

\* shouldRestartStatusStream, computed before the call.
MustRestart_bug == ~resourcesOnce
MustRestart == ~(resourcesOnce /\ stream # "none")

\* manageLoop from the top: queryMetadata sends its call.
BeginPass ==
  /\ pc' = "names"
  /\ restart' = MustRestart
  /\ mgr' = [mgr EXCEPT !.errors = FALSE]

\* onMounted goes on once connected: start() runs the loop.
Connected ==
  /\ login = "connecting" /\ up
  /\ login' = "done" /\ peer' = webrtc
  /\ BeginPass /\ fresh' = TRUE
  /\ UNCHANGED <<webrtc, password, page, data, resourcesOnce, stream, streamFor,
                 up, present, sessionsThere, calm>>

ConnectFailed ==
  /\ login = "connecting" /\ (~up \/ ~calm)
  /\ login' = IF password THEN "idle" ELSE "retry"
  /\ UNCHANGED <<webrtc, password, pc, mgr, page, data, flow, robot>>

-----------------------------------------------------------------------------
(* The end of a pass, in the turn of its last answer.                      *)

IsConnected(m) == m.resources /\ m.ops /\ (webrtc \/ fresh)

ErrorMessage_bug(m) == banner \/ ~IsConnected(m)
ErrorMessage(m) == ~IsConnected(m)

\* handleCallErrors: the errors of a pass are shown once and never again.
handleCallErrors(m) == errorShown' = (errorShown \/ m.errors)

\* Clear the banner, or show it, drop the stream and connect again.
Decide(m) ==
  IF IsConnected(m)
    THEN /\ mgr' = [m EXCEPT !.restablished = FALSE]
         /\ banner' = ErrorMessage(m) /\ pc' = "timer"
         /\ UNCHANGED <<errorShown, resourcesOnce, stream>>
    ELSE /\ mgr' = m
         /\ banner' = ErrorMessage(m) /\ pc' = "connect"
         /\ handleCallErrors(m)
         /\ stream' = "none" /\ resourcesOnce' = FALSE

\* Go on to the sessions if the operations are known; a page that knows that
\* they are not supported takes the empty list.
AskSessions(m) ==
  IF ~m.ops THEN Decide(m)
  ELSE IF ~sessionsSupported
    THEN Decide([m EXCEPT !.sessions = TRUE, !.restablished = @ \/ ~m.sessions])
    ELSE /\ mgr' = m /\ pc' = "sessions"
         /\ UNCHANGED <<banner, errorShown, resourcesOnce, stream>>

AskOps(m) ==
  IF ~m.resources THEN AskSessions(m)
  ELSE /\ mgr' = m /\ pc' = "ops"
       /\ UNCHANGED <<banner, errorShown, resourcesOnce, stream>>

\* What the answer o does to the flag f of the manager.
Note(m, f, o) ==
  CASE o = "ok"     -> [m EXCEPT ![f] = TRUE, !.restablished = @ \/ ~m[f]]
    [] o = "closed" -> [m EXCEPT ![f] = FALSE]
    [] OTHER        -> [m EXCEPT !.errors = TRUE]

-----------------------------------------------------------------------------
(* The answers.                                                            *)

RelevantChange_bug(new) == FALSE
RelevantChange(new) == \E r \in Relevant : (r \in new) # (r \in resources)

\* The old stream is cancelled and does not report any more.
restartStatusStream(new) == stream' = "open" /\ streamFor' = new \cap Relevant

\* queryMetadata succeeds: take the list, ask for the sensors if it changed
\* (querySensors), restart the stream if need be.
NamesOk ==
  /\ pc = "names" /\ "ok" \in Outcomes
  /\ resources' = present
  /\ sensorsAsked' = (sensorsAsked \/ (present # resources /\ Sensors \in present))
  /\ resourcesOnce' = TRUE
  /\ IF restart \/ RelevantChange(present)
       THEN restartStatusStream(present)
       ELSE UNCHANGED <<stream, streamFor>>
  /\ mgr' = Note(mgr, "resources", "ok") /\ pc' = "ops"
  /\ UNCHANGED <<webrtc, password, login, page, status, sensorNames, restart, fresh, robot>>

NamesFail(o) ==
  /\ pc = "names" /\ o \in Outcomes \ {"ok"}
  /\ AskOps(Note(mgr, "resources", o))
  /\ UNCHANGED <<webrtc, password, login, sessionsSupported, data, restart, fresh,
                 streamFor, robot>>

\* loadCurrentOps.
OpsAnswer(o) ==
  /\ pc = "ops" /\ o \in Outcomes
  /\ AskSessions(Note(mgr, "ops", o))
  /\ UNCHANGED <<webrtc, password, login, sessionsSupported, data, restart, fresh,
                 streamFor, robot>>

\* fetchCurrentSessions; a robot without sessions is asked only once.
SessionsAnswer(o) ==
  /\ pc = "sessions" /\ o \in Outcomes
  /\ o = "ok" => sessionsThere
  /\ Decide(Note(mgr, "sessions", o))
  /\ UNCHANGED <<webrtc, password, login, sessionsSupported, data, restart, fresh,
                 streamFor, robot>>

SessionsUnimplemented ==
  /\ pc = "sessions" /\ Usable /\ ~sessionsThere
  /\ sessionsSupported' = FALSE
  /\ Decide(Note(mgr, "sessions", "error"))
  /\ UNCHANGED <<webrtc, password, login, data, restart, fresh, streamFor, robot>>

\* client.connect of the repair.
Reconnect ==
  /\ pc = "connect"
  /\ \/ up /\ peer' = webrtc /\ pc' = "reops"
     \/ (~up \/ ~calm) /\ pc' = "timer" /\ UNCHANGED peer
  /\ UNCHANGED <<webrtc, password, login, mgr, page, data, flow, up, present,
                 sessionsThere, calm>>

\* fetchCurrentOps of the repair.
ReopsAnswer(o) ==
  /\ pc = "reops" /\ o \in Outcomes
  /\ pc' = "timer" /\ fresh' = (fresh \/ o = "ok")
  /\ UNCHANGED <<webrtc, password, login, mgr, page, data, resourcesOnce, restart,
                 stream, streamFor, robot>>

\* finally: the timer runs the next pass.
Timeout ==
  /\ pc = "timer" /\ BeginPass
  /\ UNCHANGED <<webrtc, password, login, page, data, resourcesOnce, stream, fresh,
                 streamFor, robot>>

-----------------------------------------------------------------------------
(* The status stream and the sensors.                                      *)

\* "data": updateStatus.  restartStatusStream names no resource, and for that
\* the robot sends the status of all; entries are never removed.
StreamData ==
  /\ stream = "open" /\ up
  /\ status' = status \cup (present \cap Relevant) /\ fresh' = TRUE
  /\ UNCHANGED <<webrtc, password, login, pc, mgr, page, resources, sensorsAsked,
                 sensorNames, resourcesOnce, restart, stream, streamFor, robot>>

\* "status" and "end".
StreamEnd ==
  /\ stream = "dead" \/ (stream = "open" /\ ~calm)
  /\ stream' = "none"
  /\ UNCHANGED <<webrtc, password, login, pc, mgr, page, data, resourcesOnce, restart,
                 fresh, streamFor, robot>>

\* Ten seconds without data.  Time assumption: they pass only while no data
\* can come, since reopening a stream takes much less.
Age ==
  /\ fresh /\ login = "done" /\ (~up \/ stream = "dead")
  /\ fresh' = FALSE
  /\ UNCHANGED <<webrtc, password, login, pc, mgr, page, data, resourcesOnce, restart,
                 stream, streamFor, robot>>

SensorsAnswer(o) ==
  /\ sensorsAsked /\ o \in Outcomes
  /\ sensorsAsked' = FALSE
  /\ sensorNames' = IF o = "ok" THEN Sensors \in present ELSE sensorNames
  /\ UNCHANGED <<webrtc, password, login, pc, mgr, page, resources, status, flow, robot>>

-----------------------------------------------------------------------------
(* The robot.                                                              *)

Down ==
  /\ ~calm /\ up
  /\ up' = FALSE /\ peer' = FALSE
  /\ stream' = IF stream = "open" THEN "dead" ELSE stream
  /\ UNCHANGED <<webrtc, password, login, pc, mgr, page, data, resourcesOnce, restart,
                 fresh, streamFor, present, sessionsThere, calm>>

Up ==
  /\ ~up /\ up' = TRUE
  /\ UNCHANGED <<webrtc, password, login, pc, mgr, page, data, flow, peer, present,
                 sessionsThere, calm>>

Reconfigure ==
  /\ ~calm /\ \E new \in SUBSET Resources : present' = new
  /\ UNCHANGED <<webrtc, password, login, pc, mgr, page, data, flow, up, peer,
                 sessionsThere, calm>>

CalmDown ==
  /\ ~calm /\ up /\ calm' = TRUE
  /\ UNCHANGED <<webrtc, password, login, pc, mgr, page, data, flow, up, peer, present,
                 sessionsThere>>

-----------------------------------------------------------------------------
Init ==
  /\ \E d \in Deployments : webrtc = d[1] /\ password = d[2] /\ sessionsThere = d[3]
  /\ login = IF password THEN "idle" ELSE "connecting"
  /\ pc = "off" /\ banner = FALSE /\ errorShown = FALSE /\ sessionsSupported = TRUE
  /\ mgr = [resources |-> FALSE, ops |-> FALSE, sessions |-> FALSE,
            restablished |-> FALSE, errors |-> FALSE]
  /\ resources = {} /\ status = {} /\ resourcesOnce = FALSE /\ restart = FALSE
  /\ stream = "none" /\ fresh = FALSE /\ streamFor = {}
  /\ sensorsAsked = FALSE /\ sensorNames = FALSE
  /\ up = TRUE /\ peer = FALSE /\ present = Resources /\ calm = FALSE

Answers ==
  \/ NamesOk \/ SessionsUnimplemented \/ Reconnect
  \/ \E o \in {"ok", "closed", "error"} :
       NamesFail(o) \/ OpsAnswer(o) \/ SessionsAnswer(o) \/ ReopsAnswer(o)

Loop == Answers \/ Timeout

Next ==
  \/ Login \/ Retry \/ Connected \/ ConnectFailed \/ Loop
  \/ StreamData \/ StreamEnd \/ Age
  \/ \E o \in {"ok", "closed", "error"} : SensorsAnswer(o)
  \/ Down \/ Up \/ Reconfigure \/ CalmDown

Spec == Init /\ [][Next]_vars

\* Calls are answered, timers fire, open streams deliver, time passes.
FairSpec ==
  /\ Spec
  /\ WF_vars(Loop) /\ WF_vars(Retry \/ Connected \/ ConnectFailed)
  /\ WF_vars(StreamData) /\ WF_vars(Age)

-----------------------------------------------------------------------------
(* Properties.                                                             *)

\* The stream that is open was opened for the resources the page shows:
\* queryMetadata restarts it whenever a relevant resource comes or goes, even
\* if the robot changes while a call is in flight or the stream ends meanwhile.
StreamFollowsResources == stream # "none" => streamFor = resources \cap Relevant

Healthy ==
  /\ ~banner /\ stream = "open" /\ fresh
  /\ resources = present /\ present \cap Relevant \subseteq status

\* Once the robot stays reachable the page reconnects by itself, clears the
\* banner, has the current resources and a live stream, and keeps all that,
\* whatever happened before (manageLoop and its finally; a page that waits for
\* a password excepted).
RecoversWhenCalm ==
  <>[]calm => <>[](Healthy \/ (password /\ login \in {"idle", "connecting"}))

\* The loop implements the abstract connection monitor: passes do not overlap
\* and never end, and the banner tells the last verdict.
Phase ==
  CASE pc = "off" -> "off"
    [] pc \in {"names", "ops", "sessions"} -> "asking"
    [] pc \in {"connect", "reops"} -> "repairing"
    [] pc = "timer" -> "waiting"

Monitor == INSTANCE ConnectionMonitor WITH phase <- Phase

MonitorSpec == Monitor!Spec

\* The same without its fairness: what a turn of the page may do.
MonitorSteps == Monitor!Steps

\* Deviation: the template asserts that a sensors service is among the
\* resources whenever sensorNames is not empty; the names are not cleared when
\* the service goes.
SensorsPanelHasService == sensorNames => Sensors \in resources

=============================================================================
