# Verification of the robot development kit

TLA+ models of the concurrent and stateful parts of the kit (`src/`), with the
model-checking runs and the proofs that go with them. `PROJECT.json` lists every
component, run, mutant, mapped definition, finding, hazard and theorem; this file
says how they fit together.

## 1. Inventory

There are two programs. The server is one Go process: gRPC requests run on goroutines of
their own and meet in a handful of shared objects, and background goroutines work on the
same objects. The front end is a page of Vue components: every handler and callback runs
to its next `await` undisturbed, but calls to the robot are in flight while the operator goes on
clicking, are served and answered in any order, and fail; timers fire in between.

| part | state | operations | what is hard |
|---|---|---|---|
| sessions, server (`robot/session_manager.go`, `robot/session_web.go`, `session/`) | sessions and their deadlines, resource-to-session table, one lock | StartSession, heartbeat, interceptors, AssociateResource, SafetyMonitor, expireLoop, Close | expireLoop decides under one lock and acts under another; stops may fail or block; deadlines move meanwhile |
| operations (`operation/opid.go`, `operation/web.go`) | map of running operations, their labels | create, remove, cancel, CancelOtherWithLabel, BlockForOperation | labels are read and set without a common lock; ids come from clients |
| one operation per device (`operation/manager.go`) | currentOp, contexts | New, CancelRunning, finish, WaitTillNotPowered | cancelled operations clean up while new ones begin |
| stepper motor (`components/motor/gpiostepper`) | position, target, speed | doRun, GoFor, GoTo, GoTillStop, Stop, ResetZeroPosition | a position read in one critical section is used in another; a late call sets the target |
| resource graph (`resource/resource_graph.go`) | nodes, edges both ways, path-count matrix | add, remove, link, unlink, rename, sort, sub-graph, merge, replace parents | the matrix is updated incrementally, by products |
| resource manager (`robot/impl/resource_manager.go`, `local_robot.go`) | the graph, placeholders, r.config | Reconfigure, FilterFromConfig, updateResources, completeConfig, 25 s ticker | builds take time and fail; filtering goes on beside them; dependencies come and go |
| page and connection (`web/frontend/src/app.vue`) | resources, status stream, banner, log-in | manageLoop, queryMetadata, restartStatusStream, initConnect | the robot goes away, comes back and changes between any two turns |
| base panel (`base.vue`, `keyboard-input.vue`) | pressed keys in two places, stopped | keys, pointer, tabs, hiding, setPower, stop | a stop may be overtaken by an older setPower; listeners come and go |
| camera panels (`camera.vue`, `base.vue`, `lib/camera-state.ts`) | two maps of streams, one polling timer | switches, previews, refresh select | maps are read before an await and written after it |
| gamepad panel (`gamepad.vue`) | timers, last states, last time stamp | tick, connect, disconnect, switch | two timer loops; the clock may stand still |
| actuator panels (`arm.vue`, `gantry.vue`, `servo.vue`, `gripper.vue`, `motor-detail.vue`) | status, form | buttons, STOP, statuses arriving | targets are computed from a status that may be old |
| panels that ask (`do-command.vue`, `board.vue`, `sensors.vue`, `audio-input.vue`) | input, message, switch | one call per click | an answer meets an input edited since |
| panels that refresh (`slam.vue`, `movement-sensor.vue`) | interval or timer, what is shown | show, frequency, refresh, unmount | an interval that is not cleared stays |
| navigation panel (`navigation.vue`) | views, markers, timers | initNavigation, updateWaypoints, unmount | several views poll at once and draw on one map |
| names and lists (`lib/resource.ts`, `app.vue`, `do-command.vue`) | none | sorting, filtering, strings and back | the robot answers in any order |
| remotes, robot client, client sessions, data manager, config watcher, control loop, other motors | | | not modelled; see section 6 |
| web service, registry, motion planning, vision, drivers | | | not modelled; see section 6 |

What makes each part correct:

* Sessions: when a session lapses, what it last used is stopped and nothing else; an owner's session is
  nobody else's; an expired id is dead; no lock outlives its critical section.
* Operations: what runs can be found and cancelled; whoever waits for an operation is told of its end.
* One operation per device: at most one is live, a cancelled one returns, and what it leaves behind
  does not disturb the next.
* Stepper: a move that nobody disturbs ends where it was to end; an interrupted one stops.
* Graph: both edge maps and the matrix describe one acyclic relation after every method.
* Resource manager: what is served is open, configured, and built on what is served now;
  everything configured is served in the end.
* Page: it notices a lost robot, repairs the connection by itself, and its status stream is for the
  resources it shows.
* Base: with nothing pressed the keys do not drive it once the calls are over; a hidden page stops it.
* Panels: what runs at the robot is what the switches say once the calls are over; answers are
  shown as they were; what repeats itself does so once and not for ever.

Interactions: a request passes the session interceptor (which associates the resource)
and the operation interceptor (which registers the operation); the device handler
cancels other operations by label and then runs under the device's single-operation
manager; expireLoop calls the device's Stop. Reconfigure replaces the devices under
the names requests look up, and the page follows them by polling. The panels meet only in
the camera maps and in the resources the page hands down.

## 2. Modules

| module | models | extends |
|---|---|---|
| `SessionManager` | sessions on the server | |
| `SingleOperation` | `operation.SingleOperationManager` | |
| `GPIOStepper` | the stepper driver together with its manager | SingleOperation |
| `OperationManager` | `operation.Manager`, the interceptors, CancelOperation, BlockForOperation | |
| `ResourceGraph` | `resource.Graph` as operators on a record, and FilterFromConfig's graph work | |
| `ResourceManager` | Reconfigure, completeConfig and the ticker on that graph | ResourceGraph |
| `ConnectionMonitor` | what the page promises of its connection: the abstract specification | |
| `AppConnection` | log-in, manageLoop, metadata, status stream; it implements ConnectionMonitor | instance of it |
| `BaseTeleop` | base panel and keyboard widget | |
| `CameraStreams` | camera panels, previews of the base panel, polling of stills | |
| `GamepadInput` | gamepad panel and the robot's last event | |
| `ActuatorPanels` | arm, gantry, servo, gripper and motor panels | |
| `RequestPanels` | command, board, sensors and audio panels | |
| `RefreshPanels` | SLAM and movement sensor panels | |
| `NavigationPanel` | navigation panel | |
| `ResourceNames` | names, lists and select options as pure operators | |
| `JsValues` | null and NaN, which the panels meet among their numbers | |
| `MC...` | instances for TLC | one or several of the above |

The theorems are in modules of their own, which no run extends:

| module | theorems about |
|---|---|
| `SessionManagerProofs` | SessionManager |
| `GPIOStepperProofs` | SingleOperation and GPIOStepper |
| `OperationManagerProofs` | OperationManager |
| `AppConnectionProofs` | AppConnection |
| `BaseTeleopProofs` | BaseTeleop |
| `CameraPadProofs` | CameraStreams, GamepadInput |
| `ActuatorProofs` | ActuatorPanels, RequestPanels |
| `NavigationPanelProofs` | NavigationPanel, RefreshPanels |

Where the code has a small decision (is this session found,
must the wait stop the device, which children are closed), the model has a small operator
for it. A definition directly above such an operator, with the same parameters and often
the suffix `_bug`, is a plausible mistake in that decision. No action uses it;
`PROJECT.json` pairs it with the property that the mistake would break ("mutants"), which
shows that the property depends on the code.

`MCSessions`, `MCRobot`, `MCPanels` and `MCOperator` hold several instances that share no
state. A variable `focus`, chosen in the initial state, says which of them a behaviour runs;
the others rest. The reachable states are the union of those of the instances, so
each property is checked exactly as in a run of its own.

### SessionManager

`request[q]` is the goroutine of a request: its program counter walks from `find` and
`heartbeat` (FindByID, whose heartbeat comes after the read lock is released) through
`associate` to `handler`, or through `new` and `insert` for StartSession. `loop` is expireLoop
with its locals. A critical section that does not block is one step, guarded by
`sessionResourceMu = "free"`; the stops, made with the write lock held, are steps of
their own in any order, each of which may fail. The early return of `Start` leaves the
lock `"leaked"`. `driver` is the environment: who last actuated a resource.
`late`, `gap` and `stopFailed` are history variables; they name the exact windows in which
the code does less than the documentation says.

### SingleOperation and GPIOStepper

A thread stands for its `*anOp`. `currentOp`, the contexts' errors and the reads of
WaitTillNotPowered's deferred function (one locked, one not) are kept apart.
`SingleOperation` lets the device answer anything, so `MgrSpec` is the abstract specification
a driver implements and relies on. `GPIOStepper` conjoins the
manager's actions with the motor: doRun's cycle, the target, the speed. One revolution is
one step, speeds are 0 or 1 (only 0 matters), enable pins are left out because doStep sets
them before every step. `course`, `goal` and `commander` are history.

### OperationManager

A request stands for its `*Operation`. `CancelOtherWithLabel` is a snapshot, one step per
operation looked at, and the appending of the label. `SharedIDs` says whether clients may
send an id that is in use.

### ResourceGraph

A graph is a record of nodes, children, parents and matrix, and each method is an operator
from graph to graph (with `ok` where the method may fail); exported methods hold the lock
throughout, so each is one action. The matrix holds integers and is updated by the same
products as the code's. A loop over a slice is `Loop`, a loop over a map is FoldSet, which takes some
order; the properties do not depend on which. Reference definitions (`PathsOfLength`, `Dependents`)
use the edges only.

### ResourceManager

A node holds nil, an object, or a placeholder with the former object and the configuration.
An object is a name and a number, so a rebuilt resource is told from its predecessor.
`holds` is what an object was given as dependencies, `open` what has not been closed.
A step is what one hold of the graph's mutex reads or writes, because that is where the ticker and
Reconfigure meet: FilterFromConfig, which does not take configLock, copies the removed resources one by one
(`FilterCopies`) and takes them out together (`FilterRemoves`); updateResources and
completeConfig hold configLock, CloseFiltered does not. completeConfig handles one resource at a
time: it takes a placeholder (`Take`), closes and marks each child (`CloseChild`, `MarkChild`),
collects the dependencies (`getDependencies`), and adds what the constructor returns. Each
of these is a step of its own, so that the filter may come between any two.
`slips` records the three events after which less is promised: the filter takes out a resource that
the ticker has in hand and will write back ("removed at work"), the ticker adds an object for a
resource that is copied and not yet taken out ("added while filtered"), and a resource is kept
unchanged although its last change failed ("kept after a failure"). Each property names the
slips it leaves out.
What UpdateAction answers is any of `Actions`; None only for an object that already has
the configuration it is asked about.

### AppConnection and ConnectionMonitor

An action is a turn of the event loop, up to the next await of `manageLoop`; `pc` says what
it awaits. The robot (`up`, `peer`, `present`, `sessionsThere`) changes between turns until
`calm`. The stream is open, or dead and not yet noticed; `fresh` abstracts the time since the last
status. `Phase` maps `pc` to the monitor's phases.

### BaseTeleop

The operator (`page`, `held`, `down`), the widget (`isActive`, `pressedKeys`), the panel
(`pressed`, `stopped`, one set per mount, since a callback of an unmounted panel still sees its own)
and the robot (`power`). A call in flight is served, and a setPower then answered, in steps of
their own; a call may be lost. `Serve` is the robot's side
(`components/base/server.go`): the newest command served is in force. `lost`, `missed` and `late` are history: a stop that
never arrived, releases that no listener heard, and a call of RUN in flight when the page was
hidden.

### The other panels

They follow one pattern: handlers are actions; a call is a record in `calls`, served by the robot and
answered in its own time, in any order, or failing; unmounting leaves the calls and timers
in flight behind as the code does. In `CameraStreams` a stream call carries who asked, and
`excused` names the cameras whose bookkeeping the code lets go wrong (a failed call, a switch
thrown back within a round trip, a lost panel or connection). In `GamepadInput` one control stands for
the nineteen, and time is relative to the last stamp. In `ActuatorPanels` a value knows whether
it is a number or a text, because adding to a text appends. In `RefreshPanels` and
`RequestPanels` a behaviour follows one of the panels; `changed` records what changed
at the robot since it answered, which no page can know. In `NavigationPanel` every press of "Go" makes a
view with its own timer, markers and counter of labels; all draw on the newest map (`OnMap`), and the
robot visits its oldest waypoint first (`services/navigation/store.go`). In `ResourceNames` a string is
a sequence of words and separators.

## 3. Runs

Passing runs:

| run | instance | shows |
|---|---|---|
| session_safety | with a clock: 2 sessions, 1 resource, 2 requests; without: 3 sessions, 2 owners, limit 1 | a motion is not orphaned by its session's expiry (`NoOrphanedMotion`), only what an expired session used is stopped (`StopsOnlyExpired`), an expired session does not return (`ExpiredNeverReturns`), a request gets its owner's sessions only (`OwnSessionsOnly`), at most maxSessions + 1 sessions exist (`SessionLimit`) |
| session_live | 1 session, 2 resources, 1 request | requests and Close return (`CallsReturn`), a lapsed session is deleted (`LapsedIsDeleted`), each of its motions ends or its stop failed (`MotionEndsWithSession`) |
| stepper_moves | 2 threads; GoFor both ways, slow GoFor, Stop, ResetZeroPosition | an undisturbed move arrives (`ClearMoveArrives`), an interrupted one stops (`InterruptedStops`) |
| stepper_live | 2 threads; GoTo, GoTillStop, Stop | one live operation (`OneLiveOp`), a motor with a way to go has a speed (`MovingHasSpeed`), the cancelled return and so do moves (`MovesReturn`) |
| manager | components with the ticker; components and a service; 3 requests, 2 ids, 2 labels, 1 waiter | what is served is open and built on what is served now (`ServedIsOpen`, `DependenciesCurrent`), between reconfigurations the graph has the nodes and edges of the configuration and nothing else is left open (`ConfigIsFollowed`), what was closed is built again (`ComponentsRecreated`), each outside the slips it names; failed builds are made up for (`ComponentsBuilt`); what runs is found, and a label cancels its earlier holders (`OperationsTracked`); BlockForOperation ends (`BlockEnds`) |
| graph_safety | 4 names, one value | matrix, sub-graphs, renames and filters agree with the reference definitions (`GraphConsistent`), the sort has every node once and dependencies first (`SortedByDependency`), what is filtered is closed before what it depends on (`ClosedBeforeItsParents`) |
| connection | 2 resources, 2 deployments | the stream is for the resources shown (`StreamFollowsResources`), a calm robot is shown in full in the end (`RecoversWhenCalm`), the loop implements the connection monitor with its fairness (`MonitorSpec`) |
| panels | all panels with calls and answers in any order | streams fit the maps (`StreamsMatchMaps`), stills are polled only for who asks (`FrameTimerIsWanted`), released keys do not drive the base (`ReleasedMeansStopped`), pressed keys are held (`PressedIsHeld`), gamepad events are in order (`EventsInOrder`), clicks on joints add up, the first click on a position after a status moves from there, and STOP holds (`ButtonsObeyed`), what the board and the sensors show is how it was when the robot answered (`AnswersAreTrue`), names and lists survive (`ListsInOrder`) |
| operator | base, gamepad, navigation, refreshing and command panels with fairness | a page that stays hidden ends with the base at rest, set going by the keys or by RUN, unless a stop was lost or a call of RUN was in flight when it was hidden (`HiddenStops`), a pulled pad is reported (`DisconnectReported`), waypoints arrive (`WaypointsShown`), readings arrive and the button comes back (`PanelsSettle`); the labels of a view and the intervals stay single (`LabelsUnique`, `OneInterval`) |

Three runs find a counterexample to a statement of the repository:

| run | the code | the statement |
|---|---|---|
| session_lock_leak | Start keeps the lock at the limit, and no session expires any more | `session/doc.go:118-120` |
| stepper_panic | after ResetZeroPosition doCycle divides by zero | `gpiostepper.go:353` |
| manager_filter_race | a resource that is filtered while the ticker builds it is put back, closed | `local_robot.go:745` |

### Deviations

The modules also state, after their passing properties, what other comments and tests say, or what an
operator would expect. TLC refutes these too, each within about a minute, when the definition is
given as an INVARIANT or PROPERTY with the constants of the run named here (changes
in brackets; a definition of an instance is reached as in `Lists!OptionsAreNames`). The passing
properties say what does hold next to them: each excludes exactly the window the
counterexample uses.

| definition | constants of | the code | the statement |
|---|---|---|---|
| `NoOthersStopped` | session_safety | stops a resource another session took between expireLoop's two locks | `session/doc.go:16-17` |
| `OnlyLapsedDeleted` | session_safety | deletes a session that was extended between them | `session_manager.go:152-153` |
| `LapsedIsStopped` | session_live | associates a resource with a session already gone | `session/doc.go:16-17` |
| `GoToArrives` | stepper_live | GoTo the current position runs for ever | `gpiostepper.go:314` |
| `GoForDistance` | stepper_moves | GoFor adds to a running move's target | `gpiostepper.go:257-258` |
| `ContextErrorStops` | stepper_moves | a deadline that passes does not stop the motor | `manager.go:94` |
| `OldNeverStopsNew` | stepper_live | a replaced operation stops its successor's motion | `manager_test.go:173` |
| `LiveOpCommands` | stepper_moves | a cancelled GoFor still sets the target | `manager.go:13` |
| `OneLabelHolder` | manager | two requests both keep a label | `opid.go:53` |
| `BlockWaits` | manager [SharedIDs TRUE] | BlockForOperation returns too early when an id is used twice | `server.go:106` |
| `ParentsAreReplaced` | graph_safety | ReplaceNodesParents links children | `resource_graph.go:385` |
| `NothingServedClosed` | manager | a component closed by a failed rebuild is served | `local_robot.go:745` |
| `RemovedStaysRemoved`, `RemovedIsClosed` | manager | what the ticker has in hand while it is filtered is put back, or replaced by an object that nobody closes | `local_robot.go:745` |
| `AllRecreated` | manager | a service above a changed component is not rebuilt | `config/resource.go:24-25` |
| `GraphIsComplete` | manager | a resource removed with its dependency does not return | `resource_manager.go:711` |
| `RemovesOnlyUnused` | panels | the preview removes a stream by looking up another camera's state | `base.vue:217` |
| `ViewedIsStreamed` | panels | a switch thrown off and on within a round trip leaves no stream | |
| `EventsAreCurrentState` | panels | after switching off and on the robot keeps an old position | `webgamepad.go`, Events |
| `UnmountedIsSilent` | panels, operator | a second timer loop, an interval or a pending refresh outlives its panel | |
| `InactiveMeansStopped`, `NothingHeldMeansStopped` | panels | a key down when the keyboard is switched off stays pressed, and its stop can be overtaken | |
| `HiddenAlwaysStops` | operator (`Base`) | a RUN in flight overtakes the stop of a hidden page, and its callback sends none | |
| `StepsAddUp` | panels | the second click on a position before the next status undoes the first | |
| `StopIsFinal` | panels | a command sent before STOP may arrive after it | |
| `ListHoldsNumbers` | panels | "Go To Joints" puts texts into the list of joints | `arm.vue:21` |
| `MessagesAlwaysTrue`, `AudioFollowsSwitch` | panels | an answer is worded with the pin typed since; audio calls are not awaited | |
| `OptionsAreNames` | panels (`Lists`) | of two components with one name the command goes to the whole string | |
| `MapLabelsUnique` | operator [MaxWork 5] | views that draw on one map count their labels apart | |
| `MarkerIdIsCurrent`, `UnmountedIsQuiet` | operator | a marker keeps the id of a waypoint that is gone; one of several timers is cleared | |
| `NeverStuck` | operator | one failed getProperties ends the sensor's refreshing | |
| `SensorsPanelHasService` | connection | the names of sensors outlive the service | template of `app.vue` |

### Bounds

* Sessions. `MaxTime = 1` lets a session lapse and be seen to lapse, and new calls arrive before and
  after. Every race is between expireLoop and at most two calls, so two requests are enough.
  The instance with two owners has no time: limit, owners and ids do not depend on it. Close is called
  in session_live only; after it nothing expires.
* Stepper. `MaxTarget` guards new calls, not the motion; `Forever` is further than any other
  goal. ResetZeroPosition is in stepper_moves only, since it makes doCycle panic; that run
  does not check for deadlock because a panic ends the process. GoFor is in stepper_moves and not in
  stepper_live, where GoTo sets a target and waits in the same way. Three and more threads are
  covered by the proofs.
* Operations. Two operations overlap and a third reuses an id of one that ended, while a waiter
  may still ask for it.
* Graph. Four names give a diamond, the smallest graph with two paths between two nodes.
* Reconfiguration. `MaxReconfigure = 3` lets a resource be configured, changed or removed, and brought
  back; the first configuration has version 1 of everything, since the versions are interchangeable; the ticker's instance has no service and no fault after the last reconfiguration;
  `MaxBuilds` caps objects and is high enough never to block a build that the
  liveness property waits for; `MaxFaults` caps failing closes and builds, and a fault costs a
  reconfiguration. Beside the service the ticker does not run, and b depends on a whenever it is
  configured. The run stops after the last reconfiguration, so deadlock is not
  checked. session_safety and session_lock_leak do not check it because the leaked lock
  stops everything.
* Connection. One resource with a status and the sensors service tell apart all decisions of
  queryMetadata; the deployments cover WebRTC and direct, with and without password and sessions.
* Panels. Two calls in flight are enough for one to overtake another; the base has a third, the stop that
  a callback sends. One key, because what counts is whether any is pressed; the proofs
  cover all. Two mounts let a callback of an old panel meet a new one; the settings of
  the Discrete tab change on the first only and are put back when the tab is left, since coming
  back resets them. Two
  cameras share the polling timer and the previews; while one is on stills the calls in flight are
  about one camera. `MaxMoves = 3` is two clicks and STOP, or a click
  between two statuses; the arm's form is filled in when no command is in flight. A pin of the board changes
  only while a call that sets one is in flight, so that such a call meets another cause. Lists of three names hold two equal ones and a different one. A click is
  not taken when the bound on calls is reached, so deadlock is not checked.
* Operator. The liveness questions need one base on one mount, one pad, two positions, three views; a waypoint can be
  removed and another take its place. Views and waypoints together are at most four, which
  `MapLabelsUnique` exceeds by one.

Symmetry is used where threads, requests, ids, resources or names are
interchangeable and only safety is checked.

### Fairness

Goroutines that can run do run: weak fairness of each goroutine's steps, strong where a
step waits for a mutex that others keep taking (Go's mutexes are starvation-free)
or is one case of a `select`. The tickers keep firing. A handler returns, a constructor returns
or fails, a pin does not fail for ever. Nobody is forced to call, cancel or reconfigure.
`ResourceManager!FairSpec` spells out the enabling condition of each weak-fairness conjunct
(`CanReconfigure`, `CanComplete`, `CanTick`); `MCRobot` recognises the fair steps by what they change
(`MainMoves`, `BuilderMoves`, `TickerMoves`).

In the front end a call ends in an answer or an error, which gRPC-web guarantees for the unary
calls, and timers and intervals that are set fire, which the browser guarantees. Data arrive on
an open stream of a reachable robot. The operator, the robot's coming and going and the order of answers
are free.

## 4. Proofs

The proofs hold for every value of the constants, under the named assumptions of the modules or, for
the operation manager and the navigation panel, the hypotheses `OperationConstants` and
`NavConstants` of the theorems. They ask for no particular size: a positive heartbeat
window and at least one mount; null values that are not elements (`SessionConstants`,
`NoneIsNoThread`, `NoNumber`, `ActuatorAssumption`, `PadAssumption`); distances,
goals and amounts that are integers (`StepperConstants`, `ActuatorAssumption`); keys that are w, a, s, d (`KeysAssumption`);
resources with a status that are resources (`RelevantAssumption`, `DeploymentsAssumption`).

* **Sessions.** `TypeInv` is the type with the shape of requests. `SafetyInv` adds
  `LoopInv`, which says what expireLoop knows between its steps: after the collecting pass
  `toStop` has every resource last used by a session to delete except the late ones, and only
  those except the ones in the gap; while it stops, the lock keeps associations as they are.
  Without it `NoOrphanedMotion` is not inductive, since a deletion looks like it orphans a motion
  that the loop is about to stop. `IdentityInv` adds that an id taken by session.New is nobody
  else's, from which ownership and the finality of expiry follow. `LimitHolds` is an induction on
  the cardinality of the map.
* **Single operation.** `MgrInv` is the type, both invariants and `DeferredInv`: an operation
  that is still current at its second, unlocked, read was current at the first. One lemma per
  action.
* **Stepper.** `StepperImplementsManager` shows that each step of the driver is a step of the
  manager or a stutter, so `MgrInv` carries over. `SpeedWhileMoving` proves
  `MovingHasSpeed` under the assumption that ResetZeroPosition is not called, which `stepper_panic` shows to be necessary.
  `InterruptedIsStopped` rests on `DeferredInv`. `ClearMovesArrive` rests on `CourseInv`: an
  operation still on a clear course has the target at its goal, and the motor is there once it is seen off.
* **Operations.** `OpInv` adds to the two properties where a request's entry is at each place of its
  program (`Places`), and that a label's earlier holders are cancelled or still to be looked at.
  It assumes that ids are not shared, which `BlockWaits` shows to matter.
* **Base.** `IInv` adds to the type that only a setPower is answered (`AnsweredIsPower`), that a mount
  to come has nothing pressed (`LaterUnpressed`), and `Covered`: a base that the keys drive with nothing pressed
  has a stop, or a setPower whose callback will send one, in flight, or lost its stop. `Covered` is
  the argument of the code's second stop: `ReleasedMeansStopped` is its case without calls.
* **Connection.** `ConnInv` is the type and that the loop starts once (`LoopStartsOnce`);
  with it each turn maps to a step of `ConnectionMonitor` or a stutter
  (`LoopImplementsMonitor`). The monitor's fairness is checked by TLC.
* **Refreshing panels.** `IntervalInv`: `OneInterval`, and a panel that is not on the page shows
  nothing.
* **Navigation.** `NavInv`: ids of waypoints are unique and the labels given are
  below the counter; that the markers of one answer get different labels is an argument about
  the positions of the new waypoints in the order of their ids.
* **Cameras.** `CameraInv`: `StreamPromise` says what is in flight, and who asked for it, whenever the
  streams at the robot and the maps differ. `StreamsMatchMaps` is its case without calls.
  `FrameTimerIsWanted` is inductive beside the types.
* **Gamepad.** `PadInv`: every event in flight and the robot's last one fit what the panel last read
  (`Follows`), and a pad reported as gone was last read as gone; without it the first reading after
  it comes back could be equal to the old one and not be sent.
* **Actuators.** `StopInv`: after STOP only STOP is in flight until the next button. `ArmInv`: the list of joints,
  changed in place by each click, is the position aimed at, and the newest call in flight asks for it.
  `StepInv` says the same of the first click on a position, for arm, gantry and servo: the newest call
  asks for the reported place with the click.
* **Requests.** `AskInv`: an answer on its way is how its pin or sensors are, except for what changed
  since the robot gave it, so that an answer which overtook another spoils nothing that is shown.

Only model-checked:

* liveness and fairness, which are beyond the prover;
* `ResourceGraph`: the matrix is updated by products of path counts along loops over maps and slices, and what the sort, the
  sub-graphs and the merges compute needs induction over these loops;
* `ResourceManager`, whose operations are those of the graph;
* `ListsInOrder`: what the sorts and conversions of ResourceNames compute needs induction over lists.

## 5. What the models leave out inside modelled parts

Message formats, authentication details and peer information; float arithmetic of
revolutions and speeds; enable pins; operation arguments; processes, default services and
remotes in reconfiguration; `CopyNodeAndChildren`, which only tests call;
the unlocked map iteration in `FindNodeByName`, whose effect in Go is a crash of the process.
In the front end: toasts and console output; screenshots and the point cloud of a camera; the loop
that moves the robot's marker on the map; PWM and frequency of a pin, which follow the code of its level.

## 6. Not modelled

* Robot client, client sessions and remotes: connection checks, retries and the
  notifier between client and local robot. They are the next parts worth a model: a reset session
  racing a retry, and notifications sent with locks held.
* Data manager, data sync and capture: crash and resume of an upload, the retry from a consumed file.
* Configuration watcher, control loop, the other motors and the wheeled base (further drivers that
  should implement `MgrSpec`).
* Motion planning, frame systems, vision, SLAM and point clouds are numerical; drivers of
  particular boards, arms and cameras would need models of their hardware; the registry is a
  table; the command line calls services once and ends; the web service translates messages.
* Front end: the point cloud viewer draws (three.js); the tables of operations, sessions and input
  controllers show what the page hands them, and killing an operation is one call; icons and layout.

`PROJECT.json` lists the hazards of the modelled parts at their source lines, each with the
properties that would catch it.
