------------------------------ MODULE MCPanels ------------------------------
(***************************************************************************)
(* The panels of the page for TLC: cameras, base, gamepad, actuators,      *)
(* panels that ask once, names and lists.  They share no state (the base's *)
(* previews belong to the cameras): a behaviour runs one of them, its      *)
(* focus, and the others rest in an initial state.                         *)
(***************************************************************************)
EXTENDS BaseTeleop, CameraStreams, GamepadInput, ActuatorPanels, RequestPanels

CONSTANTS Starts, MaxList

VARIABLES focus, resources, ops

-----------------------------------------------------------------------------
(* Values of constants.                                                    *)

\* The clock may be behind the last stamp, at it, or ahead of it.
Behind == {-1, 0, 1}

SomeTypes ==
  {[namespace |-> "rdk", type |-> t[1], subtype |-> t[2]] :
     t \in {<<"component", "arm">>, <<"component", "base">>, <<"service", "sensors">>}}

\* Plain names, one of a remote, one with a slash, and none.
SomeNames == {<<"a">>, <<"b">>, <<"r", ":", "a">>, <<"a", "/", "b">>, <<>>}

InOrder == <<"/", ":", "a", "arm", "b", "base", "component", "r", "rdk", "sensors", "service">>
Places  == [w \in {InOrder[i] : i \in DOMAIN InOrder} |-> CHOOSE i \in DOMAIN InOrder : InOrder[i] = w]

-----------------------------------------------------------------------------
Lists == INSTANCE ResourceNames WITH Types <- SomeTypes, Names <- SomeNames, Order <- Places

listVars == <<resources, ops>>
all      == <<focus, cameraVars, vars, padVars, actuatorVars, askVars, listVars>>

PanelsInit ==
  /\ focus \in {"cameras", "base", "gamepad", "actuators", "requests", "lists"}
  /\ Init /\ CameraInit /\ PadInit /\ ActuatorInit /\ AskInit /\ Lists!Init
  /\ focus # "gamepad" => plugged = {}
  /\ focus # "actuators" => actuator = "arm"
  /\ focus # "requests" => asker = "do"
  /\ level = [p \in Parts |-> "low"]

\* Bounds: one camera is never excused: of an excused one nothing is claimed.
\* While a camera is on stills the calls in flight are about one camera.  The
\* settings of the Discrete tab are changed on the first mount only, and are
\* the defaults again when the tab is left, which is what coming back makes of
\* them anyway.  At most two commands to a part are in flight,
\* and forms are opened and filled in when none is.  A pin of the board
\* changes only while a call that sets one is in flight.
PanelsNext ==
  \/ /\ focus = "cameras" /\ CameraNext /\ excused' # Cameras
     /\ (\E c \in Cameras : selectedValue'[c] # "live") => \A d, e \in streamCalls' : d.name = e.name
     /\ UNCHANGED <<focus, vars, padVars, actuatorVars, askVars, listVars>>
  \/ /\ focus = "base" /\ Next /\ (tab' = "Keyboard" \/ inst > 1 => discrete' = Defaults)
     /\ UNCHANGED <<focus, cameraVars, padVars, actuatorVars, askVars, listVars>>
  \/ /\ focus = "gamepad" /\ PadNext
     /\ UNCHANGED <<focus, cameraVars, vars, actuatorVars, askVars, listVars>>
  \/ /\ focus = "actuators" /\ ActuatorNext /\ Cardinality(moves') <= 2
     /\ (form' # form \/ toggle' \notin {toggle, Null}) => moves = {}
     /\ UNCHANGED <<focus, cameraVars, vars, padVars, askVars, listVars>>
  \/ /\ focus = "requests" /\ AskNext
     /\ asker = "board" /\ level' # level => \E c \in asked : c.op \in Levels /\ c.val = Null
     /\ UNCHANGED <<focus, cameraVars, vars, padVars, actuatorVars, listVars>>
  \/ /\ focus = "lists" /\ Lists!Next
     /\ UNCHANGED <<focus, cameraVars, vars, padVars, actuatorVars, askVars>>

\* The cameras and the timers are interchangeable.
Symmetry == Permutations(Cameras) \cup Permutations(Timers)

PanelsSpec == PanelsInit /\ [][PanelsNext]_all

-----------------------------------------------------------------------------
\* Names survive their way through a string, options are told apart, and
\* lists are in order (resource.ts, app.vue).
ListsInOrder ==
  Lists!NamesSurvive /\ Lists!OptionsDistinct /\ Lists!PanelsKeepOrder /\ Lists!NullStartLast
=============================================================================
