------------------------------ MODULE BaseTeleop ------------------------------
(***************************************************************************)
(* The base panel of the web front end (components/base.vue) with the      *)
(* keyboard widget it contains (components/keyboard-input.vue), the person *)
(* in front of it and the robot behind it.  Every command is a gRPC call   *)
(* that the browser does not wait for: the robot serves the calls in       *)
(* flight in any order, and only the answer to setPower runs a callback.   *)
(***************************************************************************)
EXTENDS Integers

CONSTANTS
  Keys,         \* the keys in use, some of "w", "a", "s", "d"
  Ids,          \* bound: calls in flight at a time
  MaxMounts,    \* bound: how often the panel is mounted
  Fields        \* the settings of the Discrete tab that are changed

ASSUME KeysAssumption == Keys \subseteq {"w", "a", "s", "d"}
ASSUME MountsAssumption == MaxMounts \in Nat \ {0}

VARIABLES
  page,         \* the browser window: "focused", "blurred" or "hidden"
  held,         \* keys of the keyboard that are physically down
  down,         \* on-screen buttons the pointer holds down
  mounted,      \* whether the panel is on the page
  inst,         \* which mount of the panel this is
  tab,          \* selectedItem
  isActive,     \* isActive of the widget: its window listeners are attached
  pressedKeys,  \* pressedKeys of the widget
  pressed,      \* pressed of the panel, one Set per mount
  stopped,      \* stopped of the panel
  discrete,     \* movementMode, movementType, direction, spinType
  calls,        \* calls in flight
  power,        \* what drives the base
  lost,         \* history: a stop never reached the robot and none did since
  missed,       \* history: pressed keys whose release no listener heard
  late          \* history: a call of RUN was in flight when the page was hidden

user  == <<page, held, down>>
panel == <<mounted, inst, tab, discrete, late>>
keybd == <<isActive, pressedKeys>>
robot == <<power, lost>>
vars  == <<user, panel, keybd, pressed, stopped, calls, robot, missed>>

Mounts   == 1 .. MaxMounts
Settings == [mode : {"Straight", "Spin"}, type : {"Continuous", "Discrete"},
             dir : {-1, 1}, spin : {-1, 1}]
Ops      == {"setPower", "stop", "setVelocity", "moveStraight", "spin"}
Call     == [id : Ids, op : Ops, lin : -1 .. 1, ang : -1 .. 1,
             inst : Mounts, answered : BOOLEAN]
Idle     == [by |-> "stop", lin |-> 0, ang |-> 0]

TypeOK ==
  /\ page \in {"focused", "blurred", "hidden"}
  /\ held \subseteq Keys /\ down \subseteq Keys
  /\ mounted \in BOOLEAN /\ inst \in Mounts
  /\ tab \in {"Keyboard", "Discrete"} /\ discrete \in Settings
  /\ isActive \in BOOLEAN /\ pressedKeys \subseteq Keys
  /\ pressed \in [Mounts -> SUBSET Keys] /\ stopped \in BOOLEAN
  /\ calls \subseteq Call
  /\ power \in [by : Ops, lin : -1 .. 1, ang : -1 .. 1]
  /\ lost \in BOOLEAN /\ missed \subseteq Keys /\ late \in BOOLEAN

-----------------------------------------------------------------------------
(* Sending calls.  Bound: a user event needs two free ids.                 *)

Free  == Ids \ {c.id : c \in calls}
Room  == \E i, j \in Free : i # j
Id1   == CHOOSE i \in Free : TRUE
Id2   == CHOOSE i \in Free \ {Id1} : TRUE

Request(id, op, l, a) ==
  [id |-> id, op |-> op, lin |-> l, ang |-> a, inst |-> inst, answered |-> FALSE]

StopRequest(id) == Request(id, "stop", 0, 0)

Count(S, k) == IF k \in S THEN 1 ELSE 0

\* digestInput: one setPower for the keys that are down.
digestInput(S) ==
  calls' = calls \cup {Request(Id1, "setPower", Count(S, "w") - Count(S, "s"),
                               Count(S, "a") - Count(S, "d"))}

\* stop(), called n times in one turn of the event loop.
stop(n) ==
  /\ stopped' = IF n = 0 THEN stopped ELSE TRUE
  /\ calls' = calls \cup (CASE n = 0 -> {}
                            [] n = 1 -> {StopRequest(Id1)}
                            [] n = 2 -> {StopRequest(Id1), StopRequest(Id2)})

\* The toggle handler of the template: how many stops leaving the keyboard sends.
StopsOnLeave == IF pressed[inst] # {} \/ ~stopped THEN 1 ELSE 0

-----------------------------------------------------------------------------
(* Handlers of the panel for the events the widget emits.                  *)

PressKey(k) ==
  /\ pressed' = [pressed EXCEPT ![inst] = @ \cup {k}]
  /\ digestInput(pressed'[inst])
  /\ UNCHANGED stopped

Remaining_bug(k) == pressed[inst]
Remaining(k) == pressed[inst] \ {k}

ReleaseKey(k) ==
  /\ pressed' = [pressed EXCEPT ![inst] = Remaining(k)]
  /\ IF Remaining(k) # {}
       THEN stopped' = FALSE /\ digestInput(Remaining(k))
       ELSE stop(1)
  /\ missed' = missed \ {k}

-----------------------------------------------------------------------------
(* The person: keyboard, pointer, window.                                  *)

\* The window listeners hear the keyboard while the widget is active.
Heard == mounted /\ page = "focused" /\ isActive

\* A key goes down, or repeats while it is down.
KeyDown(k) ==
  /\ page = "focused" /\ Room
  /\ held' = held \cup {k}
  /\ IF Heard /\ k \notin pressedKeys
       THEN /\ pressedKeys' = pressedKeys \cup {k}
            /\ PressKey(k)
       ELSE UNCHANGED <<pressedKeys, pressed, stopped, calls>>
  /\ UNCHANGED <<page, down, panel, isActive, robot, missed>>

KeyUp(k) ==
  /\ k \in held /\ Room
  /\ held' = held \ {k}
  /\ IF Heard
       THEN /\ pressedKeys' = pressedKeys \ {k}
            /\ ReleaseKey(k)
       ELSE /\ missed' = missed \cup ({k} \cap pressed[inst])
            /\ UNCHANGED <<pressedKeys, pressed, stopped, calls>>
  /\ UNCHANGED <<page, down, panel, isActive, robot>>

\* The pointer can reach what is on the page.
Reachable == mounted /\ page # "hidden" /\ Room

\* A button of the widget: it also switches the keyboard on, and unlike a
\* key event it is not filtered by pressedKeys.
PointerDown(k) ==
  /\ Reachable /\ tab = "Keyboard" /\ down = {}
  /\ page' = "focused" /\ down' = {k}
  /\ isActive' = TRUE
  /\ pressedKeys' = pressedKeys \cup {k}
  /\ PressKey(k)
  /\ UNCHANGED <<held, panel, robot, missed>>

\* pointerup, and pointerleave, which also fires when the pointer only passes.
PointerUp(k) ==
  /\ Reachable /\ tab = "Keyboard" /\ down \subseteq {k}
  /\ down' = {}
  /\ pressedKeys' = pressedKeys \ {k}
  /\ ReleaseKey(k)
  /\ UNCHANGED <<page, held, panel, isActive, robot>>

\* A click elsewhere than on a button.
Click == Reachable /\ down = {} /\ page' = "focused"

ToggleSwitch ==
  /\ Click /\ tab = "Keyboard"
  /\ isActive' = ~isActive
  /\ stop(IF isActive THEN StopsOnLeave ELSE 0)
  /\ UNCHANGED <<held, down, panel, pressedKeys, pressed, robot, missed>>

\* onClickOutside: switches the keyboard off.
ClickOutside ==
  /\ Click /\ tab = "Keyboard"
  /\ isActive' = FALSE
  /\ stop(StopsOnLeave)
  /\ UNCHANGED <<held, down, panel, pressedKeys, pressed, robot, missed>>

\* The STOP button lies outside the widget.
StopButton ==
  /\ Click
  /\ isActive' = FALSE
  /\ stop(IF tab = "Keyboard" THEN StopsOnLeave + 1 ELSE 1)
  /\ UNCHANGED <<held, down, panel, pressedKeys, pressed, robot, missed>>

Defaults == [mode |-> "Straight", type |-> "Continuous", dir |-> 1, spin |-> 1]

\* handleTabSelect: the click switches the keyboard off, and leaving the
\* Keyboard tab unmounts the widget, which does so once more.
SelectTab(t) ==
  /\ Click
  /\ tab' = t
  /\ isActive' = FALSE
  /\ stop(IF tab = "Keyboard"
            THEN IF t = "Discrete" /\ pressed[inst] # {} THEN 2 ELSE StopsOnLeave
            ELSE 0)
  /\ pressedKeys' = IF t = "Discrete" THEN {} ELSE pressedKeys
  /\ discrete' = IF t = "Discrete" THEN Defaults ELSE discrete
  /\ UNCHANGED <<held, down, mounted, inst, late, pressed, robot, missed>>

\* setMovementMode, setMovementType, setDirection, setSpinType, the first of
\* which decides which of the others the tab offers.
SetDiscrete(f) ==
  /\ Click /\ tab = "Discrete"
  /\ f \in {"type", "dir"} => discrete.mode = "Straight"
  /\ f = "spin" => discrete.mode = "Spin"
  /\ \E new \in Settings :
       /\ \A g \in DOMAIN new \ {f} : new[g] = discrete[g]
       /\ discrete' = new
  /\ UNCHANGED <<held, down, mounted, inst, tab, late, keybd, pressed, stopped, calls,
                 robot, missed>>

\* baseRun with handleBaseStraight.
Run ==
  /\ Click /\ tab = "Discrete"
  /\ calls' = calls \cup
       {IF discrete.mode = "Spin" THEN Request(Id1, "spin", 0, discrete.spin)
        ELSE IF discrete.type = "Continuous"
          THEN Request(Id1, "setVelocity", discrete.dir, 0)
          ELSE Request(Id1, "moveStraight", discrete.dir, 0)}
  /\ UNCHANGED <<held, down, panel, keybd, pressed, stopped, robot, missed>>

\* Another window takes the keyboard away: no handler runs.
Blur ==
  /\ page = "focused" /\ page' = "blurred"
  /\ UNCHANGED <<held, down, panel, keybd, pressed, stopped, calls, robot, missed>>

ClearPressed_bug(p) == p
ClearPressed(p) == [p EXCEPT ![inst] = {}]

\* handleVisibilityChange.
Hide ==
  /\ page # "hidden" /\ Room
  /\ page' = "hidden" /\ down' = {}
  /\ IF mounted
       THEN /\ pressed' = ClearPressed(pressed) /\ stop(1)
            /\ missed' = (missed \cup down) \cap pressed'[inst]
            /\ late' = \E c \in calls : c.op \in {"setVelocity", "moveStraight", "spin"}
       ELSE UNCHANGED <<pressed, stopped, calls, missed, late>>
  /\ UNCHANGED <<held, mounted, inst, tab, discrete, keybd, robot>>

Show ==
  /\ page = "hidden" /\ page' = "focused" /\ late' = FALSE
  /\ UNCHANGED <<held, down, mounted, inst, tab, discrete, keybd, pressed, stopped, calls, robot, missed>>

-----------------------------------------------------------------------------
(* The page: the panel comes and goes with the base among the resources.   *)

Unmount ==
  /\ mounted /\ Room
  /\ mounted' = FALSE /\ down' = {}
  /\ isActive' = FALSE
  /\ stop(IF tab = "Keyboard" THEN StopsOnLeave + 1 ELSE 1)
  /\ UNCHANGED <<page, held, inst, tab, discrete, late, pressedKeys, pressed, robot, missed>>

Mount ==
  /\ ~mounted /\ inst < MaxMounts
  /\ mounted' = TRUE /\ inst' = inst + 1 /\ tab' = "Keyboard"
  /\ discrete' = Defaults
  /\ pressedKeys' = {} /\ stopped' = TRUE /\ missed' = {}
  /\ UNCHANGED <<user, late, isActive, pressed, calls, robot>>

-----------------------------------------------------------------------------
(* The robot and the network.                                              *)

\* The robot serves a call (components/base/server.go): the last one served is
\* in force.  The answer to setPower is still to come.
Serve(c) ==
  /\ c \in calls /\ ~c.answered
  /\ power' = [by |-> c.op, lin |-> c.lin, ang |-> c.ang]
  /\ lost' = (lost /\ c.op # "stop")
  /\ calls' = (calls \ {c}) \cup
       (IF c.op = "setPower" THEN {[c EXCEPT !.answered = TRUE]} ELSE {})
  /\ UNCHANGED <<user, panel, keybd, pressed, stopped, missed>>

\* The call fails on the way; its callback gets the error.
Lose(c) ==
  /\ c \in calls /\ ~c.answered
  /\ lost' = (lost \/ c.op = "stop")
  /\ calls' = (calls \ {c}) \cup
       (IF c.op = "setPower" THEN {[c EXCEPT !.answered = TRUE]} ELSE {})
  /\ UNCHANGED <<user, panel, keybd, pressed, stopped, power, missed>>

AllReleased_bug(c) == FALSE
AllReleased(c) == pressed[c.inst] = {}

\* The callback of setPower: stop again if every key is up by now.  It reads
\* pressed of the mount that sent the call.
Answer(c) ==
  /\ c \in calls /\ c.answered
  /\ IF AllReleased(c)
       THEN /\ calls' = (calls \ {c}) \cup {[StopRequest(c.id) EXCEPT !.inst = c.inst]}
            /\ stopped' = IF c.inst = inst THEN TRUE ELSE stopped
       ELSE calls' = calls \ {c} /\ UNCHANGED stopped
  /\ UNCHANGED <<user, panel, keybd, pressed, robot, missed>>

-----------------------------------------------------------------------------
Init ==
  /\ page = "focused" /\ held = {} /\ down = {}
  /\ mounted = TRUE /\ inst = 1 /\ tab = "Keyboard" /\ discrete = Defaults
  /\ isActive = FALSE /\ pressedKeys = {}
  /\ pressed = [i \in Mounts |-> {}] /\ stopped = TRUE
  /\ calls = {} /\ power = Idle /\ lost = FALSE /\ missed = {} /\ late = FALSE

Person ==
  \/ \E k \in Keys : KeyDown(k) \/ KeyUp(k) \/ PointerDown(k) \/ PointerUp(k)
  \/ ToggleSwitch \/ ClickOutside \/ StopButton \/ Run
  \/ \E t \in {"Keyboard", "Discrete"} : SelectTab(t)
  \/ \E f \in Fields : SetDiscrete(f)
  \/ Blur \/ Hide \/ Show

Network == \E c \in calls : Serve(c) \/ Lose(c) \/ Answer(c)

Next == Person \/ Unmount \/ Mount \/ Network

Spec == Init /\ [][Next]_vars

\* The robot and the browser work through the calls in flight.
Progress(i) == \E c \in calls : c.id = i /\ (Serve(c) \/ Lose(c) \/ Answer(c))

FairSpec == Spec /\ \A i \in Ids : WF_vars(Progress(i))

-----------------------------------------------------------------------------
(* Properties.                                                             *)

\* The command in force moves the base: one of the keys, or any, RUN's too.
\* (moveStraight and spin would end by themselves at some time.)
Moving  == power.lin # 0 \/ power.ang # 0
KeyedOn == power.by = "setPower" /\ Moving

\* Once every key is released and nothing is in flight the keys do not drive
\* the base, although a stop may have been overtaken by an older setPower: the
\* callback of setPower (base.vue 124-130) sends a second one.  The exception
\* is a stop that never reached the robot.
ReleasedMeansStopped ==
  (calls = {} /\ ~lost /\ \A i \in Mounts : pressed[i] = {}) => ~KeyedOn

\* A key counts as pressed only while it is held or the pointer holds its
\* button; the exceptions are exactly the releases no listener heard, with
\* the keyboard switched off, the tab left or the window not focused
\* (handleKeyUp of keyboard-input.vue is attached only while active).
PressedIsHeld ==
  mounted => pressed[inst] \subseteq held \cup down \cup missed

\* A page that stays hidden ends with the base at rest, whether the keys or
\* RUN set it going: handleVisibilityChange stops it, and clears pressed, so
\* that every setPower still in flight is followed by another stop.  The
\* exceptions are a lost stop and a call of RUN in flight at that moment.
HiddenStops ==
  <>[](page = "hidden" /\ mounted /\ inst = 1 /\ ~late) => <>[](~Moving \/ lost)

\* Deviation: without the second exception it is not so.  A setVelocity can
\* overtake the stop, and its callback sends none.
HiddenAlwaysStops ==
  <>[](page = "hidden" /\ mounted /\ inst = 1) => <>[](~Moving \/ lost)

\* Deviation: switching the keyboard off, by the switch, a click elsewhere or
\* the tab, is meant to stop the base; the stop can be overtaken, and pressed
\* is not cleared, so that the callback of setPower sends no second one.
InactiveMeansStopped == (calls = {} /\ ~lost /\ ~isActive) => ~KeyedOn

\* Deviation: with no key and no button held the base is at rest.  A key that
\* was down when the keyboard was switched off stays in pressed and drives the
\* base again with the next key.
NothingHeldMeansStopped ==
  (calls = {} /\ ~lost /\ held \cup down = {} /\ page = "focused") => ~KeyedOn

=============================================================================
