---------------------------- MODULE ActuatorPanels ----------------------------
(***************************************************************************)
(* The panels that move a part of the robot: components/arm.vue,           *)
(* gantry.vue, servo.vue, gripper.vue and motor-detail.vue, with the       *)
(* statuses they start from (lib/fixers.ts, updateStatus of app.vue).      *)
(*                                                                         *)
(* A panel computes an absolute target from the status it holds.  The      *)
(* arm's list of joints is changed in place, so that clicks on joints add  *)
(* up between two statuses; clicks on the arm's end position, a gantry or  *)
(* a servo start from the status each time.  An input field of the arm's   *)
(* form holds text, and adding to a text appends to it.                    *)
(***************************************************************************)
EXTENDS Integers, FiniteSets, TLC, JsValues

CONSTANTS
  Actuators, \* panels looked at
  Axes,      \* joints of the arm, axes of the gantry
  Amounts,   \* what one click adds
  Typed,     \* numbers typed into a form
  Edited,    \* fields of the arm's form that are typed into
  MaxMoves,  \* bound: calls made
  MaxStatus  \* bound: statuses received

\* The end position is no joint, and null is no list of numbers.
ASSUME ActuatorAssumption ==
  /\ "pose" \notin Axes /\ Amounts \subseteq Int /\ Typed \subseteq Int
  /\ Null \notin [Axes -> Int]

VARIABLES
  actuator,    \* the panel of this behaviour
  status,      \* status prop: positions as fixed for display, or Null
  raw,         \* rawStatus prop: what the stream brought, or Null
  toggle,      \* the arm's form, or Null
  form,        \* the motor's form
  moves,       \* calls in flight
  moved,       \* calls made
  place, goal, \* the robot: where the part is, where it is going
  statuses,    \* statuses received
  aim,         \* history: reported joints with the clicks made since
  spot, steps, \* history: reported place with the clicks made since, and how many
  last,        \* history: the last button: "joints", "step", "other", "stop" or "none"
  moveServed,  \* history: the call served last
  onText,      \* history: a click met a text since the last status
  crossed      \* history: a command was in flight at the last STOP, or STOP was lost

actuatorPage == <<actuator, status, raw, toggle, form>>
motion       == <<place, goal>>
stepHist     == <<spot, steps>>
moveHist     == <<aim, stepHist, last, moveServed, onText, crossed>>
actuatorVars == <<actuatorPage, moves, moved, motion, statuses, moveHist>>

Pose  == "pose"                          \* the arm's end position, one coordinate of it
Value == [num : Int \cup {NaN, Null}, text : BOOLEAN]  \* num is Null: the field is absent
Num(n) == [num |-> n, text |-> FALSE]
To(n) == [s \in {Pose} |-> n]
Hold  == <<>>                            \* no motion under way
Slots == CASE actuator = "arm" -> Axes \cup {Pose} [] actuator = "gantry" -> Axes [] OTHER -> {Pose}

ActuatorTypeOK ==
  /\ actuator \in Actuators
  /\ status = Null \/ status \in [Slots -> Int]
  /\ raw = Null \/ raw \in [Slots -> Value]
  /\ toggle = Null \/ toggle \in [Slots -> Value]
  /\ \A c \in moves : c.n \in 1 .. moved
  /\ place \in [Slots -> Int] /\ moveServed \in 0 .. moved /\ statuses \in 0 .. MaxStatus
  /\ (spot = Null \/ spot \in [Slots -> Int]) /\ steps \in 0 .. moved

-----------------------------------------------------------------------------
(* Calls: each goes its own way to the robot.                              *)

SendMove(op, to, button) ==
  /\ moved < MaxMoves /\ moved' = moved + 1
  /\ moves' = moves \cup {[n |-> moved + 1, op |-> op, to |-> to]}
  /\ last' = button
  /\ UNCHANGED <<actuator, status, motion, statuses, moveServed>>

\* A button whose handler only makes a call.
Move(op, to) ==
  /\ SendMove(op, to, "other")
  /\ UNCHANGED <<raw, toggle, form, aim, stepHist, onText, crossed>>

\* A button that moves the part from where the status says it is.
Spot == IF steps = 0 THEN status ELSE spot

Step(to, at) ==
  /\ SendMove("move", to, "step")
  /\ spot' = at /\ steps' = steps + 1
  /\ UNCHANGED <<raw, form, aim, onText, crossed>>

Stop_bug ==
  /\ last' = "stop" /\ crossed' = (moves # {})
  /\ UNCHANGED <<actuatorPage, moves, moved, motion, statuses, aim, stepHist, moveServed, onText>>

\* STOP, the same handler in every panel.
Stop ==
  /\ SendMove("stop", Hold, "stop")
  /\ crossed' = (moves # {})
  /\ UNCHANGED <<raw, toggle, form, aim, stepHist, onText>>

\* old[field] || 0, servo.position_deg ?? 0
OrZero(v) == IF v.num = Null THEN 0 ELSE v.num

Nums(list) == [a \in Axes |-> list[a].num]

-----------------------------------------------------------------------------
(* arm.vue.                                                                *)

ArmStop == actuator = "arm" /\ Stop

\* newList[field] += amount: a text is appended to, and what that spells is a
\* number again only if the amount has no sign.
Appended(v, amount) ==
  [v EXCEPT !.num = IF amount > 0 /\ @ # NaN THEN @ * (IF amount < 10 THEN 10 ELSE 100) + amount
                                            ELSE NaN]
Plus(v, amount) == IF v.text THEN Appended(v, amount) ELSE Num(v.num + amount)

MoveToJoints_bug(list) ==
  /\ raw' = raw
  /\ SendMove("move", Nums(list), "joints")
  /\ UNCHANGED stepHist

\* The list a joint command sends is the raw status's own list, changed in place.
MoveToJoints(list) ==
  /\ raw' = [s \in Slots |-> IF s \in Axes THEN list[s] ELSE raw[s]]
  /\ SendMove("move", Nums(list), "joints")
  /\ UNCHANGED stepHist

Aimed == IF aim = Null THEN status ELSE aim

ArmJointInc(a, amount) ==
  /\ actuator = "arm" /\ status # Null
  /\ MoveToJoints([raw EXCEPT ![a] = Plus(@, amount)])
  /\ aim' = [s \in Axes |-> IF s = a THEN Aimed[s] + amount ELSE Aimed[s]]
  /\ onText' = (onText \/ raw[a].text)
  /\ UNCHANGED <<toggle, form, crossed>>

ArmHome ==
  /\ actuator = "arm" /\ status # Null
  /\ MoveToJoints([s \in Slots |-> Num(0)])
  /\ aim' = [s \in Axes |-> 0] /\ onText' = FALSE
  /\ UNCHANGED <<toggle, form, crossed>>

\* Each click starts from the position of the last status.
ArmEndPositionInc(amount) ==
  /\ actuator = "arm" /\ status # Null
  /\ Step(To(OrZero(raw[Pose]) + amount), [Spot EXCEPT ![Pose] = @ + amount])
  /\ UNCHANGED toggle

ArmModifyAll ==
  /\ actuator = "arm" /\ status # Null
  /\ toggle' = [s \in Slots |-> Num(status[s])]
  /\ UNCHANGED <<actuator, status, raw, form, moves, moved, motion, statuses, moveHist>>

\* An input of the form: v-model stores what was typed, a text.
EditPiece(s, n) ==
  /\ toggle # Null
  /\ toggle' = [toggle EXCEPT ![s] = [num |-> n, text |-> TRUE]]
  /\ UNCHANGED <<actuator, status, raw, form, moves, moved, motion, statuses, moveHist>>

ArmModifyAllCancel ==
  /\ toggle # Null /\ toggle' = Null
  /\ UNCHANGED <<actuator, status, raw, form, moves, moved, motion, statuses, moveHist>>

ArmModifyAllDoEndPosition ==
  /\ toggle # Null /\ toggle' = Null
  /\ Step(To(toggle[Pose].num), [Spot EXCEPT ![Pose] = toggle[Pose].num])

ArmModifyAllDoJoint ==
  /\ toggle # Null /\ toggle' = Null
  /\ MoveToJoints(toggle)
  /\ aim' = Nums(toggle) /\ onText' = FALSE
  /\ UNCHANGED <<form, crossed>>

ArmStep ==
  \/ ArmStop \/ ArmHome \/ ArmModifyAll \/ ArmModifyAllCancel
  \/ ArmModifyAllDoEndPosition \/ ArmModifyAllDoJoint
  \/ \E a \in Axes, amount \in Amounts : ArmJointInc(a, amount)
  \/ \E amount \in Amounts : ArmEndPositionInc(amount)
  \/ \E s \in Edited, n \in Typed : EditPiece(s, n)

-----------------------------------------------------------------------------
(* gantry.vue, servo.vue, gripper.vue.                                     *)

GantryIncrement(a, amount) ==
  /\ actuator = "gantry" /\ status # Null
  /\ Step([status EXCEPT ![a] = @ + amount], [Spot EXCEPT ![a] = @ + amount])
  /\ UNCHANGED toggle

GantryStop == actuator = "gantry" /\ status # Null /\ Stop

ServoMove(amount) ==
  /\ actuator = "servo" /\ status # Null
  /\ Step(To(OrZero(raw[Pose]) + amount), [Spot EXCEPT ![Pose] = @ + amount])
  /\ UNCHANGED toggle

ServoStop == actuator = "servo" /\ status # Null /\ Stop

GripperOpen == actuator = "gripper" /\ Move("move", To(1))
GripperGrab == actuator = "gripper" /\ Move("move", To(0))
GripperStop == actuator = "gripper" /\ Stop

-----------------------------------------------------------------------------
(* motor-detail.vue.                                                       *)

Types == "Go" :> "go" @@ "Go For" :> "goFor" @@ "Go To" :> "goTo"

SetMovementType(value) ==
  /\ actuator = "motor" /\ status # Null
  /\ form' = [form EXCEPT !.movementType = value, !.type = Types[value]]
  /\ UNCHANGED <<actuator, status, raw, toggle, moves, moved, motion, statuses, moveHist>>

\* The direction is offered with "Go" and "Go For" only.
SetDirection(d) ==
  /\ actuator = "motor" /\ status # Null /\ form.movementType # "Go To"
  /\ form' = [form EXCEPT !.direction = d]
  /\ UNCHANGED <<actuator, status, raw, toggle, moves, moved, motion, statuses, moveHist>>

SetPower == Move("go", To(form.direction))
GoFor    == Move("goFor", To(form.direction))
GoTo(p)  == Move("move", To(p))

MotorRun ==
  /\ actuator = "motor" /\ status # Null
  /\ \/ form.type = "go" /\ SetPower
     \/ form.type = "goFor" /\ GoFor
     \/ form.type = "goTo" /\ \E p \in Typed : GoTo(p)

MotorStop == actuator = "motor" /\ status # Null /\ Stop

-----------------------------------------------------------------------------
(* The status stream and the robot.                                        *)

\* A status message has no field for a zero; lists of joints and axes have all.
Message == [s \in Slots |-> IF s = Pose /\ place[s] = 0 THEN Num(Null) ELSE Num(place[s])]

\* fixArmStatus, fixGantryStatus, fixMotorStatus and fixServoStatus.
FixArmStatus(old)    == [s \in Slots |-> OrZero(old[s])]
FixGantryStatus(old) == [s \in Slots |-> old[s].num]
FixPoseStatus(old)   == To(OrZero(old[Pose]))

\* fixRawStatus; a gripper has no fixer.
FixRawStatus(old) ==
  CASE actuator = "arm" -> FixArmStatus(old)
    [] actuator = "gantry" -> FixGantryStatus(old)
    [] OTHER -> FixPoseStatus(old)

\* updateStatus: the raw and the fixed status, a new object each.
UpdateStatus ==
  /\ statuses < MaxStatus /\ statuses' = statuses + 1
  /\ raw' = Message
  /\ status' = FixRawStatus(Message)
  /\ aim' = Null /\ onText' = FALSE /\ spot' = Null /\ steps' = 0
  /\ UNCHANGED <<actuator, toggle, form, moves, moved, motion, last, moveServed, crossed>>

\* A gantry status with lists of different lengths throws: both stay as they are.
StatusThrows ==
  /\ actuator = "gantry" /\ statuses < MaxStatus /\ statuses' = statuses + 1
  /\ UNCHANGED <<actuatorPage, moves, moved, motion, moveHist>>

\* A command that is served takes the place of the one before it; a target
\* that is no number is refused.
Goal(c) ==
  CASE c.op = "stop" -> Hold
    [] c.op = "goFor" -> To(place[Pose] + c.to[Pose])
    [] OTHER -> c.to

ServeMove(c) ==
  /\ moves' = moves \ {c} /\ moveServed' = c.n
  /\ goal' = IF \E s \in DOMAIN c.to : c.to[s] = NaN THEN goal
             ELSE [op |-> c.op, to |-> Goal(c)]
  /\ UNCHANGED <<actuatorPage, moved, place, statuses, aim, stepHist, last, onText, crossed>>

\* displayError
LoseMove(c) ==
  /\ moves' = moves \ {c}
  /\ crossed' = (crossed \/ c.op = "stop")
  /\ UNCHANGED <<actuatorPage, moved, motion, statuses, aim, stepHist, last, moveServed, onText>>

InMotion == goal.to # Hold

\* Where the part is once the motion under way is over.
Ahead == [s \in Slots |-> IF s \in DOMAIN goal.to THEN goal.to[s] ELSE place[s]]

Arrive ==
  /\ InMotion /\ goal.op # "go"
  /\ place' = Ahead /\ goal' = [goal EXCEPT !.to = Hold]
  /\ UNCHANGED <<actuatorPage, moves, moved, statuses, moveHist>>

-----------------------------------------------------------------------------
ActuatorInit ==
  /\ actuator \in Actuators /\ status = Null /\ raw = Null /\ toggle = Null
  /\ form = [movementType |-> "Go", type |-> "go", direction |-> 1]
  /\ moves = {} /\ moved = 0 /\ statuses = 0
  /\ place = [s \in Slots |-> 0] /\ goal = [op |-> "stop", to |-> Hold]
  /\ aim = Null /\ spot = Null /\ steps = 0 /\ last = "none"
  /\ moveServed = 0 /\ onText = FALSE /\ crossed = FALSE

ActuatorNext ==
  \/ ArmStep
  \/ \E amount \in Amounts : ServoMove(amount) \/ \E a \in Axes : GantryIncrement(a, amount)
  \/ GantryStop \/ ServoStop \/ GripperOpen \/ GripperGrab \/ GripperStop
  \/ \E value \in DOMAIN Types : SetMovementType(value)
  \/ \E d \in {1, -1} : SetDirection(d)
  \/ MotorRun \/ MotorStop \/ UpdateStatus \/ StatusThrows \/ Arrive
  \/ \E c \in moves : ServeMove(c) \/ LoseMove(c)

ActuatorSpec == ActuatorInit /\ [][ActuatorNext]_actuatorVars

-----------------------------------------------------------------------------
(* Properties.                                                             *)

\* Joint buttons pressed one after the other add up: when the calls are over
\* and the newest was served last, the arm is at, or on its way to, the joints
\* of the last status with every click since then, after "Home" and "Go To
\* Joints" too.  The one exception is a click on a joint whose value is a text.
ClicksAddUp ==
  (last = "joints" /\ aim # Null /\ moves = {} /\ moveServed = moved /\ ~onText)
    => \A a \in Axes : Ahead[a] = aim[a]

\* The slots that a click on a position moves.
StepSlots == IF actuator = "arm" THEN {Pose} ELSE Slots

AtSpot ==
  (last = "step" /\ moves = {} /\ moveServed = moved) => \A s \in StepSlots : Ahead[s] = spot[s]

\* The first click on a position after a status moves the arm's end, the
\* gantry or the servo to the reported place with that click, or to the
\* position of the form, whatever joint buttons come before it.
FirstStepMoves == steps = 1 => AtSpot

\* After STOP the part rests until the next button, if no command was under
\* way when it was pressed and the call for it did not fail.
StopHolds == (last = "stop" /\ moves = {} /\ ~crossed) => ~InMotion

\* Clicks on joints add up, the first click on a position after a status does
\* what it says, and STOP holds (arm.vue, gantry.vue, servo.vue, and STOP of
\* gripper.vue and motor-detail.vue).
ButtonsObeyed == ClicksAddUp /\ FirstStepMoves /\ StopHolds

\* Deviation: clicks on a position add up too.  The second one before the next
\* status starts from the same status (gantry.vue:21-26, arm.vue:98-110,
\* servo.vue:25-31), and the first is undone.
StepsAddUp == steps > 0 => AtSpot

\* Deviation: the same for STOP pressed at any time.  A command sent before
\* it may reach the robot after it, and the call for STOP may fail.
StopIsFinal == (last = "stop" /\ moves = {}) => ~InMotion

\* Deviation: a joint list holds numbers (arm.vue:21).  After "Go To Joints" it
\* holds the texts of the form until the next status.
ListHoldsNumbers == raw # Null => \A s \in Slots : ~raw[s].text

=============================================================================
