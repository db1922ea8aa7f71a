---------------------------- MODULE ActuatorProofs ----------------------------
(***************************************************************************)
(* Proofs about board.vue and sensors.vue, and about arm.vue, gantry.vue,  *)
(* servo.vue and the STOP of the panels that move a part, for any axes,    *)
(* pins and parts and any number of calls.  The panels share no state.     *)
(***************************************************************************)
EXTENDS RequestPanels, ActuatorPanels, TLAPS

-----------------------------------------------------------------------------
(* board.vue, sensors.vue.                                                 *)

\* What the robot answered is so for the parts that have not changed since.
TrueAnswer(c, now) ==
  c.val # Null =>
    /\ c.op = "get" => \A p \in c.of \ c.since : c.val = now[p]
    /\ c.op = "readings" => /\ DOMAIN c.val = c.of
                            /\ \A p \in c.of \ c.since : c.val[p] = now[p]

IsAsked(c, by) ==
  /\ c = [n |-> c.n, op |-> c.op, of |-> c.of, val |-> c.val, since |-> c.since]
  /\ c.of \subseteq Parts
  /\ c.op = "get" => \A p, q \in c.of : p = q
  /\ by = "board" => c.op \in {"get", "low", "high"}
  /\ by = "sensors" => c.op = "readings"

AskInv ==
  /\ level = [p \in Parts |-> level[p]]
  /\ part \in Parts \cup {Null} /\ setPin \in Parts \cup {Null}
  /\ \A c \in asked : IsAsked(c, asker) /\ TrueAnswer(c, level)
  /\ asker = "board" /\ shown # Null /\ ~edited => shown.pin \in Parts
  /\ asker = "sensors" /\ shown # Null => DOMAIN shown \subseteq Parts
  /\ AnswersAreTrue

\* A panel asks for op.
LEMMA AskKeeps ==
  ASSUME AskInv, NEW op, NEW of, Ask(op, of), of \subseteq Parts,
         op = "get" => \A p, q \in of : p = q,
         asker = "board" => op \in {"get", "low", "high"}, asker = "sensors" => op = "readings",
         UNCHANGED <<asker, part, setPin, shown, askRobot, askHist>>
  PROVE  AskInv'
<1> DEFINE new == [n |-> sent + 1, op |-> op, of |-> of, val |-> Null, since |-> {}]
<1>1. asked' = asked \cup {new}
  BY DEF Ask
<1>2. new.op = op /\ new.of = of /\ new.val = Null
      /\ new = [n |-> new.n, op |-> new.op, of |-> new.of, val |-> new.val, since |-> new.since]
  OBVIOUS
<1> HIDE DEF new
<1>3. IsAsked(new, asker) /\ TrueAnswer(new, level)
  BY <1>2, ZenonT(40) DEF IsAsked, TrueAnswer
<1>4. UNCHANGED <<asker, level, part, setPin, shown, edited, changed>>
  BY DEF askRobot, askHist
<1>5. QED
  BY <1>1, <1>3, <1>4, ZenonT(40) DEF AskInv, AnswersAreTrue, ShownIsSo

\* The robot's levels become new.
LEMMA BecomeKeeps ==
  ASSUME AskInv, NEW new, new = [p \in Parts |-> new[p]], NEW calls,
         \A c \in calls : IsAsked(c, asker) /\ TrueAnswer(c, level),
         Become(new, calls), UNCHANGED <<asker, part, setPin, shown, edited>>
  PROVE  AskInv'
<1> DEFINE moved2 == {p \in Parts : new[p] # level[p]}
           Older(c) == IF c.val = Null THEN c ELSE [c EXCEPT !.since = @ \cup (moved2 \cap c.of)]
<1>1. /\ level' = new /\ asked' = {Older(c) : c \in calls} /\ changed' = changed \cup moved2
  BY DEF Become
<1>2. \A p \in Parts : p \notin moved2 => level'[p] = level[p]
  BY <1>1
<1>3. ASSUME NEW c \in calls PROVE IsAsked(Older(c), asker) /\ TrueAnswer(Older(c), level')
  <2>1. IsAsked(c, asker) /\ TrueAnswer(c, level)
    OBVIOUS
  <2>2. CASE c.val = Null
    BY <2>1, <2>2, ZenonT(40) DEF IsAsked, TrueAnswer
  <2>3. CASE c.val # Null
    <3> DEFINE d == [n |-> c.n, op |-> c.op, of |-> c.of, val |-> c.val,
                     since |-> c.since \cup (moved2 \cap c.of)]
    <3>1. Older(c) = d
      BY <2>1, <2>3 DEF IsAsked
    <3>2. d.op = c.op /\ d.of = c.of /\ d.val = c.val /\ d.since = c.since \cup (moved2 \cap c.of)
          /\ d = [n |-> d.n, op |-> d.op, of |-> d.of, val |-> d.val, since |-> d.since]
      OBVIOUS
    <3> HIDE DEF d, Older, moved2
    <3>3. \A p \in d.of \ d.since : p \in c.of \ c.since /\ level'[p] = level[p]
      BY <1>2, <2>1, <3>2, ZenonT(40) DEF IsAsked
    <3>4. IsAsked(d, asker)
      BY <2>1, <3>2, ZenonT(40) DEF IsAsked
    <3>5. TrueAnswer(d, level')
      BY <2>1, <2>3, <3>2, <3>3, ZenonT(40) DEF TrueAnswer
    <3>6. QED
      BY <3>1, <3>4, <3>5
  <2>4. QED
    BY <2>2, <2>3
<1> HIDE DEF Older, moved2
<1>4. AnswersAreTrue'
  BY <1>1, <1>2, ZenonT(40) DEF AskInv, AnswersAreTrue, ShownIsSo
<1>5. level' = [p \in Parts |-> level'[p]]
  BY <1>1
<1>6. \A d \in asked' : IsAsked(d, asker') /\ TrueAnswer(d, level')
  BY <1>1, <1>3, ZenonT(40)
<1>7. QED
  BY <1>4, <1>5, <1>6, ZenonT(40) DEF AskInv

\* An answer comes: what it brings is as old as it is.
LEMMA AnswerKeeps ==
  ASSUME AskInv, NEW c \in asked, AnswerAsked(c)
  PROVE  AskInv'
<1>1. asked' = asked \ {c} /\ UNCHANGED <<asker, part, setPin, level>>
  BY DEF AnswerAsked, askRobot
<1>2. IsAsked(c, asker) /\ TrueAnswer(c, level)
  BY DEF AskInv
<1>3. CASE UNCHANGED <<shown, edited, changed>>
  BY <1>1, <1>3, ZenonT(40) DEF AskInv, AnswersAreTrue, ShownIsSo
<1>4. CASE asker \notin {"board", "sensors"}
  BY <1>1, <1>4, ZenonT(40) DEF AskInv, AnswersAreTrue, ShownIsSo
<1>5. CASE /\ asker = "board" /\ c.op = "get" /\ c.val # Null
           /\ shown' = [pin |-> part, val |-> c.val]
           /\ edited' = (part \notin c.of) /\ changed' = Aged(c)
  <2>1. shown'.pin = part /\ shown'.val = c.val
    BY <1>5
  <2>2. ~edited' => part \in Parts /\ part \in c.of
    BY <1>2, <1>5, ZenonT(40) DEF IsAsked
  <2>3. ASSUME ~edited', part \notin changed' PROVE c.val = level[part]
    <3>1. part \in c.of \ c.since
      BY <1>5, <2>2, <2>3, ZenonT(40) DEF Aged
    <3>2. QED
      BY <1>2, <1>5, <3>1, ZenonT(40) DEF TrueAnswer
  <2>4. AnswersAreTrue'
    BY <1>1, <1>5, <2>1, <2>3, ZenonT(40) DEF AnswersAreTrue, ShownIsSo
  <2>5. QED
    BY <1>1, <1>5, <2>1, <2>2, <2>4, ZenonT(40) DEF AskInv
<1>6. CASE asker = "sensors" /\ ReadingsAnswer(c) /\ c.val # Null
  <2> DEFINE old == IF shown = Null THEN <<>> ELSE shown
  <2>1. /\ shown' = Merged(old, c.val) /\ changed' = Aged(c) /\ edited' = edited
        /\ c.op = "readings"
    BY <1>6 DEF ReadingsAnswer
  <2>2. DOMAIN c.val = c.of /\ \A p \in c.of \ c.since : c.val[p] = level[p]
    BY <1>2, <1>6, <2>1 DEF TrueAnswer
  <2>3. /\ DOMAIN shown' = c.of \cup DOMAIN old
        /\ \A p \in DOMAIN shown' : shown'[p] = IF p \in c.of THEN c.val[p] ELSE old[p]
    BY <2>1, <2>2 DEF Merged
  <2>4. \A p \in DOMAIN old : shown # Null /\ p \in DOMAIN shown /\ old[p] = shown[p]
    OBVIOUS
  <2> HIDE DEF old
  <2>5. DOMAIN shown' \subseteq Parts
    BY <1>2, <1>6, <2>3, <2>4, ZenonT(40) DEF IsAsked, AskInv
  <2>6. ASSUME ~edited', NEW p \in DOMAIN shown' \ changed' PROVE shown'[p] = level[p]
    <3>1. CASE p \in c.of
      BY <2>1, <2>2, <2>3, <2>6, <3>1, ZenonT(40) DEF Aged
    <3>2. CASE p \notin c.of
      <4>1. p \notin changed /\ p \in DOMAIN old
        BY <2>1, <2>3, <2>6, <3>2, ZenonT(40) DEF Aged
      <4>2. shown[p] = level[p]
        BY <1>6, <2>1, <2>4, <2>6, <4>1, ZenonT(40) DEF AskInv, AnswersAreTrue, ShownIsSo
      <4>3. QED
        BY <2>3, <2>4, <3>2, <4>1, <4>2, ZenonT(40)
    <3>3. QED
      BY <3>1, <3>2
  <2>7. AnswersAreTrue'
    BY <1>1, <1>6, <2>6, ZenonT(40) DEF AnswersAreTrue, ShownIsSo
  <2>8. QED
    BY <1>1, <1>6, <2>5, <2>7, ZenonT(40) DEF AskInv
<1>7. \/ UNCHANGED <<shown, edited, changed>> \/ asker \notin {"board", "sensors"}
      \/ /\ asker = "board" /\ c.op = "get" /\ c.val # Null
         /\ shown' = [pin |-> part, val |-> c.val]
         /\ edited' = (part \notin c.of) /\ changed' = Aged(c)
      \/ asker = "sensors" /\ ReadingsAnswer(c) /\ c.val # Null
  <2>1. CASE asker = "board"
    <3>1. GetAnswer(c) \/ SetAnswer(c)
      BY <1>2, <2>1 DEF IsAsked, AnswerAsked, DoAnswer, ReadingsAnswer, AudioAnswer
    <3>2. QED
      BY <2>1, <3>1 DEF GetAnswer, SetAnswer, Named, askHist
  <2>2. CASE asker = "sensors"
    <3>1. ReadingsAnswer(c)
      BY <1>2, <2>2 DEF IsAsked, AnswerAsked, DoAnswer, GetAnswer, SetAnswer, AudioAnswer, Levels
    <3>2. QED
      BY <2>2, <3>1 DEF ReadingsAnswer
  <2>3. QED
    BY <2>1, <2>2
<1>8. QED
  BY <1>3, <1>4, <1>5, <1>6, <1>7

LEMMA AskStep == AskInv /\ [AskNext]_askVars => AskInv'
<1> SUFFICES ASSUME AskInv, [AskNext]_askVars PROVE AskInv'
  OBVIOUS
<1>1. CASE DoCommand
  <2>1. Ask("do", {part}) /\ asker = "do" /\ {part} \subseteq Parts
        /\ UNCHANGED <<asker, part, setPin, shown, askRobot, askHist>>
    BY <1>1 DEF DoCommand, Ready, AskInv
  <2>2. QED
    BY <2>1, AskKeeps
<1>2. CASE GetGPIO
  <2>1. Ask("get", {part} \ {Null}) /\ asker = "board"
        /\ UNCHANGED <<asker, part, setPin, shown, askRobot, askHist>>
    BY <1>2 DEF GetGPIO, askPage
  <2>2. {part} \ {Null} \subseteq Parts
    BY DEF AskInv
  <2>3. \A p, q \in {part} \ {Null} : p = q
    OBVIOUS
  <2>4. QED
    BY <2>1, <2>2, <2>3, AskKeeps
<1>3. CASE \E l \in Levels : SetGPIO(l)
  <2>1. PICK l \in Levels : SetGPIO(l)
    BY <1>3
  <2>2. Ask(l, {setPin} \ {Null}) /\ asker = "board"
        /\ UNCHANGED <<asker, part, setPin, shown, askRobot, askHist>>
    BY <2>1 DEF SetGPIO, askPage
  <2>3. l \in {"get", "low", "high"} /\ l # "get" /\ {setPin} \ {Null} \subseteq Parts
    BY DEF AskInv, Levels
  <2>4. QED
    BY <2>2, <2>3, AskKeeps
<1>4. CASE GetReadings(Parts) \/ \E p \in Parts : GetReadings({p})
  <2>1. PICK S : S \subseteq Parts /\ GetReadings(S)
    BY <1>4
  <2>2. Ask("readings", S) /\ asker = "sensors"
        /\ UNCHANGED <<asker, part, setPin, shown, askRobot, askHist>>
    BY <2>1 DEF GetReadings, askPage
  <2>3. QED
    BY <2>1, <2>2, AskKeeps
<1>5. CASE ToggleAudio
  <2>1. \E op : /\ op \in {"add", "remove"} /\ Ask(op, {}) /\ asker = "audio"
                /\ UNCHANGED <<asker, part, setPin, shown, askRobot, askHist>>
    BY <1>5 DEF ToggleAudio
  <2>2. QED
    BY <2>1, AskKeeps
<1>6. CASE \E p \in Parts : WorldChanges(p)
  <2>1. PICK p \in Parts, l \in Levels : /\ Become([level EXCEPT ![p] = l], asked)
                                         /\ UNCHANGED <<asker, part, setPin, shown, edited>>
    BY <1>6 DEF WorldChanges, askPage
  <2> DEFINE new == [level EXCEPT ![p] = l]
  <2>2. new = [q \in Parts |-> new[q]]
    BY DEF AskInv
  <2> HIDE DEF new
  <2>3. Become(new, asked) /\ \A c \in asked : IsAsked(c, asker) /\ TrueAnswer(c, level)
    BY <2>1 DEF AskInv, new
  <2>4. QED
    BY <2>1, <2>2, <2>3, BecomeKeeps
<1>7. CASE \E c \in asked : ServeAsked(c)
  <2>1. PICK c \in asked : ServeAsked(c)
    BY <1>7
  <2> DEFINE done  == [c EXCEPT !.val = Result(c)]
             calls2 == (asked \ {c}) \cup {done}
             new   == Effect(c)
  <2>2. Become(new, calls2) /\ ~NoPin(c) /\ UNCHANGED <<asker, part, setPin, shown, edited>>
    BY <2>1 DEF ServeAsked, askPage
  <2>3. IsAsked(c, asker)
    BY DEF AskInv
  <2>4. /\ done.op = c.op /\ done.of = c.of /\ done.since = c.since /\ done.val = Result(c)
        /\ done = [n |-> done.n, op |-> done.op, of |-> done.of, val |-> done.val, since |-> done.since]
    BY <2>3 DEF IsAsked
  <2>5. new = [q \in Parts |-> new[q]]
    BY DEF Effect
  <2> HIDE DEF done, new
  <2>6. IsAsked(done, asker)
    BY <2>3, <2>4, ZenonT(40) DEF IsAsked
  <2>7. c.op = "get" => \A p \in c.of : Result(c) = level[p]
    <3> SUFFICES ASSUME c.op = "get", NEW p \in c.of PROVE Result(c) = level[p]
      OBVIOUS
    <3>1. (CHOOSE q \in c.of : TRUE) \in c.of
      OBVIOUS
    <3>2. (CHOOSE q \in c.of : TRUE) = p
      BY <2>3, <3>1 DEF IsAsked
    <3>3. QED
      BY <3>2 DEF Result
  <2>8. c.op = "readings" => Result(c) = [p \in c.of |-> level[p]]
    BY DEF Result
  <2>9. TrueAnswer(done, level)
    BY <2>4, <2>7, <2>8 DEF TrueAnswer
  <2>10. \A d \in calls2 : IsAsked(d, asker) /\ TrueAnswer(d, level)
    BY <2>6, <2>9, ZenonT(40) DEF AskInv
  <2> HIDE DEF calls2
  <2>11. QED
    BY <2>2, <2>5, <2>10, BecomeKeeps
<1>8. CASE \E c \in asked : AnswerAsked(c)
  BY <1>8, AnswerKeeps
<1>9. CASE \/ \E text \in {"json", "text"} : EditInput(text)
           \/ \E p \in Parts : ChoosePart(p) \/ ChooseSetPin(p)
           \/ AskReachable \/ UNCHANGED askVars
  <2>1. /\ UNCHANGED <<asker, shown, asked, level, edited, changed>>
        /\ part' \in Parts \cup {Null} /\ setPin' \in Parts \cup {Null}
    BY <1>9 DEF EditInput, ChoosePart, ChooseSetPin, AskReachable, askVars, askPage, askRobot,
                askHist, AskInv
  <2>2. QED
    BY <2>1, ZenonT(40) DEF AskInv, AnswersAreTrue, ShownIsSo
<1>10. QED
  BY <1>1, <1>2, <1>3, <1>4, <1>5, <1>6, <1>7, <1>8, <1>9, ZenonT(40) DEF AskNext

\* However calls overtake each other or fail, and however pins and sensors
\* change meanwhile: what the page shows of them is so unless they have changed
\* since the robot answered, or the input held another pin when the answer came
\* (board.vue, sensors.vue).
THEOREM AnswersTrue == AskSpec => []AnswersAreTrue
<1>1. AskInit => AskInv
  <2> SUFFICES ASSUME AskInit PROVE AskInv
    OBVIOUS
  <2>1. level = [p \in Parts |-> level[p]]
    BY DEF AskInit
  <2>2. QED
    BY <2>1, ZenonT(40) DEF AskInit, AskInv, AnswersAreTrue, ShownIsSo
<1>2. AskInv => AnswersAreTrue
  BY DEF AskInv
<1>3. QED
  BY <1>1, <1>2, AskStep, PTL DEF AskSpec

-----------------------------------------------------------------------------
(* arm.vue, gantry.vue, servo.vue, and STOP of every panel that moves a    *)
(* part.                                                                   *)

ArmSlots == Axes \cup {Pose}

\* A value of the list of joints: a number, or a text that may spell none.
IsJoint(v) ==
  /\ v = [num |-> v.num, text |-> v.text] /\ v.text \in BOOLEAN
  /\ v.num \in Int \cup {NaN} /\ (~v.text => v.num \in Int)

IsForm(v) == v = [num |-> v.num, text |-> v.text] /\ v.num \in Int /\ v.text \in BOOLEAN

Targets == {Hold} \cup [Axes -> Int] \cup [{Pose} -> Int]

\* Until another button, only STOP is in flight after STOP, and the part rests
\* once it is not any more.
StopInv ==
  /\ goal = [op |-> goal.op, to |-> goal.to]
  /\ \A c \in moves : c.op = "stop" => c.to = Hold
  /\ (last = "stop" /\ ~crossed) => /\ \A c \in moves : c.op = "stop"
                                    /\ moves = {} => goal.to = Hold

\* A status came: the form opens only then.
Filled == status # Null \/ toggle # Null

\* What the arm's panel holds are numbers where the arithmetic needs them.
ArmTyped ==
  /\ place \in [ArmSlots -> Int] /\ goal.to \in Targets
  /\ \A c \in moves : /\ c.op \in {"move", "stop"}
                      /\ c.to \in Targets \cup [Axes -> Int \cup {NaN}]
  /\ Filled => /\ status \in [ArmSlots -> Int] /\ raw = [s \in ArmSlots |-> raw[s]]
               /\ \A a \in Axes : IsJoint(raw[a])
               /\ raw[Pose].num \in Int \cup {Null}
  /\ toggle # Null => /\ toggle = [s \in ArmSlots |-> toggle[s]]
                      /\ \A s \in ArmSlots : IsForm(toggle[s])
  /\ aim # Null => aim \in [Axes -> Int]

\* Without a click on a text, the list of joints is what the operator aims at,
\* the newest call asks for it, and that call makes the arm go there.
ArmAims ==
  /\ (Filled /\ ~onText) => \A a \in Axes : raw[a].num = Aimed[a]
  /\ (last = "joints" /\ aim # Null /\ ~onText) =>
       /\ \A c \in moves : c.n = moved => c.op = "move" /\ c.to = aim
       /\ moveServed = moved => \A a \in Axes : Ahead[a] = aim[a]

ArmInv ==
  /\ moved \in Nat /\ moveServed \in 0 .. moved /\ \A c \in moves : c.n \in 1 .. moved
  /\ onText \in BOOLEAN /\ crossed \in BOOLEAN
  /\ actuator # "arm" => last # "joints" /\ toggle = Null
  /\ actuator = "arm" => ArmTyped /\ ArmAims

LEMMA StopStep == StopInv /\ crossed \in BOOLEAN /\ [ActuatorNext]_actuatorVars => StopInv'
<1> SUFFICES ASSUME StopInv, crossed \in BOOLEAN, [ActuatorNext]_actuatorVars PROVE StopInv'
  OBVIOUS
<1>1. ASSUME NEW op, NEW to, NEW button, SendMove(op, to, button),
             op # "stop", button # "stop"
      PROVE  StopInv'
  <2>1. /\ moves' = moves \cup {[n |-> moved + 1, op |-> op, to |-> to]}
        /\ last' # "stop" /\ goal' = goal
    BY <1>1 DEF SendMove, motion
  <2>2. QED
    BY <2>1, <1>1 DEF StopInv
<1>2. CASE \/ ArmModifyAllDoEndPosition \/ ArmHome \/ ArmModifyAllDoJoint
           \/ \E a \in Axes, amount \in Amounts : ArmJointInc(a, amount)
           \/ \E amount \in Amounts : ArmEndPositionInc(amount)
  <2>1. \E op, to, button : SendMove(op, to, button) /\ op = "move" /\ button # "stop"
    BY <1>2, ZenonT(40) DEF ArmModifyAllDoEndPosition, ArmHome, ArmModifyAllDoJoint, ArmJointInc,
                ArmEndPositionInc, MoveToJoints, Step
  <2>2. QED
    BY <2>1, <1>1
<1>3. CASE \/ \E amount \in Amounts : ServoMove(amount) \/ \E a \in Axes : GantryIncrement(a, amount)
           \/ GripperOpen \/ GripperGrab \/ MotorRun
  <2>1. \E op, to, button : /\ SendMove(op, to, button) /\ op \in {"move", "go", "goFor"}
                            /\ button # "stop"
    BY <1>3, ZenonT(40) DEF ServoMove, GantryIncrement, GripperOpen, GripperGrab, MotorRun, SetPower,
                GoFor, GoTo, Move, Step
  <2>2. QED
    BY <2>1, <1>1
<1>4. CASE ArmStop \/ GantryStop \/ ServoStop \/ GripperStop \/ MotorStop
  <2>1. Stop
    BY <1>4 DEF ArmStop, GantryStop, ServoStop, GripperStop, MotorStop
  <2>2. /\ moves' = moves \cup {[n |-> moved + 1, op |-> "stop", to |-> Hold]}
        /\ crossed' = (moves # {}) /\ goal' = goal
    BY <2>1 DEF Stop, SendMove, motion
  <2>3. ~crossed' => moves = {}
    BY <2>2, Zenon
  <2>4. moves' # {}
    BY <2>2, Zenon
  <2>5. QED
    BY <2>2, <2>3, <2>4 DEF StopInv
<1>5. CASE \E c \in moves : ServeMove(c)
  <2>1. PICK c \in moves : ServeMove(c)
    BY <1>5
  <2>2. /\ moves' = moves \ {c} /\ UNCHANGED <<last, crossed>>
        /\ goal' = IF \E s \in DOMAIN c.to : c.to[s] = NaN THEN goal
                   ELSE [op |-> c.op, to |-> Goal(c)]
    BY <2>1 DEF ServeMove
  <2>3. c.op = "stop" => goal'.to = Hold
    <3> SUFFICES ASSUME c.op = "stop" PROVE goal'.to = Hold
      OBVIOUS
    <3>1. c.to = <<>>
      BY DEF StopInv, Hold
    <3>2. DOMAIN c.to = {}
      BY <3>1
    <3>3. goal' = [op |-> c.op, to |-> Goal(c)]
      BY <2>2, <3>2
    <3>4. QED
      BY <3>3 DEF Goal
  <2>4. goal' = [op |-> goal'.op, to |-> goal'.to]
    <3>1. goal' = goal \/ \E o, g : goal' = [op |-> o, to |-> g]
      BY <2>2, Zenon
    <3>2. QED
      BY <3>1 DEF StopInv
  <2>5. QED
    BY <2>2, <2>3, <2>4 DEF StopInv
<1>6. CASE \E c \in moves : LoseMove(c)
  <2>1. PICK c \in moves : LoseMove(c)
    BY <1>6
  <2>2. /\ moves' = moves \ {c} /\ UNCHANGED <<last, goal>>
        /\ crossed' = (crossed \/ c.op = "stop")
    BY <2>1 DEF LoseMove, motion
  <2>3. ~crossed' => ~crossed /\ c.op # "stop"
    BY <2>2, ZenonT(40)
  <2>4. QED
    BY <2>2, <2>3 DEF StopInv
<1>7. CASE Arrive
  <2>1. goal' = [goal EXCEPT !.to = Hold] /\ UNCHANGED <<moves, last, crossed>>
    BY <1>7 DEF Arrive, moveHist
  <2>2. goal' = [op |-> goal.op, to |-> Hold]
    BY <2>1 DEF StopInv
  <2>3. QED
    BY <2>1, <2>2 DEF StopInv
<1>8. CASE \/ ArmModifyAll \/ ArmModifyAllCancel \/ UpdateStatus \/ StatusThrows
           \/ \E s \in Edited, n \in Typed : EditPiece(s, n)
           \/ \E value \in DOMAIN Types : SetMovementType(value)
           \/ \E d \in {1, -1} : SetDirection(d)
           \/ UNCHANGED actuatorVars
  <2>1. UNCHANGED <<goal, moves, last, crossed>>
    BY <1>8, ZenonT(40) DEF ArmModifyAll, ArmModifyAllCancel, UpdateStatus, StatusThrows, EditPiece,
                SetMovementType, SetDirection, actuatorVars, moveHist, motion
  <2>2. QED
    BY <2>1 DEF StopInv
<1>9. QED
  BY <1>2, <1>3, <1>4, <1>5, <1>6, <1>7, <1>8 DEF ActuatorNext, ArmStep

LEMMA SlotsOfArm == actuator = "arm" => Slots = ArmSlots
BY DEF Slots, ArmSlots

\* A joint command whose list spells what is aimed at.
LEMMA JointsKeepArm ==
  ASSUME ArmInv, actuator = "arm", Filled,
         NEW list, \A a \in Axes : IsJoint(list[a]), MoveToJoints(list),
         aim' \in [Axes -> Int], onText' \in BOOLEAN, crossed' \in BOOLEAN,
         ~onText' => \A a \in Axes : list[a].num = aim'[a],
         toggle' = Null \/ toggle' = toggle
  PROVE  ArmInv'
<1> DEFINE call == [n |-> moved + 1, op |-> "move", to |-> Nums(list)]
<1>1. /\ raw' = [s \in ArmSlots |-> IF s \in Axes THEN list[s] ELSE raw[s]]
      /\ moves' = moves \cup {call} /\ moved' = moved + 1 /\ last' = "joints"
      /\ UNCHANGED <<actuator, status, place, goal, moveServed>>
  BY SlotsOfArm, ZenonT(40) DEF MoveToJoints, SendMove, motion
<1>2. /\ moved' \in Nat /\ moveServed' \in 0 .. moved' /\ moveServed' # moved'
      /\ \A c \in moves : c.n \in 1 .. moved' /\ c.n # moved'
  BY <1>1, SMTT(40) DEF ArmInv
<1>3. call.n = moved' /\ call.n \in 1 .. moved' /\ call.op = "move" /\ call.to = Nums(list)
  BY <1>1, <1>2, SMTT(40)
<1>4. Nums(list) \in [Axes -> Int \cup {NaN}]
  BY ZenonT(40) DEF Nums, IsJoint
<1>5. ~onText' => Nums(list) = aim'
  BY DEF Nums
<1> HIDE DEF call
<1>6. raw' = [s \in ArmSlots |-> raw'[s]] /\ (\A a \in Axes : raw'[a] = list[a]) /\ raw'[Pose] = raw[Pose]
  BY <1>1, ActuatorAssumption, ZenonT(40) DEF ArmSlots, Pose
<1>7. ArmTyped'
  BY <1>1, <1>3, <1>4, <1>6, ZenonT(40) DEF ArmInv, ArmTyped, Filled
<1>8. ArmAims'
  <2>1. ~onText' => \A a \in Axes : raw'[a].num = Aimed'[a]
    BY <1>6, ActuatorAssumption DEF Aimed
  <2>2. ~onText' => \A c \in moves' : c.n = moved' => c.op = "move" /\ c.to = aim'
    BY <1>1, <1>2, <1>3, <1>5, ZenonT(40)
  <2>3. QED
    BY <2>1, <2>2, <1>2, ZenonT(40) DEF ArmAims
<1>9. QED
  BY <1>1, <1>2, <1>3, <1>7, <1>8, ZenonT(40) DEF ArmInv

\* Any other button that makes a call.
LEMMA OtherKeepsArm ==
  ASSUME ArmInv, NEW op, NEW to, NEW button, SendMove(op, to, button), button # "joints",
         actuator = "arm" => op \in {"move", "stop"} /\ to \in Targets,
         UNCHANGED <<raw, aim, onText>>, toggle' = Null \/ toggle' = toggle,
         crossed' \in BOOLEAN
  PROVE  ArmInv'
<1> DEFINE call == [n |-> moved + 1, op |-> op, to |-> to]
<1>1. /\ moves' = moves \cup {call} /\ moved' = moved + 1 /\ last' # "joints"
      /\ UNCHANGED <<actuator, status, place, goal, moveServed>>
  BY DEF SendMove, motion
<1>2. /\ moved' \in Nat /\ moveServed' \in 0 .. moved'
      /\ \A c \in moves : c.n \in 1 .. moved'
      /\ moved + 1 \in 1 .. moved'
  BY <1>1 DEF ArmInv
<1>3. call.n \in 1 .. moved' /\ call.op = op /\ call.to = to
  <2>1. call.n = moved + 1 /\ call.op = op /\ call.to = to
    OBVIOUS
  <2>2. QED
    BY <1>2, <2>1, Zenon
<1> HIDE DEF call
<1>4. actuator = "arm" => ArmTyped' /\ ArmAims'
  BY <1>1, <1>3, ZenonT(40) DEF ArmInv, ArmTyped, ArmAims, Aimed, Filled
<1>5. QED
  BY <1>1, <1>2, <1>3, <1>4 DEF ArmInv

\* Joint values stay joint values, and a number is added to a number.
LEMMA PlusIsJoint ==
  ASSUME NEW v, IsJoint(v), NEW amount \in Int
  PROVE  IsJoint(Plus(v, amount)) /\ (~v.text => Plus(v, amount).num = v.num + amount)
<1>1. CASE v.text
  <2> DEFINE num == IF amount > 0 /\ v.num # NaN
                      THEN v.num * (IF amount < 10 THEN 10 ELSE 100) + amount ELSE NaN
  <2>1. Plus(v, amount) = [v EXCEPT !.num = num]
    BY <1>1 DEF Plus, Appended
  <2>2. num \in Int \cup {NaN}
    BY DEF IsJoint
  <2> HIDE DEF num
  <2>3. [v EXCEPT !.num = num] = [num |-> num, text |-> v.text]
    BY DEF IsJoint
  <2>4. QED
    BY <1>1, <2>1, <2>2, <2>3, ZenonT(40) DEF IsJoint
<1>2. CASE ~v.text
  <2>1. Plus(v, amount) = [num |-> v.num + amount, text |-> FALSE]
    BY <1>2 DEF Plus, Num
  <2>2. v.num + amount \in Int
    BY <1>2 DEF IsJoint
  <2>3. QED
    BY <1>2, <2>1, <2>2 DEF IsJoint
<1>3. QED
  BY <1>1, <1>2

LEMMA ArmButtons ==
  ASSUME ArmInv, ArmStep
  PROVE  ArmInv'
<1>1. actuator = "arm" /\ ArmTyped /\ ArmAims
  BY Zenon DEF ArmStep, ArmStop, ArmHome, ArmModifyAll, ArmModifyAllCancel, EditPiece,
         ArmModifyAllDoEndPosition, ArmModifyAllDoJoint, ArmJointInc, ArmEndPositionInc, ArmInv
<1>2. moved \in Nat /\ onText \in BOOLEAN /\ crossed \in BOOLEAN
  BY DEF ArmInv
<1>3. CASE ArmStop
  <2>1. /\ SendMove("stop", Hold, "stop") /\ crossed' = (moves # {})
        /\ UNCHANGED <<raw, toggle, aim, onText>>
    BY <1>3 DEF ArmStop, Stop
  <2>2. Hold \in Targets /\ crossed' \in BOOLEAN
    BY <2>1 DEF Targets
  <2>3. QED
    BY <2>1, <2>2, OtherKeepsArm
<1>4. CASE ArmHome
  <2> DEFINE list == [s \in Slots |-> Num(0)]
  <2>1. /\ Filled /\ MoveToJoints(list) /\ aim' = [s \in Axes |-> 0]
        /\ onText' = FALSE /\ toggle' = toggle /\ crossed' = crossed
    BY <1>4 DEF ArmHome, Filled
  <2>2. \A a \in Axes : list[a] = [num |-> 0, text |-> FALSE]
    BY <1>1, SlotsOfArm DEF Num, ArmSlots
  <2>3. \A a \in Axes : IsJoint(list[a]) /\ list[a].num = 0
    <3>1. IsJoint([num |-> 0, text |-> FALSE]) /\ [num |-> 0, text |-> FALSE].num = 0
      BY DEF IsJoint
    <3>2. QED
      BY <2>2, <3>1, ZenonT(40)
  <2>4. aim' \in [Axes -> Int] /\ \A a \in Axes : aim'[a] = 0
    BY <2>1
  <2>5. onText' \in BOOLEAN /\ crossed' \in BOOLEAN
    BY <1>2, <2>1, ZenonT(40)
  <2> HIDE DEF list
  <2>6. QED
    BY <1>1, <2>1, <2>3, <2>4, <2>5, JointsKeepArm
<1>5. CASE \E a \in Axes, amount \in Amounts : ArmJointInc(a, amount)
  <2>1. PICK a \in Axes, amount \in Amounts : ArmJointInc(a, amount)
    BY <1>5
  <2> DEFINE list == [raw EXCEPT ![a] = Plus(@, amount)]
  <2>2. /\ Filled /\ MoveToJoints(list) /\ onText' = (onText \/ raw[a].text)
        /\ aim' = [s \in Axes |-> IF s = a THEN Aimed[s] + amount ELSE Aimed[s]]
        /\ toggle' = toggle /\ crossed' = crossed
    BY <2>1, ZenonT(40) DEF ArmJointInc, Filled
  <2>3. amount \in Int
    BY ActuatorAssumption
  <2>4. raw = [s \in ArmSlots |-> raw[s]] /\ \A b \in Axes : IsJoint(raw[b])
    BY <1>1, <2>2 DEF ArmTyped
  <2>5. list[a] = Plus(raw[a], amount) /\ \A b \in Axes : b # a => list[b] = raw[b]
    BY <2>4 DEF ArmSlots
  <2>6. IsJoint(list[a]) /\ (~raw[a].text => list[a].num = raw[a].num + amount)
    BY <2>3, <2>4, <2>5, PlusIsJoint
  <2>7. \A b \in Axes : Aimed[b] \in Int
    BY <1>1, <2>2 DEF ArmTyped, Aimed, ArmSlots
  <2>8. aim' \in [Axes -> Int]
    BY <2>2, <2>3, <2>7, SMTT(40)
  <2>9. onText' \in BOOLEAN /\ (~onText' => ~onText /\ ~raw[a].text)
    <3>1. raw[a].text \in BOOLEAN
      BY <2>4, ZenonT(40) DEF IsJoint
    <3>2. QED
      BY <1>2, <2>2, <3>1
  <2> HIDE DEF list
  <2>10. ~onText' => \A b \in Axes : list[b].num = aim'[b]
    <3> SUFFICES ASSUME ~onText', NEW b \in Axes PROVE list[b].num = aim'[b]
      OBVIOUS
    <3>1. raw[b].num = Aimed[b]
      BY <1>1, <2>2, <2>9 DEF ArmAims
    <3>2. aim'[b] = IF b = a THEN Aimed[b] + amount ELSE Aimed[b]
      BY <2>2, ZenonT(40)
    <3>3. CASE b = a
      BY <2>6, <2>9, <3>1, <3>2, <3>3
    <3>4. CASE b # a
      BY <2>5, <3>1, <3>2, <3>4
    <3>5. QED
      BY <3>3, <3>4, ZenonT(40)
  <2>11. \A b \in Axes : IsJoint(list[b])
    BY <2>4, <2>5, <2>6
  <2>12. crossed' \in BOOLEAN
    BY <1>2, <2>2
  <2>13. QED
    BY <1>1, <2>2, <2>8, <2>9, <2>10, <2>11, <2>12, JointsKeepArm, ZenonT(40)
<1>6. CASE \E amount \in Amounts : ArmEndPositionInc(amount)
  <2>1. PICK amount \in Amounts : ArmEndPositionInc(amount)
    BY <1>6
  <2> DEFINE to == To(OrZero(raw[Pose]) + amount)
  <2>2. /\ Filled /\ SendMove("move", to, "step")
        /\ UNCHANGED <<raw, toggle, aim, onText, crossed>>
    BY <2>1 DEF ArmEndPositionInc, Step, Filled
  <2>3. OrZero(raw[Pose]) + amount \in Int
    BY <1>1, <2>2, ActuatorAssumption DEF ArmTyped, OrZero
  <2>4. to \in Targets
    BY <2>3 DEF To, Targets
  <2> HIDE DEF to
  <2>5. QED
    BY <1>2, <2>2, <2>4, OtherKeepsArm
<1>7. CASE ArmModifyAllDoEndPosition
  <2> DEFINE to == To(toggle[Pose].num)
  <2>1. /\ toggle # Null /\ toggle' = Null /\ SendMove("move", to, "step")
        /\ UNCHANGED <<raw, aim, onText, crossed>>
    BY <1>7 DEF ArmModifyAllDoEndPosition, Step
  <2>2. toggle[Pose].num \in Int
    BY <1>1, <2>1, ZenonT(40) DEF ArmTyped, ArmSlots, IsForm
  <2>3. to \in Targets
    BY <2>2 DEF To, Targets
  <2> HIDE DEF to
  <2>4. QED
    BY <1>2, <2>1, <2>3, OtherKeepsArm
<1>8. CASE ArmModifyAllDoJoint
  <2>1. /\ toggle # Null /\ toggle' = Null /\ MoveToJoints(toggle)
        /\ aim' = Nums(toggle) /\ onText' = FALSE /\ crossed' = crossed
    BY <1>8 DEF ArmModifyAllDoJoint
  <2>2. Filled /\ \A a \in Axes : IsForm(toggle[a])
    BY <1>1, <2>1 DEF ArmTyped, ArmSlots, Filled
  <2>3. \A a \in Axes : IsJoint(toggle[a])
    BY <2>2, ZenonT(40) DEF IsForm, IsJoint
  <2>4. aim' \in [Axes -> Int] /\ \A a \in Axes : toggle[a].num = aim'[a]
    BY <2>1, <2>2, ZenonT(40) DEF Nums, IsForm
  <2>5. onText' \in BOOLEAN /\ crossed' \in BOOLEAN
    BY <1>2, <2>1, ZenonT(40)
  <2>6. QED
    BY <1>1, <2>1, <2>2, <2>3, <2>4, <2>5, JointsKeepArm, ZenonT(40)
<1>9. CASE \/ ArmModifyAll \/ ArmModifyAllCancel
           \/ \E s \in Edited, n \in Typed : EditPiece(s, n)
  <2>1. UNCHANGED <<actuator, status, raw, moves, moved, place, goal, moveHist>>
    BY <1>9 DEF ArmModifyAll, ArmModifyAllCancel, EditPiece, motion
  <2>2. toggle' # Null => /\ Filled /\ toggle' = [s \in ArmSlots |-> toggle'[s]]
                          /\ \A s \in ArmSlots : IsForm(toggle'[s])
    <3>1. CASE ArmModifyAll
      <4>1. Filled /\ toggle' = [s \in ArmSlots |-> [num |-> status[s], text |-> FALSE]]
        BY <1>1, <3>1, SlotsOfArm DEF ArmModifyAll, Num, Filled
      <4>2. \A s \in ArmSlots : status[s] \in Int
        BY <1>1, <4>1 DEF ArmTyped
      <4>3. QED
        BY <4>1, <4>2, ZenonT(40) DEF IsForm
    <3>2. CASE ArmModifyAllCancel
      BY <3>2 DEF ArmModifyAllCancel
    <3>3. CASE \E s \in Edited, n \in Typed : EditPiece(s, n)
      <4>1. PICK r \in Edited, n \in Typed : EditPiece(r, n)
        BY <3>3
      <4>2. toggle # Null /\ toggle' = [toggle EXCEPT ![r] = [num |-> n, text |-> TRUE]]
        BY <4>1 DEF EditPiece
      <4>3. /\ Filled /\ toggle = [s \in ArmSlots |-> toggle[s]]
            /\ \A s \in ArmSlots : IsForm(toggle[s])
        BY <1>1, <4>2 DEF ArmTyped, Filled
      <4>4. n \in Int
        BY ActuatorAssumption
      <4>5. IsForm([num |-> n, text |-> TRUE])
        BY <4>4 DEF IsForm
      <4>6. /\ toggle' = [s \in ArmSlots |-> toggle'[s]]
            /\ \A s \in ArmSlots : toggle'[s] = [num |-> n, text |-> TRUE] \/ toggle'[s] = toggle[s]
        BY <4>2, <4>3, ZenonT(40)
      <4>7. QED
        BY <4>3, <4>5, <4>6, ZenonT(40)
    <3>4. QED
      BY <1>9, <3>1, <3>2, <3>3
  <2>3. ArmTyped' /\ (Filled' => Filled)
    BY <1>1, <2>1, <2>2 DEF ArmTyped, moveHist, Filled
  <2>4. Ahead' = Ahead /\ Aimed' = Aimed
    BY <2>1 DEF Ahead, Slots, Aimed, moveHist
  <2>5. ArmAims'
    BY <1>1, <2>1, <2>3, <2>4, ZenonT(40) DEF ArmAims, moveHist
  <2>6. QED
    BY <1>1, <2>1, <2>3, <2>5 DEF ArmInv, moveHist
<1>10. QED
  BY <1>3, <1>4, <1>5, <1>6, <1>7, <1>8, <1>9 DEF ArmStep

LEMMA RobotKeepsArm ==
  ASSUME ArmInv, StopInv,
         Arrive \/ \E c \in moves : ServeMove(c) \/ LoseMove(c)
  PROVE  ArmInv'
<1>1. CASE Arrive
  <2>1. /\ place' = Ahead /\ goal' = [op |-> goal.op, to |-> Hold]
        /\ UNCHANGED <<actuator, status, raw, toggle, moves, moved, moveHist>>
    BY <1>1 DEF Arrive, actuatorPage, StopInv
  <2>2. goal'.to = Hold /\ DOMAIN goal'.to = {}
    BY <2>1 DEF Hold
  <2>3. Slots' = Slots
    BY <2>1 DEF Slots
  <2>4. Ahead' = Ahead
    BY <2>1, <2>2, <2>3, ZenonT(40) DEF Ahead
  <2>5. actuator = "arm" => place' \in [ArmSlots -> Int]
    BY <2>1, SlotsOfArm DEF ArmInv, ArmTyped, Ahead, Targets, Hold
  <2>6. Aimed' = Aimed
    BY <2>1 DEF Aimed, moveHist
  <2>7. actuator = "arm" => ArmTyped'
    BY <2>1, <2>2, <2>5, ZenonT(40) DEF ArmInv, ArmTyped, Targets, moveHist, Filled
  <2>8. actuator = "arm" => ArmAims'
    BY <2>1, <2>4, <2>6, ZenonT(40) DEF ArmInv, ArmAims, moveHist, Filled
  <2>9. QED
    BY <2>1, <2>7, <2>8 DEF ArmInv, moveHist
<1>2. CASE \E c \in moves : ServeMove(c)
  <2>1. PICK c \in moves : ServeMove(c)
    BY <1>2
  <2>2. /\ moves' = moves \ {c} /\ moveServed' = c.n
        /\ goal' = IF \E s \in DOMAIN c.to : c.to[s] = NaN THEN goal
                   ELSE [op |-> c.op, to |-> Goal(c)]
        /\ UNCHANGED <<actuator, status, raw, toggle, moved, place, aim, last, onText, crossed>>
    BY <2>1, ZenonT(40) DEF ServeMove, actuatorPage
  <2>3. moveServed' \in 0 .. moved' /\ \A d \in moves' : d.n \in 1 .. moved'
    BY <2>2 DEF ArmInv
  <2>4. ASSUME actuator = "arm" PROVE ArmTyped' /\ ArmAims'
    <3>1. ArmTyped /\ ArmAims
      BY <2>4 DEF ArmInv
    <3>2. c.op \in {"move", "stop"} /\ c.to \in Targets \cup [Axes -> Int \cup {NaN}]
      BY <3>1 DEF ArmTyped
    <3>3. Goal(c) = c.to
      BY <3>2 DEF Goal, StopInv
    <3>4. (\A s \in DOMAIN c.to : c.to[s] # NaN) => c.to \in Targets
      BY <3>2 DEF Targets
    <3>5. goal'.to \in Targets
      BY <2>2, <3>1, <3>3, <3>4 DEF ArmTyped
    <3>6. ArmTyped'
      BY <2>2, <3>1, <3>5, ZenonT(40) DEF ArmTyped, Filled
    <3>7. ASSUME last = "joints", aim # Null, ~onText, c.n = moved
          PROVE  \A a \in Axes : Ahead'[a] = aim[a]
      <4>1. c.to = aim /\ aim \in [Axes -> Int]
        BY <3>1, <3>7 DEF ArmTyped, ArmAims
      <4>2. \A s \in DOMAIN c.to : c.to[s] # NaN
        BY <4>1, NoNumber, ZenonT(40)
      <4>3. goal' = [op |-> c.op, to |-> c.to]
        BY <2>2, <3>3, <4>2
      <4>4. goal'.to = aim
        BY <4>1, <4>3, ZenonT(40)
      <4>5. Slots' = ArmSlots
        BY <2>2, <2>4, SlotsOfArm DEF Slots
      <4>6. QED
        BY <4>1, <4>4, <4>5, ZenonT(40) DEF Ahead, ArmSlots
    <3>8. Aimed' = Aimed
      BY <2>2 DEF Aimed
    <3>9. ArmAims'
      BY <2>2, <3>1, <3>7, <3>8, ZenonT(40) DEF ArmAims, Filled
    <3>10. QED
      BY <3>6, <3>9
  <2>5. QED
    BY <2>2, <2>3, <2>4 DEF ArmInv
<1>3. CASE \E c \in moves : LoseMove(c)
  <2>1. PICK c \in moves : LoseMove(c)
    BY <1>3
  <2>2. /\ moves' = moves \ {c} /\ crossed' = (crossed \/ c.op = "stop")
        /\ UNCHANGED <<actuator, status, raw, toggle, moved, place, goal, aim, last, moveServed, onText>>
    BY <2>1 DEF LoseMove, actuatorPage, motion
  <2>3. crossed' \in BOOLEAN
    BY <2>2
  <2>4. Ahead' = Ahead /\ Aimed' = Aimed
    BY <2>2 DEF Ahead, Slots, Aimed
  <2>5. actuator = "arm" => ArmTyped' /\ ArmAims'
    BY <2>2, <2>4, ZenonT(40) DEF ArmInv, ArmTyped, ArmAims, Filled
  <2>6. QED
    BY <2>2, <2>3, <2>5 DEF ArmInv
<1>4. QED
  BY <1>1, <1>2, <1>3

LEMMA StatusKeepsArm ==
  ASSUME ArmInv, UpdateStatus
  PROVE  ArmInv'
<1>1. /\ raw' = Message /\ status' = FixRawStatus(Message) /\ aim' = Null /\ onText' = FALSE
      /\ UNCHANGED <<actuator, toggle, moves, moved, place, goal, last, moveServed, crossed>>
  BY DEF UpdateStatus, motion
<1>2. ASSUME actuator = "arm" PROVE ArmTyped' /\ ArmAims'
  <2>1. ArmTyped /\ Slots = ArmSlots
    BY <1>2, SlotsOfArm DEF ArmInv
  <2>2. raw' = [s \in ArmSlots |-> IF s = Pose /\ place[s] = 0 THEN Num(Null) ELSE Num(place[s])]
    BY <1>1, <2>1 DEF Message
  <2>3. \A a \in Axes : raw'[a] = Num(place[a]) /\ place[a] \in Int
    BY <2>1, <2>2, ActuatorAssumption DEF ArmSlots, Pose, ArmTyped
  <2>4. raw'[Pose].num \in {Null, place[Pose]} /\ place[Pose] \in Int
    BY <2>1, <2>2 DEF ArmSlots, Num, ArmTyped
  <2>5. \A n \in Int : Num(n).num = n /\ IsJoint(Num(n))
    <3>1. \A n : Num(n).num = n /\ Num(n).text = FALSE
      BY DEF Num
    <3>2. \A n : Num(n) = [num |-> Num(n).num, text |-> Num(n).text]
      BY DEF Num
    <3>3. \A n \in Int : n \in Int \cup {NaN}
      OBVIOUS
    <3>4. QED
      BY <3>1, <3>2, <3>3, ZenonT(40) DEF IsJoint
  <2>6. \A a \in Axes : IsJoint(raw'[a]) /\ raw'[a].num = place[a]
    BY <2>3, <2>5, Zenon
  <2>7. status' = [s \in ArmSlots |-> OrZero(raw'[s])]
    BY <1>1, <1>2, <2>1 DEF FixRawStatus, FixArmStatus
  <2>8. \A a \in Axes : OrZero(raw'[a]) = place[a]
    <3>1. \A a \in Axes : raw'[a].num # Null
      BY <2>3, <2>6, NoNumber, ZenonT(40)
    <3>2. QED
      BY <2>6, <3>1, Zenon DEF OrZero
  <2>9. OrZero(raw'[Pose]) \in Int
    BY <2>4 DEF OrZero
  <2>10. \A s \in ArmSlots : OrZero(raw'[s]) \in Int
    BY <2>3, <2>8, <2>9, Zenon DEF ArmSlots
  <2>11. status' \in [ArmSlots -> Int] /\ \A a \in Axes : status'[a] = raw'[a].num
    BY <2>6, <2>7, <2>8, <2>10, Zenon DEF ArmSlots
  <2>12. raw' = [s \in ArmSlots |-> raw'[s]]
    BY <2>2, ZenonT(40)
  <2>13. ArmTyped'
    BY <1>1, <2>1, <2>4, <2>6, <2>11, <2>12, ZenonT(40) DEF ArmTyped
  <2>14. QED
    BY <1>1, <2>11, <2>13, ZenonT(40) DEF ArmAims, Aimed
<1>3. QED
  BY <1>1, <1>2, ZenonT(40) DEF ArmInv

LEMMA ActuatorStep ==
  ArmInv /\ StopInv /\ [ActuatorNext]_actuatorVars => ArmInv' /\ StopInv'
<1> SUFFICES ASSUME ArmInv, StopInv, [ActuatorNext]_actuatorVars PROVE ArmInv' /\ StopInv'
  OBVIOUS
<1>1. StopInv'
  BY StopStep DEF ArmInv
<1>2. CASE ArmStep
  BY <1>1, <1>2, ArmButtons
<1>3. CASE Arrive \/ \E c \in moves : ServeMove(c) \/ LoseMove(c)
  BY <1>1, <1>3, RobotKeepsArm
<1>4. CASE UpdateStatus
  BY <1>1, <1>4, StatusKeepsArm
<1>5. CASE \/ \E amount \in Amounts : ServoMove(amount) \/ \E a \in Axes : GantryIncrement(a, amount)
           \/ GripperOpen \/ GripperGrab \/ MotorRun
  <2>1. /\ actuator # "arm" /\ UNCHANGED <<raw, aim, onText, toggle, crossed>>
        /\ \E op, to, button : SendMove(op, to, button) /\ button # "joints"
    <3>1. actuator # "arm"
      BY <1>5, ZenonT(40) DEF ServoMove, GantryIncrement, GripperOpen, GripperGrab, MotorRun
    <3>2. (toggle' = toggle /\ \E to, at : Step(to, at)) \/ \E op, to : Move(op, to)
      BY <1>5, ZenonT(40) DEF ServoMove, GantryIncrement, GripperOpen, GripperGrab, MotorRun, SetPower,
                              GoFor, GoTo
    <3>3. CASE toggle' = toggle /\ \E to, at : Step(to, at)
      <4>1. PICK to, at : Step(to, at)
        BY <3>3
      <4>2. SendMove("move", to, "step") /\ UNCHANGED <<raw, aim, onText, crossed>>
        BY <4>1 DEF Step
      <4>3. QED
        BY <3>1, <3>3, <4>2
    <3>4. CASE \E op, to : Move(op, to)
      BY <3>1, <3>4 DEF Move
    <3>5. QED
      BY <3>2, <3>3, <3>4
  <2>2. QED
    BY <1>1, <2>1, OtherKeepsArm, ZenonT(40) DEF ArmInv
<1>6. CASE GantryStop \/ ServoStop \/ GripperStop \/ MotorStop
  <2>1. actuator # "arm" /\ Stop
    BY <1>6 DEF GantryStop, ServoStop, GripperStop, MotorStop
  <2>2. /\ UNCHANGED <<raw, aim, onText, toggle>> /\ crossed' = (moves # {})
        /\ SendMove("stop", Hold, "stop")
    BY <2>1 DEF Stop
  <2>3. crossed' \in BOOLEAN
    BY <2>2
  <2>4. QED
    BY <1>1, <2>1, <2>2, <2>3, OtherKeepsArm
<1>7. CASE \/ StatusThrows \/ UNCHANGED actuatorVars
           \/ \E value \in DOMAIN Types : SetMovementType(value)
           \/ \E d \in {1, -1} : SetDirection(d)
  <2>1. UNCHANGED <<actuator, status, raw, toggle, moves, moved, place, goal, moveHist>>
    BY <1>7, ZenonT(40) DEF StatusThrows, SetMovementType, SetDirection, actuatorVars, actuatorPage, motion
  <2>2. Ahead' = Ahead /\ Aimed' = Aimed /\ Filled' = Filled
    BY <2>1 DEF Ahead, Slots, Aimed, Filled, moveHist
  <2>3. ArmTyped => ArmTyped'
    BY <2>1, <2>2, ZenonT(40) DEF ArmTyped, moveHist
  <2>4. ArmAims => ArmAims'
    BY <2>1, <2>2, ZenonT(40) DEF ArmAims, moveHist
  <2>5. QED
    BY <1>1, <2>1, <2>3, <2>4 DEF ArmInv, moveHist
<1>8. QED
  BY <1>1, <1>2, <1>3, <1>4, <1>5, <1>6, <1>7 DEF ActuatorNext

-----------------------------------------------------------------------------
(* Clicks on a position.                                                   *)

Steppers == {"arm", "gantry", "servo"}

\* Positions are numbers, and the raw status agrees with the one shown.
StepTyped ==
  /\ place \in [Slots -> Int] /\ goal.to \in Targets
  /\ \A c \in moves : /\ c.op \in {"move", "stop"}
                      /\ c.to \in Targets \cup [Axes -> Int \cup {NaN}]
  /\ status # Null => /\ status \in [Slots -> Int]
                      /\ Pose \in Slots => OrZero(raw[Pose]) = status[Pose]

\* The newest call, if it is the first click on a position, asks for the spot,
\* and that call makes the part go there.
StepAims ==
  (last = "step" /\ steps = 1) =>
    /\ \A s \in StepSlots : spot[s] \in Int
    /\ \A c \in moves : c.n = moved => c.op = "move" /\ c.to = [s \in StepSlots |-> spot[s]]
    /\ moveServed = moved => \A s \in StepSlots : Ahead[s] = spot[s]

StepInv ==
  /\ steps \in Nat
  /\ actuator \in Steppers => StepTyped /\ StepAims
  /\ actuator \notin Steppers => last # "step"

\* A button other than a click on a position.
LEMMA OtherKeepsStep ==
  ASSUME ArmInv, StepInv, NEW op, NEW to, NEW button, SendMove(op, to, button), button # "step",
         actuator \in Steppers => /\ op \in {"move", "stop"}
                                  /\ to \in Targets \cup [Axes -> Int \cup {NaN}],
         Pose \in Slots => raw'[Pose] = raw[Pose], UNCHANGED stepHist
  PROVE  StepInv'
<1> DEFINE call == [n |-> moved + 1, op |-> op, to |-> to]
<1>1. /\ moves' = moves \cup {call} /\ last' # "step"
      /\ UNCHANGED <<actuator, status, place, goal, steps>>
  BY DEF SendMove, motion, stepHist
<1>2. call.op = op /\ call.to = to
  OBVIOUS
<1> HIDE DEF call
<1>3. Slots' = Slots
  BY <1>1 DEF Slots
<1>4. actuator \in Steppers => StepTyped'
  BY <1>1, <1>2, <1>3, ZenonT(40) DEF StepInv, StepTyped, OrZero
<1>5. QED
  BY <1>1, <1>4 DEF StepInv, StepAims

\* A click on a position.
LEMMA StepKeepsStep ==
  ASSUME ArmInv, StepInv, actuator \in Steppers, NEW to \in Targets, NEW at, Step(to, at),
         steps = 0 => /\ \A s \in StepSlots : at[s] \in Int
                      /\ to = [s \in StepSlots |-> at[s]]
  PROVE  StepInv'
<1> DEFINE call == [n |-> moved + 1, op |-> "move", to |-> to]
<1>1. /\ moves' = moves \cup {call} /\ moved' = moved + 1 /\ spot' = at /\ steps' = steps + 1
      /\ UNCHANGED <<actuator, status, raw, place, goal, moveServed>>
  BY DEF Step, SendMove, motion
<1>2. call.n = moved + 1 /\ call.op = "move" /\ call.to = to
  OBVIOUS
<1> HIDE DEF call
<1>3. /\ moved' \in Nat /\ moveServed' # moved' /\ \A c \in moves : c.n # moved'
      /\ steps' \in Nat /\ (steps' = 1 => steps = 0)
  BY <1>1 DEF ArmInv, StepInv
<1>4. Slots' = Slots /\ StepSlots' = StepSlots
  BY <1>1 DEF Slots, StepSlots
<1>5. StepTyped'
  BY <1>1, <1>2, <1>4, ZenonT(40) DEF StepInv, StepTyped, OrZero
<1>6. StepAims'
  <2> SUFFICES ASSUME steps = 0
               PROVE  /\ \A s \in StepSlots' : spot'[s] \in Int
                      /\ \A c \in moves' : c.n = moved' =>
                           c.op = "move" /\ c.to = [s \in StepSlots' |-> spot'[s]]
    BY <1>3, ZenonT(40) DEF StepAims
  <2>1. \A c \in moves' : c.n = moved' => c = call
    BY <1>1, <1>3
  <2>2. QED
    BY <1>1, <1>2, <1>4, <2>1, ZenonT(40)
<1>7. QED
  BY <1>1, <1>3, <1>5, <1>6 DEF StepInv

\* Where clicks on a position start from.
LEMMA SpotAtFirst ==
  ASSUME StepInv, actuator \in Steppers, status # Null
  PROVE  /\ status \in [Slots -> Int] /\ (steps = 0 => Spot = status)
         /\ Pose \in Slots => OrZero(raw[Pose]) = status[Pose]
BY DEF StepInv, StepTyped, Spot

LEMMA PoseClick ==
  ASSUME ArmInv, StepInv, actuator \in {"arm", "servo"}, NEW n \in Int, NEW at,
         Step(To(n), at), steps = 0 => at[Pose] = n
  PROVE  StepInv'
<1>1. StepSlots = {Pose} /\ actuator \in Steppers
  BY DEF StepSlots, Slots, Steppers
<1>2. To(n) \in Targets
  BY DEF To, Targets
<1>3. steps = 0 => /\ \A s \in StepSlots : at[s] \in Int
                   /\ To(n) = [s \in StepSlots |-> at[s]]
  BY <1>1 DEF To
<1>4. QED
  BY <1>1, <1>2, <1>3, StepKeepsStep

LEMMA PositionButtons ==
  ASSUME ArmInv, StepInv,
         \/ ArmModifyAllDoEndPosition
         \/ \E amount \in Amounts : \/ ArmEndPositionInc(amount) \/ ServoMove(amount)
                                    \/ \E a \in Axes : GantryIncrement(a, amount)
  PROVE  StepInv'
<1>1. CASE ArmModifyAllDoEndPosition
  <2> DEFINE n  == toggle[Pose].num
             at == [Spot EXCEPT ![Pose] = n]
  <2>1. toggle # Null /\ Step(To(n), at) /\ actuator = "arm"
    BY <1>1, ZenonT(40) DEF ArmModifyAllDoEndPosition, ArmInv
  <2>2. ArmTyped
    BY <2>1 DEF ArmInv
  <2>3. n \in Int /\ status \in [ArmSlots -> Int]
    BY <2>1, <2>2, ZenonT(40) DEF ArmTyped, ArmSlots, IsForm, Filled
  <2>4. steps = 0 => at[Pose] = n
    BY <2>3 DEF Spot, ArmSlots
  <2> HIDE DEF n, at
  <2>5. QED
    BY <2>1, <2>3, <2>4, PoseClick
<1>2. CASE \E amount \in Amounts : ArmEndPositionInc(amount) \/ ServoMove(amount)
  <2>1. PICK amount \in Amounts : ArmEndPositionInc(amount) \/ ServoMove(amount)
    BY <1>2
  <2> DEFINE n  == OrZero(raw[Pose]) + amount
             at == [Spot EXCEPT ![Pose] = @ + amount]
  <2>2. status # Null /\ Step(To(n), at) /\ actuator \in {"arm", "servo"}
    BY <2>1 DEF ArmEndPositionInc, ServoMove
  <2>3. Pose \in Slots /\ actuator \in Steppers /\ amount \in Int
    BY <2>2, ActuatorAssumption DEF Slots, Steppers
  <2>4. /\ status \in [Slots -> Int] /\ (steps = 0 => Spot = status)
        /\ OrZero(raw[Pose]) = status[Pose]
    BY <2>2, <2>3, SpotAtFirst
  <2>5. n \in Int /\ (steps = 0 => at[Pose] = n)
    BY <2>3, <2>4
  <2> HIDE DEF n, at
  <2>6. QED
    BY <2>2, <2>5, PoseClick
<1>3. CASE \E amount \in Amounts, a \in Axes : GantryIncrement(a, amount)
  <2>1. PICK amount \in Amounts, a \in Axes : GantryIncrement(a, amount)
    BY <1>3
  <2> DEFINE to == [status EXCEPT ![a] = @ + amount]
             at == [Spot EXCEPT ![a] = @ + amount]
  <2>2. status # Null /\ Step(to, at) /\ actuator = "gantry"
    BY <2>1 DEF GantryIncrement
  <2>3. StepSlots = Axes /\ Slots = Axes /\ actuator \in Steppers /\ amount \in Int
    BY <2>2, ActuatorAssumption DEF StepSlots, Slots, Steppers
  <2>4. status \in [Axes -> Int] /\ (steps = 0 => Spot = status)
    BY <2>2, <2>3, SpotAtFirst
  <2>5. to \in [Axes -> Int] /\ (steps = 0 => at = to)
    <3>1. to \in [Axes -> Int]
      BY <2>3, <2>4
    <3>2. steps = 0 => at = to
      BY <2>4, ZenonT(40)
    <3>3. QED
      BY <3>1, <3>2
  <2> HIDE DEF to, at
  <2>6. to \in Targets
    BY <2>5 DEF Targets
  <2>7. steps = 0 => /\ \A s \in StepSlots : at[s] \in Int
                     /\ to = [s \in StepSlots |-> at[s]]
    BY <2>3, <2>5
  <2>8. QED
    BY <2>2, <2>3, <2>6, <2>7, StepKeepsStep
<1>4. QED
  BY <1>1, <1>2, <1>3

LEMMA RobotKeepsStep ==
  ASSUME ArmInv, StopInv, StepInv,
         Arrive \/ \E c \in moves : ServeMove(c) \/ LoseMove(c)
  PROVE  StepInv'
<1>1. CASE Arrive
  <2>1. /\ place' = Ahead /\ goal' = [op |-> goal.op, to |-> Hold]
        /\ UNCHANGED <<actuator, status, raw, moves, moved, last, moveServed, spot, steps>>
    BY <1>1 DEF Arrive, actuatorPage, StopInv, moveHist, stepHist
  <2>2. goal'.to = Hold /\ DOMAIN goal'.to = {} /\ Hold \in Targets
    BY <2>1 DEF Hold, Targets
  <2>3. Slots' = Slots /\ StepSlots' = StepSlots
    BY <2>1 DEF Slots, StepSlots
  <2>4. Ahead' = Ahead
    BY <2>1, <2>2, <2>3, ZenonT(40) DEF Ahead
  <2>5. actuator \in Steppers => place' \in [Slots -> Int]
    BY <2>1 DEF StepInv, StepTyped, Ahead, Targets, Hold
  <2>6. actuator \in Steppers => StepTyped'
    BY <2>1, <2>2, <2>3, <2>5, ZenonT(40) DEF StepInv, StepTyped, OrZero
  <2>7. actuator \in Steppers => StepAims'
    BY <2>1, <2>3, <2>4, ZenonT(40) DEF StepInv, StepAims
  <2>8. QED
    BY <2>1, <2>6, <2>7 DEF StepInv
<1>2. CASE \E c \in moves : ServeMove(c)
  <2>1. PICK c \in moves : ServeMove(c)
    BY <1>2
  <2>2. /\ moves' = moves \ {c} /\ moveServed' = c.n
        /\ goal' = IF \E s \in DOMAIN c.to : c.to[s] = NaN THEN goal
                   ELSE [op |-> c.op, to |-> Goal(c)]
        /\ UNCHANGED <<actuator, status, raw, moved, place, last, spot, steps>>
    BY <2>1, ZenonT(40) DEF ServeMove, actuatorPage, stepHist
  <2>3. Slots' = Slots /\ StepSlots' = StepSlots
    BY <2>2 DEF Slots, StepSlots
  <2>4. ASSUME actuator \in Steppers PROVE StepTyped' /\ StepAims'
    <3>1. StepTyped /\ StepAims
      BY <2>4 DEF StepInv
    <3>2. c.op \in {"move", "stop"} /\ c.to \in Targets \cup [Axes -> Int \cup {NaN}]
      BY <3>1 DEF StepTyped
    <3>3. Goal(c) = c.to
      BY <3>2 DEF Goal, StopInv
    <3>4. (\A s \in DOMAIN c.to : c.to[s] # NaN) => c.to \in Targets
      BY <3>2 DEF Targets
    <3>5. goal'.to \in Targets
      BY <2>2, <3>1, <3>3, <3>4 DEF StepTyped
    <3>6. StepTyped'
      BY <2>2, <2>3, <3>1, <3>5, ZenonT(40) DEF StepTyped, OrZero
    <3>7. ASSUME last = "step", steps = 1, c.n = moved
          PROVE  \A s \in StepSlots : Ahead'[s] = spot[s]
      <4>1. c.to = [s \in StepSlots |-> spot[s]] /\ \A s \in StepSlots : spot[s] \in Int
        BY <3>1, <3>7 DEF StepAims
      <4>2. \A s \in DOMAIN c.to : c.to[s] # NaN
        BY <4>1, NoNumber, ZenonT(40)
      <4>3. goal' = [op |-> c.op, to |-> c.to]
        BY <2>2, <3>3, <4>2
      <4>4. goal'.to = [s \in StepSlots |-> spot[s]]
        BY <4>1, <4>3, ZenonT(40)
      <4>5. StepSlots \subseteq Slots'
        BY <2>3 DEF StepSlots, Slots
      <4>6. QED
        BY <4>4, <4>5, ZenonT(40) DEF Ahead
    <3>8. StepAims'
      BY <2>2, <2>3, <3>1, <3>7, ZenonT(40) DEF StepAims
    <3>9. QED
      BY <3>6, <3>8
  <2>5. QED
    BY <2>2, <2>4 DEF StepInv
<1>3. CASE \E c \in moves : LoseMove(c)
  <2>1. PICK c \in moves : LoseMove(c)
    BY <1>3
  <2>2. /\ moves' = moves \ {c}
        /\ UNCHANGED <<actuator, status, raw, moved, place, goal, last, moveServed, spot, steps>>
    BY <2>1 DEF LoseMove, actuatorPage, motion, stepHist
  <2>3. Slots' = Slots /\ StepSlots' = StepSlots /\ Ahead' = Ahead
    BY <2>2 DEF Slots, StepSlots, Ahead
  <2>4. actuator \in Steppers => StepTyped' /\ StepAims'
    BY <2>2, <2>3, ZenonT(40) DEF StepInv, StepTyped, StepAims, OrZero
  <2>5. QED
    BY <2>2, <2>4 DEF StepInv
<1>4. QED
  BY <1>1, <1>2, <1>3

LEMMA StatusKeepsStep ==
  ASSUME ArmInv, StepInv, UpdateStatus
  PROVE  StepInv'
<1>1. /\ raw' = Message /\ status' = FixRawStatus(Message) /\ steps' = 0
      /\ UNCHANGED <<actuator, moves, place, goal, last>>
  BY DEF UpdateStatus, motion
<1>2. Slots' = Slots
  BY <1>1 DEF Slots
<1>3. \A n : Num(n).num = n
  BY DEF Num
<1>4. ASSUME actuator \in Steppers PROVE StepTyped'
  <2>1. StepTyped /\ Null \notin Int
    BY <1>4, NoNumber DEF StepInv
  <2>2. \A s \in Slots : place[s] \in Int /\ place[s] # Null
    BY <2>1, ZenonT(40) DEF StepTyped
  <2>3. \A s \in Slots : OrZero(raw'[s]) = place[s]
    <3> SUFFICES ASSUME NEW s \in Slots PROVE OrZero(raw'[s]) = place[s]
      BY ZenonT(40)
    <3>1. raw'[s] = IF s = Pose /\ place[s] = 0 THEN Num(Null) ELSE Num(place[s])
      BY <1>1 DEF Message
    <3>2. QED
      BY <1>3, <2>2, <3>1, ZenonT(40) DEF OrZero
  <2>4. status' = place
    <3>1. CASE actuator = "arm"
      <4>1. status' = [s \in Slots |-> OrZero(raw'[s])]
        BY <1>1, <3>1 DEF FixRawStatus, FixArmStatus
      <4>2. QED
        BY <2>1, <2>3, <4>1 DEF StepTyped
    <3>2. CASE actuator = "gantry"
      <4>1. status' = [s \in Slots |-> raw'[s].num] /\ Pose \notin Slots
        BY <1>1, <3>2, ActuatorAssumption DEF FixRawStatus, FixGantryStatus, Slots, Pose
      <4>2. \A s \in Slots : raw'[s] = Num(place[s])
        BY <1>1, <4>1 DEF Message
      <4>3. QED
        BY <1>3, <2>1, <4>1, <4>2 DEF StepTyped
    <3>3. CASE actuator = "servo"
      <4>1. status' = [s \in {Pose} |-> OrZero(raw'[Pose])] /\ Slots = {Pose}
        BY <1>1, <3>3 DEF FixRawStatus, FixPoseStatus, Slots, To
      <4>2. QED
        BY <2>1, <2>3, <4>1 DEF StepTyped
    <3>4. QED
      BY <1>4, <3>1, <3>2, <3>3 DEF Steppers
  <2>5. QED
    BY <1>1, <1>2, <2>1, <2>3, <2>4, ZenonT(40) DEF StepTyped
<1>5. steps' \in Nat /\ steps' # 1
  BY <1>1
<1>6. QED
  BY <1>1, <1>4, <1>5 DEF StepInv, StepAims

LEMMA StepStep ==
  ArmInv /\ StopInv /\ StepInv /\ [ActuatorNext]_actuatorVars => StepInv'
<1> SUFFICES ASSUME ArmInv, StopInv, StepInv, [ActuatorNext]_actuatorVars PROVE StepInv'
  OBVIOUS
<1>1. CASE \/ ArmModifyAllDoEndPosition
           \/ \E amount \in Amounts : \/ ArmEndPositionInc(amount) \/ ServoMove(amount)
                                      \/ \E a \in Axes : GantryIncrement(a, amount)
  BY <1>1, PositionButtons
<1>2. CASE \/ ArmHome \/ ArmModifyAllDoJoint
           \/ \E a \in Axes, amount \in Amounts : ArmJointInc(a, amount)
  <2>1. PICK list : MoveToJoints(list)
    BY <1>2 DEF ArmHome, ArmModifyAllDoJoint, ArmJointInc
  <2>2. actuator = "arm"
    BY <1>2 DEF ArmHome, ArmModifyAllDoJoint, ArmJointInc, ArmInv
  <2>3. /\ SendMove("move", Nums(list), "joints") /\ UNCHANGED stepHist
        /\ raw' = [s \in Slots |-> IF s \in Axes THEN list[s] ELSE raw[s]]
    BY <2>1 DEF MoveToJoints
  <2>4. ArmInv'
    BY <1>2, ArmButtons DEF ArmStep
  <2>5. Nums(list) \in Targets \cup [Axes -> Int \cup {NaN}]
    <3>1. [n |-> moved + 1, op |-> "move", to |-> Nums(list)] \in moves'
      BY <2>3 DEF SendMove
    <3>2. ArmTyped'
      BY <2>2, <2>3, <2>4 DEF ArmInv, SendMove
    <3>3. QED
      BY <3>1, <3>2 DEF ArmTyped
  <2>6. Pose \in Slots => raw'[Pose] = raw[Pose]
    BY <2>3, ActuatorAssumption DEF Pose
  <2>7. QED
    BY <2>3, <2>5, <2>6, OtherKeepsStep
<1>3. CASE ArmStop \/ GantryStop \/ ServoStop \/ GripperStop \/ MotorStop
  <2>1. SendMove("stop", Hold, "stop") /\ UNCHANGED <<raw, stepHist>>
    BY <1>3 DEF ArmStop, GantryStop, ServoStop, GripperStop, MotorStop, Stop
  <2>2. Hold \in Targets
    BY DEF Targets
  <2>3. QED
    BY <2>1, <2>2, OtherKeepsStep
<1>4. CASE GripperOpen \/ GripperGrab \/ MotorRun
  <2>1. actuator \notin Steppers /\ \E op, to : Move(op, to)
    BY <1>4 DEF GripperOpen, GripperGrab, MotorRun, SetPower, GoFor, GoTo, Steppers
  <2>2. \E op, to : SendMove(op, to, "other") /\ UNCHANGED <<raw, stepHist>>
    BY <2>1 DEF Move
  <2>3. QED
    BY <2>1, <2>2, OtherKeepsStep
<1>5. CASE Arrive \/ \E c \in moves : ServeMove(c) \/ LoseMove(c)
  BY <1>5, RobotKeepsStep
<1>6. CASE UpdateStatus
  BY <1>6, StatusKeepsStep
<1>7. CASE \/ ArmModifyAll \/ ArmModifyAllCancel \/ StatusThrows \/ UNCHANGED actuatorVars
           \/ \E s \in Edited, n \in Typed : EditPiece(s, n)
           \/ \E value \in DOMAIN Types : SetMovementType(value)
           \/ \E d \in {1, -1} : SetDirection(d)
  <2>1. UNCHANGED <<actuator, status, raw, moves, moved, place, goal, last, moveServed, spot, steps>>
    BY <1>7, ZenonT(40) DEF ArmModifyAll, ArmModifyAllCancel, StatusThrows, EditPiece, SetMovementType,
                SetDirection, actuatorVars, actuatorPage, motion, moveHist, stepHist
  <2>2. Slots' = Slots /\ StepSlots' = StepSlots /\ Ahead' = Ahead
    BY <2>1 DEF Slots, StepSlots, Ahead
  <2>3. actuator \in Steppers => StepTyped' /\ StepAims'
    BY <2>1, <2>2, ZenonT(40) DEF StepInv, StepTyped, StepAims, OrZero
  <2>4. QED
    BY <2>1, <2>3 DEF StepInv
<1>8. QED
  BY <1>1, <1>2, <1>3, <1>4, <1>5, <1>6, <1>7, ZenonT(40) DEF ActuatorNext, ArmStep

\* However calls overtake each other, fail, and statuses come between clicks:
\* joint clicks add up to where the arm goes, the first click on a position
\* after a status does what it says, and STOP with nothing under way leaves the
\* part at rest (arm.vue, gantry.vue, servo.vue, gripper.vue,
\* motor-detail.vue).
THEOREM ButtonsAreObeyed == ActuatorSpec => []ButtonsObeyed
<1>1. ActuatorInit => ArmInv /\ StopInv /\ StepInv
  <2> SUFFICES ASSUME ActuatorInit PROVE ArmInv /\ StopInv /\ StepInv
    OBVIOUS
  <2>1. actuator = "arm" => place \in [ArmSlots -> Int]
    BY SlotsOfArm DEF ActuatorInit
  <2>2. goal.to = Hold /\ goal = [op |-> goal.op, to |-> goal.to]
    BY DEF ActuatorInit
  <2>3. actuator = "arm" => ArmTyped /\ ArmAims
    BY <2>1, <2>2, ZenonT(40) DEF ActuatorInit, ArmTyped, ArmAims, Filled, Targets
  <2>4. moved \in Nat /\ moveServed \in 0 .. moved
    BY SMTT(40) DEF ActuatorInit
  <2>5. StopInv
    BY <2>2, Zenon DEF ActuatorInit, StopInv
  <2>6. steps \in Nat /\ place \in [Slots -> Int]
    BY DEF ActuatorInit
  <2>7. StepInv
    BY <2>2, <2>6, ZenonT(40) DEF ActuatorInit, StepInv, StepTyped, StepAims, Targets
  <2>8. QED
    BY <2>3, <2>4, <2>5, <2>7, Zenon DEF ActuatorInit, ArmInv
<1>2. ArmInv /\ StopInv /\ StepInv => ButtonsObeyed
  <2> SUFFICES ASSUME ArmInv, StopInv, StepInv PROVE ButtonsObeyed
    OBVIOUS
  <2>1. ClicksAddUp
    BY Zenon DEF ClicksAddUp, ArmInv, ArmAims
  <2>2. StopHolds
    BY DEF StopHolds, StopInv, InMotion
  <2>3. FirstStepMoves
    BY ZenonT(40) DEF FirstStepMoves, AtSpot, StepInv, StepAims
  <2>4. QED
    BY <2>1, <2>2, <2>3 DEF ButtonsObeyed
<1>3. QED
  BY <1>1, <1>2, ActuatorStep, StepStep, PTL DEF ActuatorSpec
=============================================================================
