---------------------------- MODULE RequestPanels ----------------------------
(***************************************************************************)
(* The panels that ask once for each click: components/do-command.vue,     *)
(* board.vue, sensors.vue and audio-input.vue (with lib/stream.ts).  They  *)
(* share nothing; a behaviour follows one of them.  Each call is served    *)
(* and answered in its own time.                                           *)
(***************************************************************************)
EXTENDS Naturals, TLC, JsValues

CONSTANTS
  Askers,  \* panels looked at: "do", "board", "sensors", "audio"
  Parts,   \* components of "do", pins of the board, names of the sensors
  MaxAsked \* bound: calls made

VARIABLES
  asker,     \* the panel of this behaviour
  part,      \* selectedComponent, getPin; Null is empty
  setPin,    \* setPin of the board
  input,     \* the command: Null, "json" or "text" that is no JSON
  executing, \* executing of do-command
  listening, \* audioInput
  shown,     \* output, getPinMessage, sensorReadings
  asked,     \* calls in flight; val is the answer once the robot made it, and
             \* since those of its parts that have changed after that (history)
  sent,      \* calls made
  level,     \* the robot: levels of pins, readings of sensors
  stream,    \* the robot: the audio stream is sent
  reachable, \* calls succeed
  edited,    \* history: the input held another pin when the message came
  changed    \* history: parts that have changed since what is shown was so

askPage  == <<asker, part, setPin, input, executing, listening>>
askRobot == <<level, stream, reachable>>
askHist  == <<edited, changed>>
askVars  == <<askPage, shown, asked, sent, askRobot, askHist>>

Levels == {"low", "high"}
AskOps == {"do", "get", "readings", "add", "remove"} \cup Levels

AskTypeOK ==
  /\ asker \in Askers /\ part \in Parts \cup {Null} /\ setPin \in Parts \cup {Null}
  /\ input \in {Null, "json", "text"} /\ executing \in BOOLEAN /\ listening \in BOOLEAN
  /\ level \in [Parts -> Levels] /\ stream \in BOOLEAN /\ reachable \in BOOLEAN
  /\ sent \in 0 .. MaxAsked
  /\ \A c \in asked : /\ c.n \in 1 .. sent /\ c.op \in AskOps
                      /\ c.of \subseteq Parts /\ c.since \subseteq Parts
  /\ edited \in BOOLEAN /\ changed \subseteq Parts

Ask(op, of) ==
  /\ sent < MaxAsked /\ sent' = sent + 1
  /\ asked' = asked \cup {[n |-> sent + 1, op |-> op, of |-> of, val |-> Null, since |-> {}]}

-----------------------------------------------------------------------------
(* do-command.vue.                                                         *)

\* The select is disabled while a command runs; the pin input never is.
ChoosePart(p) ==
  /\ asker \in {"do", "board"} /\ ~executing /\ part # p
  /\ part' = p
  /\ UNCHANGED <<asker, setPin, input, executing, listening, shown, asked, sent, askRobot, askHist>>

EditInput(text) ==
  /\ asker = "do" /\ input' = text
  /\ UNCHANGED <<asker, part, setPin, executing, listening, shown, asked, sent, askRobot, askHist>>

Ready == asker = "do" /\ ~executing /\ part # Null /\ input # Null

DoCommand_bug ==
  /\ Ready /\ executing' = TRUE
  /\ IF input = "json" THEN Ask("do", {part}) ELSE UNCHANGED <<asked, sent>>
  /\ UNCHANGED <<asker, part, setPin, input, listening, shown, askRobot, askHist>>

\* The button is disabled while a command runs; JSON.parse of what is no JSON
\* throws before anything is changed.
DoCommand ==
  /\ Ready /\ input = "json"
  /\ executing' = TRUE /\ Ask("do", {part})
  /\ UNCHANGED <<asker, part, setPin, input, listening, shown, askRobot, askHist>>

DoAnswer(c) ==
  /\ c.op = "do" /\ executing' = FALSE
  /\ shown' = IF c.val = Null THEN shown ELSE c.val
  /\ UNCHANGED askHist

-----------------------------------------------------------------------------
(* board.vue.                                                              *)

\* getGPIO; getPWM and getPWMFrequency differ in the words of the message.
\* Nothing keeps the pin from being empty.
GetGPIO ==
  /\ asker = "board" /\ Ask("get", {part} \ {Null})
  /\ UNCHANGED <<askPage, shown, askRobot, askHist>>

ChooseSetPin(p) ==
  /\ asker = "board" /\ setPin' = p
  /\ UNCHANGED <<asker, part, input, executing, listening, shown, asked, sent, askRobot, askHist>>

\* setGPIO; setPWM and setPWMFrequency likewise.
SetGPIO(l) ==
  /\ asker = "board" /\ Ask(l, {setPin} \ {Null})
  /\ UNCHANGED <<askPage, shown, askRobot, askHist>>

\* The message names the pin that the input holds now.
Named_bug == setPin
Named == part

\* What an answer brings is as old as the answer.
Aged(c) == (changed \ c.of) \cup c.since

GetAnswer(c) ==
  /\ c.op = "get"
  /\ IF c.val = Null THEN UNCHANGED <<shown, askHist>>
     ELSE /\ shown' = [pin |-> Named, val |-> c.val]
          /\ edited' = (part \notin c.of) /\ changed' = Aged(c)
  /\ UNCHANGED executing

SetAnswer(c) == c.op \in Levels /\ UNCHANGED <<shown, executing, askHist>>

-----------------------------------------------------------------------------
(* sensors.vue and audio-input.vue.                                        *)

\* getReadings for all the sensors or for one.
GetReadings(S) ==
  /\ asker = "sensors" /\ Ask("readings", S)
  /\ UNCHANGED <<askPage, shown, askRobot, askHist>>

\* The readings of an answer replace those of the same sensors.
Merged_bug(old, new) == old @@ new
Merged(old, new) ==
  [p \in DOMAIN new \cup DOMAIN old |-> IF p \in DOMAIN new THEN new[p] ELSE old[p]]

ReadingsAnswer(c) ==
  /\ c.op = "readings"
  /\ IF c.val = Null THEN UNCHANGED <<shown, changed>>
     ELSE /\ shown' = Merged(IF shown = Null THEN <<>> ELSE shown, c.val)
          /\ changed' = Aged(c)
  /\ UNCHANGED <<executing, edited>>

\* toggleExpand; an error leaves the switch as it is.
ToggleAudio ==
  /\ asker = "audio" /\ listening' = ~listening
  /\ Ask(IF listening' THEN "add" ELSE "remove", {})
  /\ UNCHANGED <<asker, part, setPin, input, executing, shown, askRobot, askHist>>

AudioAnswer(c) == c.op \in {"add", "remove"} /\ UNCHANGED <<shown, executing, askHist>>

-----------------------------------------------------------------------------
(* Calls and the robot.                                                    *)

\* The levels become new: answers made before, and what is shown, are older.
Become(new, calls) ==
  LET moved == {p \in Parts : new[p] # level[p]} IN
  /\ level' = new
  /\ asked' = {IF c.val = Null THEN c ELSE [c EXCEPT !.since = @ \cup (moved \cap c.of)] : c \in calls}
  /\ changed' = changed \cup moved

\* An input pin or a sensor changes.
WorldChanges(p) ==
  /\ asker \in {"board", "sensors"}
  /\ \E l \in Levels \ {level[p]} : Become([level EXCEPT ![p] = l], asked)
  /\ UNCHANGED <<askPage, shown, sent, stream, reachable, edited>>

\* The robot has no pin of the empty name.
NoPin(c) == c.op \in Levels \cup {"get"} /\ c.of = {}

Result(c) == IF c.op = "readings" THEN [p \in c.of |-> level[p]]
             ELSE IF c.op = "get" THEN level[CHOOSE p \in c.of : TRUE] ELSE "done"

Effect(c) == [p \in Parts |-> IF c.op \in Levels /\ p \in c.of THEN c.op ELSE level[p]]

ServeAsked(c) ==
  /\ reachable /\ c.val = Null /\ ~NoPin(c)
  /\ Become(Effect(c), (asked \ {c}) \cup {[c EXCEPT !.val = Result(c)]})
  /\ stream' = IF c.op \in {"add", "remove"} THEN c.op = "add" ELSE stream
  /\ UNCHANGED <<askPage, shown, sent, reachable, edited>>

\* The answer, or an error.
AnswerAsked(c) ==
  /\ c.val # Null \/ ~reachable \/ NoPin(c)
  /\ asked' = asked \ {c}
  /\ \/ DoAnswer(c) \/ GetAnswer(c) \/ SetAnswer(c) \/ ReadingsAnswer(c) \/ AudioAnswer(c)
  /\ UNCHANGED <<asker, part, setPin, input, listening, sent, askRobot>>

AskReachable ==
  /\ reachable' = ~reachable
  /\ UNCHANGED <<askPage, shown, asked, sent, level, stream, askHist>>

-----------------------------------------------------------------------------
AskInit ==
  /\ asker \in Askers /\ part = Null /\ setPin = Null /\ input = Null
  /\ executing = FALSE /\ listening = FALSE /\ shown = Null /\ asked = {} /\ sent = 0
  /\ level \in [Parts -> Levels] /\ stream = FALSE /\ reachable = TRUE
  /\ edited = FALSE /\ changed = {}

AskNext ==
  \/ DoCommand \/ GetGPIO \/ ToggleAudio \/ AskReachable
  \/ \E text \in {"json", "text"} : EditInput(text)
  \/ \E p \in Parts : ChoosePart(p) \/ ChooseSetPin(p) \/ GetReadings({p}) \/ WorldChanges(p)
  \/ \E l \in Levels : SetGPIO(l)
  \/ GetReadings(Parts)
  \/ \E c \in asked : ServeAsked(c) \/ AnswerAsked(c)

AskSpec == AskInit /\ [][AskNext]_askVars

\* A call is served and answered.
Of(n) == \E c \in asked : c.n = n /\ (ServeAsked(c) \/ AnswerAsked(c))

Fairness == \A n \in 1 .. MaxAsked : WF_askVars(Of(n))

-----------------------------------------------------------------------------
(* Properties.                                                             *)

\* "RUNNING..." turns back into "DO", whatever the input and however the call
\* ends (executing in doCommand).
DoButtonReturns == executing ~> ~executing

\* What the page shows of a pin or a sensor is how it is, for as long as that
\* has not changed since the robot answered.
ShownIsSo ==
  /\ (asker = "board" /\ shown # Null /\ shown.pin \notin changed) => shown.val = level[shown.pin]
  /\ (asker = "sensors" /\ shown # Null) => \A p \in DOMAIN shown \ changed : shown[p] = level[p]

\* This is so in whatever order calls are served and answered (getGPIO of
\* board.vue, getReadings of sensors.vue).  The exception is a message about a
\* pin that came when the input held another pin.
AnswersAreTrue == ~edited => ShownIsSo

\* Deviation: it is always so.  getPinMessage is put together from getPin when
\* the answer comes.
MessagesAlwaysTrue == ShownIsSo

\* Deviation: the audio stream is on exactly if the switch is once no call is
\* in flight.  toggleExpand neither waits for the call before nor looks at how
\* it ended.
AudioFollowsSwitch == asked = {} => stream = listening

=============================================================================
