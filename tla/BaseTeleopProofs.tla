-------------------------- MODULE BaseTeleopProofs --------------------------
(***************************************************************************)
(* Proofs about the base panel, for any keys, ids, settings and mounts.    *)
(*                                                                         *)
(* ReleasedMeansStopped is not inductive: it says nothing while calls are  *)
(* in flight.  Covered says what there is, while the base moves, to stop   *)
(* it later.  PressedIsHeld needs that a mount still to come has nothing   *)
(* pressed.                                                                *)
(***************************************************************************)
EXTENDS BaseTeleop, TLAPS

\* While the keys drive the base, a key is pressed, or a stop is on its way, or
\* a setPower whose callback is still to come will send one, or a stop was lost.
Covered ==
  KeyedOn => \/ \E i \in Mounts : pressed[i] # {}
             \/ \E c \in calls : c.op \in {"stop", "setPower"}
             \/ lost

\* Only setPower has a callback.
AnsweredIsPower == \A c \in calls : c.answered => c.op = "setPower"

LaterUnpressed == \A i \in Mounts : i > inst => pressed[i] = {}

-----------------------------------------------------------------------------
(* What the helpers return.                                                *)

\* Two ids are free for the calls of a turn.
LEMMA FreeIds ==
  ASSUME Room
  PROVE  Id1 \in Ids /\ Id2 \in Ids
<1>1. PICK i, j \in Free : i # j
  BY DEF Room
<1>2. Id1 \in Free
  BY <1>1 DEF Id1
<1>3. \E x \in Free \ {Id1} : TRUE
  BY <1>1
<1>4. Id2 \in Free \ {Id1}
  BY <1>3 DEF Id2
<1>5. QED
  BY <1>2, <1>4 DEF Free

\* Two keys that counteract each other give a power in range.
LEMMA CountsInRange ==
  ASSUME NEW S, NEW j, NEW k
  PROVE  Count(S, j) - Count(S, k) \in -1 .. 1
BY DEF Count

\* digestInput adds one setPower.
LEMMA DigestAdds ==
  ASSUME TypeOK, Room, NEW S, digestInput(S)
  PROVE  /\ calls \subseteq calls' /\ calls' \subseteq Call
         /\ \A c \in calls' \ calls : c.op = "setPower" /\ ~c.answered
         /\ \E c \in calls' : c.op = "setPower"
<1> DEFINE c0 == Request(Id1, "setPower", Count(S, "w") - Count(S, "s"),
                         Count(S, "a") - Count(S, "d"))
<1>1. c0 \in Call /\ c0.op = "setPower" /\ ~c0.answered
  <2>1. Id1 \in Ids /\ inst \in Mounts
    BY FreeIds DEF TypeOK
  <2>2. /\ Count(S, "w") - Count(S, "s") \in -1 .. 1
        /\ Count(S, "a") - Count(S, "d") \in -1 .. 1
    BY CountsInRange
  <2> HIDE DEF Count
  <2>3. QED
    BY <2>1, <2>2 DEF Request, Call, Ops
<1>2. calls' = calls \cup {c0}
  BY DEF digestInput
<1> HIDE DEF c0
<1>3. QED
  BY <1>1, <1>2 DEF TypeOK

\* stop(n) adds n stops; n is 0, 1 or 2.
LEMMA StopAdds ==
  ASSUME TypeOK, Room, NEW n \in 0 .. 2, stop(n)
  PROVE  /\ calls \subseteq calls' /\ calls' \subseteq Call /\ stopped' \in BOOLEAN
         /\ \A c \in calls' \ calls : c.op = "stop" /\ ~c.answered
         /\ n # 0 => \E c \in calls' : c.op = "stop"
<1>1. \A i \in Ids : /\ StopRequest(i) \in Call
                     /\ StopRequest(i).op = "stop" /\ ~StopRequest(i).answered
  BY DEF TypeOK, StopRequest, Request, Call, Ops
<1>2. Id1 \in Ids /\ Id2 \in Ids
  BY FreeIds
<1>3. CASE n = 0
  BY <1>3 DEF stop, TypeOK
<1>4. CASE n = 1
  <2>1. calls' = calls \cup {StopRequest(Id1)} /\ stopped' = TRUE
    BY <1>4 DEF stop
  <2>2. QED
    BY <2>1, <1>1, <1>2 DEF TypeOK
<1>5. CASE n = 2
  <2>1. calls' = calls \cup {StopRequest(Id1), StopRequest(Id2)} /\ stopped' = TRUE
    BY <1>5 DEF stop
  <2>2. QED
    BY <2>1, <1>1, <1>2 DEF TypeOK
<1>6. QED
  BY <1>3, <1>4, <1>5

-----------------------------------------------------------------------------
(* The invariant and the steps of the panel, which only add calls.         *)

IInv == TypeOK /\ AnsweredIsPower /\ LaterUnpressed /\ Covered /\ PressedIsHeld

\* A turn that only adds calls, none answered, leaves what covers the motion,
\* unless it changes pressed and adds none of setPower and stop.
LEMMA AddingKeeps ==
  ASSUME TypeOK, AnsweredIsPower, Covered, UNCHANGED robot,
         calls \subseteq calls', \A c \in calls' \ calls : ~c.answered,
         pressed' = pressed \/ \E c \in calls' : c.op \in {"stop", "setPower"}
  PROVE  AnsweredIsPower' /\ Covered'
<1>1. AnsweredIsPower'
  BY DEF AnsweredIsPower, TypeOK
<1>2. Covered'
  <2>1. KeyedOn' = KeyedOn /\ lost' = lost
    BY DEF robot, KeyedOn, Moving
  <2>2. CASE pressed' = pressed
    BY <2>1, <2>2 DEF Covered
  <2>3. CASE \E c \in calls' : c.op \in {"stop", "setPower"}
    BY <2>3 DEF Covered
  <2>4. QED
    BY <2>2, <2>3
<1>3. QED
  BY <1>1, <1>2

LEMMA PressKeyKeeps ==
  ASSUME IInv, Room, NEW k \in Keys, PressKey(k), UNCHANGED <<panel, robot>>
  PROVE  /\ pressed' = [pressed EXCEPT ![inst] = @ \cup {k}]
         /\ pressed' \in [Mounts -> SUBSET Keys] /\ stopped' = stopped
         /\ calls' \subseteq Call /\ AnsweredIsPower' /\ LaterUnpressed' /\ Covered'
<1>1. pressed' = [pressed EXCEPT ![inst] = @ \cup {k}] /\ stopped' = stopped
  BY DEF PressKey
<1>2. pressed' \in [Mounts -> SUBSET Keys]
  BY <1>1 DEF IInv, TypeOK
<1>3. digestInput(pressed'[inst])
  BY DEF PressKey
<1>4. /\ calls \subseteq calls' /\ calls' \subseteq Call
      /\ \A c \in calls' \ calls : ~c.answered
      /\ \E c \in calls' : c.op = "setPower"
  BY <1>3, DigestAdds DEF IInv
<1>5. AnsweredIsPower' /\ Covered'
  BY <1>4, AddingKeeps DEF IInv
<1>6. LaterUnpressed'
  BY <1>1 DEF IInv, TypeOK, LaterUnpressed, panel, Mounts
<1>7. QED
  BY <1>1, <1>2, <1>4, <1>5, <1>6

LEMMA ReleaseKeyKeeps ==
  ASSUME IInv, Room, NEW k \in Keys, ReleaseKey(k), UNCHANGED <<panel, robot>>
  PROVE  /\ pressed' = [pressed EXCEPT ![inst] = @ \ {k}] /\ missed' = missed \ {k}
         /\ pressed' \in [Mounts -> SUBSET Keys] /\ stopped' \in BOOLEAN
         /\ calls' \subseteq Call /\ AnsweredIsPower' /\ LaterUnpressed' /\ Covered'
<1>1. pressed' = [pressed EXCEPT ![inst] = @ \ {k}] /\ missed' = missed \ {k}
  BY DEF ReleaseKey, Remaining, IInv, TypeOK
<1>2. pressed' \in [Mounts -> SUBSET Keys]
  BY <1>1 DEF IInv, TypeOK
<1>3. /\ calls \subseteq calls' /\ calls' \subseteq Call /\ stopped' \in BOOLEAN
      /\ \A c \in calls' \ calls : ~c.answered
      /\ \E c \in calls' : c.op \in {"stop", "setPower"}
  <2>1. CASE Remaining(k) # {}
    <3>1. stopped' = FALSE /\ digestInput(Remaining(k))
      BY <2>1 DEF ReleaseKey
    <3>2. QED
      BY <3>1, DigestAdds DEF IInv
  <2>2. CASE Remaining(k) = {}
    <3>1. stop(1)
      BY <2>2 DEF ReleaseKey
    <3>2. QED
      BY <3>1, StopAdds DEF IInv
  <2>3. QED
    BY <2>1, <2>2
<1>4. AnsweredIsPower' /\ Covered'
  BY <1>3, AddingKeeps DEF IInv
<1>5. LaterUnpressed'
  BY <1>1 DEF IInv, TypeOK, LaterUnpressed, panel, Mounts
<1>6. QED
  BY <1>1, <1>2, <1>3, <1>4, <1>5

\* The stops of a turn that leaves pressed alone.
LEMMA StopKeeps ==
  ASSUME IInv, Room, NEW n \in 0 .. 2, stop(n), UNCHANGED <<pressed, robot>>
  PROVE  /\ calls' \subseteq Call /\ stopped' \in BOOLEAN
         /\ AnsweredIsPower' /\ Covered'
<1>1. /\ calls \subseteq calls' /\ calls' \subseteq Call /\ stopped' \in BOOLEAN
      /\ \A c \in calls' \ calls : ~c.answered
  BY StopAdds DEF IInv
<1>2. AnsweredIsPower' /\ Covered'
  BY <1>1, AddingKeeps DEF IInv
<1>3. QED
  BY <1>1, <1>2

LEMMA LeaveStops == StopsOnLeave \in 0 .. 1
BY DEF StopsOnLeave
-----------------------------------------------------------------------------
(* The steps of the person in front of the page.                           *)

LEMMA KeyDownKeeps ==
  ASSUME IInv, NEW k \in Keys, KeyDown(k)
  PROVE  IInv'
<1>1. CASE Heard /\ k \notin pressedKeys
  <2>1. PressKey(k) /\ Room /\ UNCHANGED <<panel, robot>>
    BY <1>1 DEF KeyDown
  <2>2. /\ pressed' = [pressed EXCEPT ![inst] = @ \cup {k}]
        /\ pressed' \in [Mounts -> SUBSET Keys] /\ stopped' = stopped
        /\ calls' \subseteq Call /\ AnsweredIsPower' /\ LaterUnpressed' /\ Covered'
    BY <2>1, PressKeyKeeps
  <2>3. TypeOK'
    BY <1>1, <2>2 DEF KeyDown, panel, robot, IInv, TypeOK
  <2>4. PressedIsHeld'
    BY <1>1, <2>2 DEF KeyDown, panel, IInv, TypeOK, PressedIsHeld
  <2>5. QED
    BY <2>2, <2>3, <2>4 DEF IInv
<1>2. CASE ~(Heard /\ k \notin pressedKeys)
  BY <1>2 DEF KeyDown, panel, robot, IInv, TypeOK, AnsweredIsPower, LaterUnpressed,
              Covered, KeyedOn, Moving, PressedIsHeld
<1>3. QED
  BY <1>1, <1>2

LEMMA KeyUpKeeps ==
  ASSUME IInv, NEW k \in Keys, KeyUp(k)
  PROVE  IInv'
<1>1. CASE Heard
  <2>1. ReleaseKey(k) /\ Room /\ UNCHANGED <<panel, robot>>
    BY <1>1 DEF KeyUp
  <2>2. /\ pressed' = [pressed EXCEPT ![inst] = @ \ {k}] /\ missed' = missed \ {k}
        /\ pressed' \in [Mounts -> SUBSET Keys] /\ stopped' \in BOOLEAN
        /\ calls' \subseteq Call /\ AnsweredIsPower' /\ LaterUnpressed' /\ Covered'
    BY <2>1, ReleaseKeyKeeps
  <2>3. TypeOK'
    BY <1>1, <2>2 DEF KeyUp, panel, robot, IInv, TypeOK
  <2>4. PressedIsHeld'
    BY <1>1, <2>2 DEF KeyUp, panel, IInv, TypeOK, PressedIsHeld
  <2>5. QED
    BY <2>2, <2>3, <2>4 DEF IInv
<1>2. CASE ~Heard
  BY <1>2 DEF KeyUp, panel, robot, IInv, TypeOK, AnsweredIsPower, LaterUnpressed,
              Covered, KeyedOn, Moving, PressedIsHeld
<1>3. QED
  BY <1>1, <1>2

LEMMA PointerDownKeeps ==
  ASSUME IInv, NEW k \in Keys, PointerDown(k)
  PROVE  IInv'
<1>1. PressKey(k) /\ Room /\ UNCHANGED <<panel, robot>>
  BY DEF PointerDown, Reachable
<1>2. /\ pressed' = [pressed EXCEPT ![inst] = @ \cup {k}]
      /\ pressed' \in [Mounts -> SUBSET Keys] /\ stopped' = stopped
      /\ calls' \subseteq Call /\ AnsweredIsPower' /\ LaterUnpressed' /\ Covered'
  BY <1>1, PressKeyKeeps
<1>3. TypeOK'
  BY <1>2 DEF PointerDown, panel, robot, IInv, TypeOK
<1>4. PressedIsHeld'
  BY <1>2 DEF PointerDown, panel, IInv, TypeOK, PressedIsHeld
<1>5. QED
  BY <1>2, <1>3, <1>4 DEF IInv

LEMMA PointerUpKeeps ==
  ASSUME IInv, NEW k \in Keys, PointerUp(k)
  PROVE  IInv'
<1>1. ReleaseKey(k) /\ Room /\ UNCHANGED <<panel, robot>>
  BY DEF PointerUp, Reachable
<1>2. /\ pressed' = [pressed EXCEPT ![inst] = @ \ {k}] /\ missed' = missed \ {k}
      /\ pressed' \in [Mounts -> SUBSET Keys] /\ stopped' \in BOOLEAN
      /\ calls' \subseteq Call /\ AnsweredIsPower' /\ LaterUnpressed' /\ Covered'
  BY <1>1, ReleaseKeyKeeps
<1>3. TypeOK'
  BY <1>2 DEF PointerUp, panel, robot, IInv, TypeOK
<1>4. PressedIsHeld'
  BY <1>2 DEF PointerUp, panel, IInv, TypeOK, PressedIsHeld
<1>5. QED
  BY <1>2, <1>3, <1>4 DEF IInv

\* The clicks that send stops and leave pressed alone.
LEMMA StopClicksKeep ==
  ASSUME IInv, \/ ToggleSwitch \/ ClickOutside \/ StopButton
               \/ \E t \in {"Keyboard", "Discrete"} : SelectTab(t)
  PROVE  IInv'
<1>1. Room /\ UNCHANGED <<pressed, robot>> /\ \E n \in 0 .. 2 : stop(n)
  <2>1. CASE ToggleSwitch
    BY <2>1, LeaveStops DEF ToggleSwitch, Click, Reachable
  <2>2. CASE ClickOutside
    BY <2>2, LeaveStops DEF ClickOutside, Click, Reachable
  <2>3. CASE StopButton
    BY <2>3, LeaveStops DEF StopButton, Click, Reachable
  <2>4. CASE \E t \in {"Keyboard", "Discrete"} : SelectTab(t)
    BY <2>4, LeaveStops DEF SelectTab, Click, Reachable
  <2>5. QED
    BY <2>1, <2>2, <2>3, <2>4
<1>2. /\ calls' \subseteq Call /\ stopped' \in BOOLEAN
      /\ AnsweredIsPower' /\ Covered'
  BY <1>1, StopKeeps
<1>3. /\ page' = "focused" /\ isActive' \in BOOLEAN /\ pressedKeys' \subseteq Keys
      /\ tab' \in {"Keyboard", "Discrete"} /\ discrete' \in Settings
      /\ UNCHANGED <<held, down, mounted, inst, late, pressed, robot, missed>>
  <2>0. Defaults \in Settings
    BY DEF Defaults, Settings
  <2>1. CASE ToggleSwitch
    BY <2>1 DEF ToggleSwitch, Click, panel, IInv, TypeOK
  <2>2. CASE ClickOutside
    BY <2>2 DEF ClickOutside, Click, panel, IInv, TypeOK
  <2>3. CASE StopButton
    BY <2>3 DEF StopButton, Click, panel, IInv, TypeOK
  <2>4. CASE \E t \in {"Keyboard", "Discrete"} : SelectTab(t)
    BY <2>0, <2>4 DEF SelectTab, Click, IInv, TypeOK
  <2>5. QED
    BY <2>1, <2>2, <2>3, <2>4
<1>4. TypeOK'
  BY <1>2, <1>3 DEF robot, IInv, TypeOK
<1>5. LaterUnpressed' /\ PressedIsHeld'
  BY <1>3 DEF IInv, LaterUnpressed, PressedIsHeld
<1>6. QED
  BY <1>2, <1>4, <1>5 DEF IInv
\* baseRun adds a call that is neither answered nor a setPower.
LEMMA RunKeeps ==
  ASSUME IInv, Run
  PROVE  IInv'
<1>1. PICK c0 \in Call : ~c0.answered /\ calls' = calls \cup {c0}
  <2>1. Id1 \in Ids /\ inst \in Mounts /\ discrete \in Settings
    BY FreeIds DEF Run, Click, Reachable, IInv, TypeOK
  <2>2. /\ Request(Id1, "spin", 0, discrete.spin) \in Call
        /\ Request(Id1, "setVelocity", discrete.dir, 0) \in Call
        /\ Request(Id1, "moveStraight", discrete.dir, 0) \in Call
    BY <2>1 DEF Request, Call, Ops, Settings
  <2>3. \A o, l, a : ~Request(Id1, o, l, a).answered
    BY DEF Request
  <2>4. QED
    BY <2>2, <2>3 DEF Run
<1>2. page' = "focused" /\ UNCHANGED <<held, down, panel, keybd, pressed, stopped, robot, missed>>
  BY DEF Run, Click
<1>3. AnsweredIsPower' /\ Covered'
  BY <1>1, <1>2, AddingKeeps DEF IInv
<1>4. TypeOK'
  BY <1>1, <1>2 DEF panel, keybd, robot, IInv, TypeOK
<1>5. LaterUnpressed' /\ PressedIsHeld'
  BY <1>2 DEF panel, IInv, LaterUnpressed, PressedIsHeld
<1>6. QED
  BY <1>3, <1>4, <1>5 DEF IInv

\* The events that send nothing and press nothing.
LEMMA QuietEventsKeep ==
  ASSUME IInv, (\E f \in Fields : SetDiscrete(f)) \/ Blur \/ Show
  PROVE  IInv'
<1>1. /\ page' \in {"focused", "blurred"} /\ discrete' \in Settings /\ late' \in BOOLEAN
      /\ UNCHANGED <<held, down, mounted, inst, tab, keybd, pressed, stopped, calls,
                     robot, missed>>
  BY DEF SetDiscrete, Click, Blur, Show, panel, IInv, TypeOK
<1>2. QED
  BY <1>1 DEF keybd, robot, IInv, TypeOK, AnsweredIsPower, LaterUnpressed, Covered, KeyedOn, Moving,
              PressedIsHeld

LEMMA HideKeeps ==
  ASSUME IInv, Hide
  PROVE  IInv'
<1>1. CASE mounted
  <2>1. /\ pressed' = [pressed EXCEPT ![inst] = {}] /\ stop(1) /\ Room
        /\ missed' = (missed \cup down) \cap pressed'[inst]
        /\ page' = "hidden" /\ down' = {}
        /\ late' \in BOOLEAN
        /\ UNCHANGED <<held, mounted, inst, tab, discrete, keybd, robot>>
    BY <1>1 DEF Hide, ClearPressed
  <2>2. pressed' \in [Mounts -> SUBSET Keys] /\ pressed'[inst] = {}
    BY <2>1 DEF IInv, TypeOK
  <2>3. /\ calls \subseteq calls' /\ calls' \subseteq Call /\ stopped' \in BOOLEAN
        /\ \A c \in calls' \ calls : ~c.answered
        /\ \E c \in calls' : c.op = "stop"
    BY <2>1, StopAdds DEF IInv
  <2>4. AnsweredIsPower' /\ Covered'
    BY <2>1, <2>3, AddingKeeps DEF IInv
  <2>5. TypeOK'
    BY <2>1, <2>2, <2>3 DEF keybd, robot, IInv, TypeOK
  <2>6. LaterUnpressed' /\ PressedIsHeld'
    BY <2>1, <2>2 DEF IInv, TypeOK, LaterUnpressed, PressedIsHeld, Mounts
  <2>7. QED
    BY <2>4, <2>5, <2>6 DEF IInv
<1>2. CASE ~mounted
  BY <1>2 DEF Hide, keybd, robot, IInv, TypeOK, AnsweredIsPower, LaterUnpressed,
              Covered, KeyedOn, Moving, PressedIsHeld
<1>3. QED
  BY <1>1, <1>2

LEMMA UnmountKeeps ==
  ASSUME IInv, Unmount
  PROVE  IInv'
<1>1. \E n \in 0 .. 2 : stop(n)
  BY LeaveStops DEF Unmount
<1>2. /\ Room /\ mounted' = FALSE /\ down' = {} /\ isActive' = FALSE
      /\ UNCHANGED <<page, held, inst, tab, discrete, late, pressedKeys, pressed, robot, missed>>
  BY DEF Unmount
<1>3. calls' \subseteq Call /\ stopped' \in BOOLEAN /\ AnsweredIsPower' /\ Covered'
  BY <1>1, <1>2, StopKeeps
<1>4. TypeOK'
  BY <1>2, <1>3 DEF robot, IInv, TypeOK
<1>5. LaterUnpressed' /\ PressedIsHeld'
  BY <1>2 DEF IInv, LaterUnpressed, PressedIsHeld
<1>6. QED
  BY <1>3, <1>4, <1>5 DEF IInv

LEMMA MountKeeps ==
  ASSUME IInv, Mount
  PROVE  IInv'
<1>1. inst' = inst + 1 /\ inst' \in Mounts /\ inst \in Mounts
  BY MountsAssumption DEF Mount, Mounts, IInv, TypeOK
<1>2. Defaults \in Settings
  BY DEF Defaults, Settings
<1>3. TypeOK'
  BY <1>1, <1>2 DEF Mount, user, robot, IInv, TypeOK
<1>4. LaterUnpressed' /\ PressedIsHeld'
  BY <1>1, MountsAssumption DEF Mount, user, IInv, LaterUnpressed, PressedIsHeld, Mounts
<1>5. AnsweredIsPower' /\ Covered'
  BY DEF Mount, robot, IInv, AnsweredIsPower, Covered, KeyedOn, Moving
<1>6. QED
  BY <1>3, <1>4, <1>5 DEF IInv
-----------------------------------------------------------------------------
(* The steps of the robot and the network.                                 *)

\* A call on its way, after it was served or lost.
LEMMA ReplyIsCall ==
  ASSUME NEW c \in Call, NEW rest,
         rest = IF c.op = "setPower" THEN {[c EXCEPT !.answered = TRUE]} ELSE {}
  PROVE  /\ rest \subseteq Call
         /\ \A d \in rest : d.op = "setPower"
         /\ c.op = "setPower" => \E d \in rest : d.op = "setPower"
BY DEF Call

\* What both do to the calls: every setPower leaves its answer behind.
LEMMA ReplyKeeps ==
  ASSUME IInv, NEW c \in calls,
         calls' = (calls \ {c}) \cup
                    (IF c.op = "setPower" THEN {[c EXCEPT !.answered = TRUE]} ELSE {})
  PROVE  /\ calls' \subseteq Call /\ AnsweredIsPower'
         /\ c.op # "stop" => ((\E d \in calls : d.op \in {"stop", "setPower"})
                               => \E d \in calls' : d.op \in {"stop", "setPower"})
<1> DEFINE rest == IF c.op = "setPower" THEN {[c EXCEPT !.answered = TRUE]} ELSE {}
<1>1. c \in Call
  BY DEF IInv, TypeOK
<1>2. /\ rest \subseteq Call
      /\ \A d \in rest : d.op = "setPower"
      /\ c.op = "setPower" => \E d \in rest : d.op = "setPower"
  BY <1>1, ReplyIsCall
<1>3. calls' = (calls \ {c}) \cup rest
  OBVIOUS
<1> HIDE DEF rest
<1>4. QED
  BY <1>2, <1>3 DEF IInv, TypeOK, AnsweredIsPower

LEMMA ServeKeeps ==
  ASSUME IInv, NEW c \in calls, Serve(c)
  PROVE  IInv'
<1>1. calls' \subseteq Call /\ AnsweredIsPower'
  BY ReplyKeeps DEF Serve
<1>2. c \in Call
  BY DEF IInv, TypeOK
<1>3. TypeOK'
  BY <1>1, <1>2 DEF Serve, user, panel, keybd, IInv, TypeOK, Call
<1>4. LaterUnpressed' /\ PressedIsHeld'
  BY DEF Serve, user, panel, IInv, LaterUnpressed, PressedIsHeld
<1>5. Covered'
  <2>1. CASE c.op = "setPower"
    <3>1. \E d \in calls' : d.op = "setPower"
      BY <1>2, <2>1, ReplyIsCall DEF Serve
    <3>2. QED
      BY <3>1 DEF Covered
  <2>2. CASE c.op # "setPower"
    BY <2>2 DEF Serve, Covered, KeyedOn, Moving
  <2>3. QED
    BY <2>1, <2>2
<1>6. QED
  BY <1>1, <1>3, <1>4, <1>5 DEF IInv

LEMMA LoseKeeps ==
  ASSUME IInv, NEW c \in calls, Lose(c)
  PROVE  IInv'
<1>1. /\ calls' \subseteq Call /\ AnsweredIsPower'
      /\ c.op # "stop" => ((\E d \in calls : d.op \in {"stop", "setPower"})
                            => \E d \in calls' : d.op \in {"stop", "setPower"})
  BY ReplyKeeps DEF Lose
<1>2. TypeOK'
  BY <1>1 DEF Lose, user, panel, keybd, IInv, TypeOK
<1>3. LaterUnpressed' /\ PressedIsHeld'
  BY DEF Lose, user, panel, IInv, LaterUnpressed, PressedIsHeld
<1>4. Covered'
  BY <1>1 DEF Lose, IInv, TypeOK, Covered, KeyedOn, Moving
<1>5. QED
  BY <1>1, <1>2, <1>3, <1>4 DEF IInv

LEMMA AnswerKeeps ==
  ASSUME IInv, NEW c \in calls, Answer(c)
  PROVE  IInv'
<1> DEFINE again == [StopRequest(c.id) EXCEPT !.inst = c.inst]
<1>1. c \in Call /\ c.op = "setPower" /\ c.inst \in Mounts
  BY DEF Answer, IInv, TypeOK, AnsweredIsPower, Call
<1>2. again \in Call /\ again.op = "stop" /\ ~again.answered
  <2>1. StopRequest(c.id) \in Call
    BY <1>1 DEF StopRequest, Request, Call, Ops, IInv, TypeOK
  <2>2. StopRequest(c.id).op = "stop" /\ StopRequest(c.id).answered = FALSE
    BY DEF StopRequest, Request
  <2>3. QED
    BY <1>1, <2>1, <2>2 DEF Call
<1>3. /\ IF pressed[c.inst] = {}
           THEN /\ calls' = (calls \ {c}) \cup {again}
                /\ stopped' = IF c.inst = inst THEN TRUE ELSE stopped
           ELSE calls' = calls \ {c} /\ stopped' = stopped
      /\ UNCHANGED <<user, panel, keybd, pressed, robot, missed>>
  BY DEF Answer, AllReleased
<1> HIDE DEF again
<1>4. TypeOK' /\ AnsweredIsPower'
  BY <1>2, <1>3 DEF user, panel, keybd, robot, IInv, TypeOK, AnsweredIsPower
<1>5. LaterUnpressed' /\ PressedIsHeld'
  BY <1>3 DEF user, panel, IInv, LaterUnpressed, PressedIsHeld
<1>6. Covered'
  <2>1. CASE pressed[c.inst] = {}
    BY <1>2, <1>3, <2>1 DEF Covered
  <2>2. CASE pressed[c.inst] # {}
    BY <1>1, <1>3, <2>2 DEF Covered
  <2>3. QED
    BY <2>1, <2>2
<1>7. QED
  BY <1>4, <1>5, <1>6 DEF IInv

-----------------------------------------------------------------------------
LEMMA InitInvariant == Init => IInv
<1>1. Defaults \in Settings
  BY DEF Defaults, Settings
<1>2. 1 \in Mounts
  BY MountsAssumption DEF Mounts
<1>3. Init => TypeOK
  <2>1. Idle \in [by : Ops, lin : -1 .. 1, ang : -1 .. 1]
    BY DEF Idle, Ops
  <2>2. QED
    BY <1>1, <1>2, <2>1 DEF Init, TypeOK
<1>4. Init => AnsweredIsPower /\ LaterUnpressed /\ PressedIsHeld
  BY <1>2 DEF Init, AnsweredIsPower, LaterUnpressed, PressedIsHeld
<1>5. Init => Covered
  BY DEF Init, Idle, Covered, KeyedOn, Moving
<1>6. QED
  BY <1>3, <1>4, <1>5 DEF IInv

LEMMA StepInvariant == IInv /\ [Next]_vars => IInv'
<1> SUFFICES ASSUME IInv, [Next]_vars PROVE IInv'
  OBVIOUS
<1>1. CASE \E k \in Keys : KeyDown(k) \/ KeyUp(k) \/ PointerDown(k) \/ PointerUp(k)
  BY <1>1, KeyDownKeeps, KeyUpKeeps, PointerDownKeeps, PointerUpKeeps
<1>2. CASE \/ ToggleSwitch \/ ClickOutside \/ StopButton
           \/ \E t \in {"Keyboard", "Discrete"} : SelectTab(t)
  BY <1>2, StopClicksKeep
<1>3. CASE Run
  BY <1>3, RunKeeps
<1>4. CASE (\E f \in Fields : SetDiscrete(f)) \/ Blur \/ Show
  BY <1>4, QuietEventsKeep
<1>5. CASE Hide
  BY <1>5, HideKeeps
<1>6. CASE Unmount \/ Mount
  BY <1>6, UnmountKeeps, MountKeeps
<1>7. CASE Network
  BY <1>7, ServeKeeps, LoseKeeps, AnswerKeeps DEF Network
<1>8. CASE UNCHANGED vars
  BY <1>8 DEF vars, user, panel, keybd, robot, IInv, TypeOK, AnsweredIsPower,
              LaterUnpressed, Covered, KeyedOn, Moving, PressedIsHeld
<1>9. QED
  BY <1>1, <1>2, <1>3, <1>4, <1>5, <1>6, <1>7, <1>8 DEF Next, Person

LEMMA Invariant == Spec => []IInv
BY InitInvariant, StepInvariant, PTL DEF Spec

\* The variables of the panel, the widget and the robot keep their types.
THEOREM BaseTypeCorrect == Spec => []TypeOK
<1>1. IInv => TypeOK
  BY DEF IInv
<1>2. QED
  BY <1>1, Invariant, PTL

\* Once every key is released and nothing is in flight the keys drive nothing, however
\* many keys, calls and mounts there are and in whatever order the robot serves
\* the calls: the second stop of setPower's callback (base.vue) is enough.
THEOREM BaseComesToRest == Spec => []ReleasedMeansStopped
<1>1. IInv => ReleasedMeansStopped
  BY DEF IInv, TypeOK, Covered, ReleasedMeansStopped
<1>2. QED
  BY <1>1, Invariant, PTL

\* A key counts as pressed only while someone holds it, but for the releases no
\* listener heard (keyboard-input.vue).
THEOREM PressedKeysAreHeld == Spec => []PressedIsHeld
<1>1. IInv => PressedIsHeld
  BY DEF IInv
<1>2. QED
  BY <1>1, Invariant, PTL
=============================================================================
