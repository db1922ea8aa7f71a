---------------------------- MODULE GPIOStepper ----------------------------
(***************************************************************************)
(* The stepper motor driver components/motor/gpiostepper, on top of the    *)
(* operation manager it embeds.  One goroutine (doRun) moves the motor     *)
(* towards targetStepPosition one step per cycle; the callers' goroutines  *)
(* set the target.  One revolution is one step here, so stepsPerRotation   *)
(* is 1; targetStepsPerSecond is 0 or 1, since only 0 matters.  The enable *)
(* pins are left out: doStep sets them before every step.                  *)
(***************************************************************************)
EXTENDS SingleOperation, Integers

CONSTANTS
  Calls,      \* the entry points clients use, a subset of AllCalls
  Distances,  \* the revolutions GoFor is called with; 0 is for ever
  Goals,      \* the positions GoTo and ResetZeroPosition are called with
  Forever,    \* the distance that stands for revolutions = 0
  MaxTarget   \* bound: no call starts with the target further from 0

AllCalls == {"goFor", "slowGoFor", "goTo", "goTillStop", "stop", "reset"}

ASSUME StepperConstants ==
  /\ Calls \subseteq AllCalls
  /\ Distances \subseteq Int /\ Goals \subseteq Int
  /\ Forever \in Nat \ {0} /\ MaxTarget \in Nat

VARIABLES
  stepPosition,
  targetStepPosition,
  targetStepsPerSecond,
  doRunning,  \* the doRun goroutine has not seen its context end
  panicked,   \* doRun divided by zero: the process is gone
  call,       \* the entry point each thread is in, and its revolutions
  goal,       \* history: the position the thread's call is to end at
  course,     \* history: was the motor idle ("clear") or moving ("busy") when
              \* the thread set the target, and was it "disturbed" since
  commander   \* history: the thread that last set the target, or None

motor == <<stepPosition, targetStepPosition, targetStepsPerSecond>>
history == <<goal, course, commander>>
vars == <<mgrVars, motor, doRunning, panicked, call, history>>

NoCall == [kind |-> "none", revolutions |-> 0]

(* The values each variable ranges over.                                    *)
TypeOK ==
  /\ MgrTypeOK
  /\ stepPosition \in Int /\ targetStepPosition \in Int
  /\ targetStepsPerSecond \in {0, 1}
  /\ doRunning \in BOOLEAN /\ panicked \in BOOLEAN
  /\ call \in [Threads -> [kind: AllCalls \cup {"none", "tillStopLoop", "tillStopEnd"},
                           revolutions: Int]]
  /\ goal \in [Threads -> Int]
  /\ course \in [Threads -> {"clear", "busy", "disturbed"}]
  /\ commander \in Threads \cup {None}

(* newGPIOStepper starts doRun before it returns.                           *)
Init ==
  /\ MgrInit
  /\ stepPosition = 0 /\ targetStepPosition = 0 /\ targetStepsPerSecond = 0
  /\ doRunning = TRUE /\ panicked = FALSE
  /\ call = [t \in Threads |-> NoCall]
  /\ goal = [t \in Threads |-> 0]
  /\ course = [t \in Threads |-> "disturbed"]
  /\ commander = None

HasSpeed == targetStepsPerSecond # 0
IsMovingForward == stepPosition < targetStepPosition
IsMoving == stepPosition # targetStepPosition

-----------------------------------------------------------------------------
(* doRun.                                                                   *)

(* doCycle and doStep, under the lock: one step towards the target.  A pin  *)
(* that fails before the step makes doCycle return without one.  One that   *)
(* fails after it (late) makes it return before the integer division by     *)
(* targetStepsPerSecond that yields the time to the next cycle.             *)
DoCycle(late) ==
  /\ doRunning
  /\ IsMoving
  /\ stepPosition' = stepPosition + (IF stepPosition < targetStepPosition THEN 1 ELSE -1)
  /\ panicked' = (~late /\ targetStepsPerSecond = 0)
  /\ UNCHANGED <<mgrVars, targetStepPosition, targetStepsPerSecond, doRunning,
                 call, history>>

(* doRun's context, that of the constructor, ends.                          *)
DoRunExits ==
  /\ doRunning
  /\ doRunning' = FALSE
  /\ UNCHANGED <<mgrVars, motor, panicked, call, history>>

-----------------------------------------------------------------------------
(* Calls.                                                                   *)

Begin(t, kind, revolutions) ==
  /\ kind \in Calls
  /\ call[t] = NoCall
  /\ targetStepPosition \in -MaxTarget..MaxTarget
  /\ call' = [call EXCEPT ![t] = [kind |-> kind, revolutions |-> revolutions]]
  /\ UNCHANGED <<motor, doRunning, panicked, commander>>

(* GoFor with a valid rpm; an rpm below 0.1 makes goForInternal a Stop.     *)
GoFor(t, revolutions) ==
  Begin(t, "goFor", revolutions) /\ New(t) /\ UNCHANGED <<goal, course>>

SlowGoFor(t) ==
  Begin(t, "slowGoFor", 1) /\ New(t) /\ UNCHANGED <<goal, course>>

GoTillStop(t) ==
  Begin(t, "goTillStop", 0) /\ New(t) /\ UNCHANGED <<goal, course>>

(* GoTo reads the position, in a critical section of its own, and calls     *)
(* GoFor with the difference.                                               *)
GoTo(t, position) ==
  /\ Begin(t, "goTo", position - stepPosition)
  /\ goal' = [goal EXCEPT ![t] = position]
  /\ course' = [course EXCEPT ![t] = IF IsMoving THEN "busy" ELSE "clear"]
  /\ UNCHANGED mgrVars

GoToCallsGoFor(t) ==
  /\ call[t].kind = "goTo"
  /\ New(t)
  /\ UNCHANGED <<motor, doRunning, panicked, call, history>>

Interfere == [u \in Threads |-> "disturbed"]

(* goForInternal, under the lock: the target moves by the distance, a       *)
(* million revolutions for 0.  Nothing looks at the context before.         *)
SetTarget(t) ==
  LET revolutions == call[t].revolutions
      distance == IF revolutions = 0 THEN Forever ELSE revolutions
      isGoTo == call[t].kind = "goTo"
  IN /\ targetStepPosition' = targetStepPosition + distance
     /\ targetStepsPerSecond' = 1
     /\ goal' = IF isGoTo THEN goal ELSE [goal EXCEPT ![t] = stepPosition + distance]
     /\ course' = [Interfere EXCEPT ![t] =
          IF isGoTo THEN course[t] ELSE IF IsMoving THEN "busy" ELSE "clear"]
     /\ commander' = t
     /\ UNCHANGED <<stepPosition, doRunning, panicked>>

(* GoFor after New: set the target, then wait unless revolutions is 0.      *)
GoForInternal(t) ==
  /\ call[t].kind \in {"goFor", "goTo"}
  /\ \/ call[t].revolutions = 0 /\ Return(t)
     \/ call[t].revolutions # 0 /\ WaitTillNotPowered(t)
  /\ SetTarget(t)
  /\ UNCHANGED call

TargetKept == targetStepPosition
StoppedTarget == stepPosition

(* stop, under the lock.                                                    *)
StopMotor ==
  /\ targetStepPosition' = StoppedTarget
  /\ targetStepsPerSecond' = 0
  /\ course' = Interfere
  /\ UNCHANGED <<stepPosition, doRunning, panicked, goal, commander>>

SlowGoForInternal(t) ==
  /\ call[t].kind = "slowGoFor"
  /\ WaitTillNotPowered(t)
  /\ StopMotor
  /\ UNCHANGED call

(* GoTillStop: the nested GoFor with 0 revolutions, then the loop that ends *)
(* when the context does or stopFunc says so, then an unconditional Stop.   *)
GoTillStopGoFor(t) ==
  /\ call[t].kind = "goTillStop"
  /\ pc[t] = "run"
  /\ call' = [call EXCEPT ![t].kind = "tillStopLoop"]
  /\ SetTarget(t)
  /\ UNCHANGED mgrVars

GoTillStopLoop(t, stopFunc) ==
  /\ call[t].kind = "tillStopLoop"
  /\ ctxErr[t] # "nil" \/ stopFunc
  /\ call' = [call EXCEPT ![t].kind = "tillStopEnd"]
  /\ UNCHANGED <<mgrVars, motor, doRunning, panicked, history>>

GoTillStopEnds(t) ==
  /\ call[t].kind = "tillStopEnd"
  /\ Return(t)
  /\ StopMotor
  /\ UNCHANGED call

(* The client calls Stop, or SetPower with 0 (any other power is refused).  *)
Stop(t) ==
  /\ "stop" \in Calls
  /\ call[t] = NoCall
  /\ StopMotor
  /\ UNCHANGED <<mgrVars, call>>

(* ResetZeroPosition sets the position and leaves the target.               *)
ResetZeroPosition(t, offset) ==
  /\ "reset" \in Calls
  /\ call[t] = NoCall
  /\ stepPosition' = offset
  /\ course' = Interfere
  /\ UNCHANGED <<mgrVars, targetStepPosition, targetStepsPerSecond, doRunning,
                 panicked, call, goal, commander>>

-----------------------------------------------------------------------------
(* The manager's steps with the motor they ask and stop.                    *)

ManagerStep(t) ==
  /\ \/ TestFunc(t, IF IsMoving THEN "on" ELSE "off")
     \/ SelectContextOrWait(t)
     \/ Deferred(t)
     \/ Reread(t)
  /\ UNCHANGED <<motor, doRunning, panicked, call, history>>

WaitStops(t) == StopFromWait(t) /\ StopMotor /\ UNCHANGED call

CallReturns(t) ==
  /\ Finish(t)
  /\ call' = [call EXCEPT ![t] = NoCall]
  /\ goal' = [goal EXCEPT ![t] = 0]
  /\ course' = [course EXCEPT ![t] = "disturbed"]
  /\ UNCHANGED <<motor, doRunning, panicked, commander>>

ClientContextEnds(t, why) ==
  ContextEnds(t, why) /\ UNCHANGED <<motor, doRunning, panicked, call, history>>

Arrive(t) ==
  \/ \E revolutions \in Distances : GoFor(t, revolutions)
  \/ SlowGoFor(t)
  \/ GoTillStop(t)
  \/ \E position \in Goals : GoTo(t, position)
  \/ Stop(t)
  \/ \E offset \in Goals : ResetZeroPosition(t, offset)
  \/ \E why \in Endings : ClientContextEnds(t, why)

Run(t) ==
  \/ GoToCallsGoFor(t)
  \/ GoForInternal(t)
  \/ SlowGoForInternal(t)
  \/ GoTillStopGoFor(t)
  \/ \E stopFunc \in BOOLEAN : GoTillStopLoop(t, stopFunc)
  \/ GoTillStopEnds(t)
  \/ ManagerStep(t)
  \/ WaitStops(t)
  \/ CallReturns(t)

Next ==
  /\ ~panicked
  /\ \/ \E t \in Threads : Arrive(t) \/ Run(t)
     \/ \E late \in BOOLEAN : DoCycle(late)
     \/ DoRunExits

Spec == Init /\ [][Next]_vars

(* Goroutines that can run do run, and the pins do not fail for ever.       *)
FairSpec ==
  /\ Spec
  /\ \A t \in Threads : WF_vars(Run(t))
  /\ WF_vars(DoCycle(FALSE))
-----------------------------------------------------------------------------
(* A GoFor or GoTo that set the target of an idle motor, was not disturbed  *)
(* and returned without error left the motor where it was to go.            *)
ClearMoveArrives ==
  \A t \in Threads :
    pc[t] = "finish" /\ res[t] = "off" /\ ctxErr[t] = "nil" /\ course[t] = "clear"
      => stepPosition = goal[t]

(* gpiostepper.go:233: doCycle never divides by zero while nobody resets    *)
(* the position: however calls, stops, their replacements and doRun's steps *)
(* interleave, a motor with a way to go has a speed.                        *)
MovingHasSpeed == IsMoving => targetStepsPerSecond # 0

(* "Ensure stop called when gofor is interrupted" (gpiostepper_test.go): a  *)
(* GoFor that returns because it was cancelled, that no other operation     *)
(* replaced and no late one overrode, has stopped the motor.                *)
InterruptedStops ==
  \A t \in Threads :
    /\ pc[t] = "finish" /\ res[t] = "ctx" /\ ctxErr[t] = "canceled"
    /\ currentOp = t /\ commander = t
    => targetStepsPerSecond = 0

(* A GoFor or GoTo returns, if only because someone interrupts it, as long  *)
(* as doRun runs.                                                           *)
GoForReturns ==
  \A t \in Threads :
    call[t].kind \in {"goFor", "goTo"} ~> call[t] = NoCall \/ ~doRunning

(* No call of the driver hangs: one that is cancelled returns, and so does  *)
(* a GoFor or GoTo.                                                         *)
MovesReturn == CancelledReturns /\ GoForReturns

-----------------------------------------------------------------------------
(* What comments and tests say that the driver does not do.                 *)

(* gpiostepper.go:314-316: GoTo moves "to a specific position".             *)
GoToArrives ==
  \A t \in Threads :
    call[t].kind = "goTo" /\ pc[t] = "finish" /\ ctxErr[t] = "nil" /\ course[t] = "clear"
      => stepPosition = goal[t] /\ ~IsMoving

(* gpiostepper.go:257-258: GoFor goes "for a specific amount of             *)
(* revolutions", whatever the motor was doing when it was called.           *)
GoForDistance ==
  \A t \in Threads :
    /\ call[t].kind = "goFor" /\ pc[t] = "finish" /\ res[t] = "off"
    /\ ctxErr[t] = "nil" /\ course[t] # "disturbed"
    => stepPosition = goal[t]

(* operation/manager.go:94: the deferred function "will stop and clean up   *)
(* if the context errors".                                                  *)
ContextErrorStops ==
  \A t \in Threads :
    pc[t] = "finish" /\ res[t] = "ctx" /\ currentOp = t /\ commander = t
      => targetStepsPerSecond = 0

(* TestStopNotCalledOnOldContext (operation/manager_test.go): an operation  *)
(* that a newer one replaced does not stop the newer one's motion.          *)
OldNeverStopsNew ==
  [][\A t \in Threads :
       WaitStops(t) \/ GoTillStopEnds(t) => commander = t \/ ~IsMoving]_vars

(* operation/manager.go:13: "only 1 operation is happening a time": while a *)
(* live operation waits for its motion the target is the one it set.        *)
LiveOpCommands ==
  \A t \in Threads :
    pc[t] \in {"test", "select"} /\ ctxErr[t] = "nil" /\ call[t].kind = "goFor"
      => commander = t

(* gpiostepper.go:353: ResetZeroPosition only sets "the current position    *)
(* (+/- offset) to be the new zero (home) position"; doRun survives it.     *)
NeverPanics == ~panicked
=============================================================================
