-------------------------- MODULE GPIOStepperProofs -------------------------
(* Proofs about the operation manager, for any set of threads, and about    *)
(* the stepper driver that uses it, for any threads, distances and goals.   *)
EXTENDS GPIOStepper, TLAPS

-----------------------------------------------------------------------------
(* The manager's type, its two invariants, and the fact about the deferred  *)
(* function that drivers rely on: an operation that is still current when   *)
(* it reads currentOp a second time found itself current the first time,    *)
(* and one that left its wait because of its context has an error.          *)
DeferredInv ==
  \A t \in Threads :
    /\ pc[t] = "reread" /\ currentOp = t => oldOp[t]
    /\ res[t] = "ctx" => ctxErr[t] # "nil"
    /\ pc[t] = "reread" => ctxErr[t] = "canceled"
    /\ pc[t] = "idle" => ctxErr[t] = "nil"
    /\ pc[t] \in {"idle", "run", "test", "select"} => res[t] = "none"

MgrInv == MgrTypeOK /\ OneLiveOp /\ CurrentIsOpen /\ DeferredInv

(* The invariant holds before any call (SingleOperationManager's zero       *)
(* value).                                                                  *)
LEMMA MgrInvInit == MgrInit => MgrInv
BY NoneIsNoThread
DEF MgrInit, MgrInv, MgrTypeOK, OneLiveOp, CurrentIsOpen, DeferredInv, Open, PCs

(* New keeps it: the operation it replaces is cancelled under the lock.     *)
LEMMA NewKeeps == ASSUME MgrInv, NEW t \in Threads, New(t) PROVE MgrInv'
<1>1. MgrTypeOK'
  BY DEF MgrInv, MgrTypeOK, New, CancelInLock, PCs
<1>2. OneLiveOp'
  BY DEF MgrInv, MgrTypeOK, OneLiveOp, New, CancelInLock, Open
<1>3. CurrentIsOpen'
  BY DEF MgrInv, MgrTypeOK, CurrentIsOpen, New, Open
<1>4. DeferredInv'
  <2> SUFFICES ASSUME NEW u \in Threads
      PROVE /\ pc'[u] = "reread" /\ currentOp' = u => oldOp'[u]
            /\ res'[u] = "ctx" => ctxErr'[u] # "nil"
            /\ pc'[u] = "reread" => ctxErr'[u] = "canceled"
            /\ pc'[u] = "idle" => ctxErr'[u] = "nil"
            /\ pc'[u] \in {"idle", "run", "test", "select"} => res'[u] = "none"
    BY DEF DeferredInv
  <2>1. CASE u = t
    BY <2>1 DEF MgrInv, MgrTypeOK, DeferredInv, New, CancelInLock
  <2>2. CASE u # t
    BY <2>2, NoneIsNoThread DEF MgrInv, MgrTypeOK, CurrentIsOpen, DeferredInv, New, CancelInLock, Open
  <2> QED BY <2>1, <2>2
<1> QED BY <1>1, <1>2, <1>3, <1>4 DEF MgrInv

(* CancelRunning keeps it.                                                  *)
LEMMA CancelRunningKeeps ==
  ASSUME MgrInv, NEW t \in Threads, CancelRunning(t) PROVE MgrInv'
<1>1. MgrTypeOK'
  BY DEF MgrInv, MgrTypeOK, CancelRunning, CancelInLock
<1>2. OneLiveOp' /\ CurrentIsOpen'
  BY DEF MgrInv, MgrTypeOK, OneLiveOp, CurrentIsOpen, CancelRunning, CancelInLock, Open
<1>3. DeferredInv'
  BY NoneIsNoThread
  DEF MgrInv, MgrTypeOK, CurrentIsOpen, DeferredInv, CancelRunning, CancelInLock, Open
<1> QED BY <1>1, <1>2, <1>3 DEF MgrInv

(* The end of a client's context keeps it: nothing else moves.              *)
LEMMA ContextEndsKeeps ==
  ASSUME MgrInv, NEW t \in Threads, NEW why \in Endings, ContextEnds(t, why)
  PROVE MgrInv'
<1>1. MgrTypeOK'
  BY DEF MgrInv, MgrTypeOK, ContextEnds, Endings
<1>2. OneLiveOp' /\ CurrentIsOpen' /\ DeferredInv'
  BY DEF MgrInv, MgrTypeOK, OneLiveOp, CurrentIsOpen, DeferredInv, ContextEnds, Open, Endings
<1> QED BY <1>1, <1>2 DEF MgrInv

(* The steps inside a wait keep it: they only move the thread's own state.  *)
LEMMA WaitStepKeeps ==
  ASSUME MgrInv, NEW t \in Threads,
         \/ Return(t) \/ WaitTillNotPowered(t)
         \/ \E answer \in Answers : TestFunc(t, answer)
         \/ SelectContextOrWait(t) \/ StopFromWait(t)
  PROVE MgrInv'
<1>1. CASE Return(t) \/ WaitTillNotPowered(t) \/ StopFromWait(t)
  BY <1>1
  DEF MgrInv, MgrTypeOK, OneLiveOp, CurrentIsOpen, DeferredInv, Return,
      WaitTillNotPowered, StopFromWait, Open, PCs
<1>2. ASSUME NEW answer \in Answers, TestFunc(t, answer) PROVE MgrInv'
  BY <1>2
  DEF MgrInv, MgrTypeOK, OneLiveOp, CurrentIsOpen, DeferredInv, TestFunc, Open, PCs,
      Answers
<1>3. CASE SelectContextOrWait(t)
  BY <1>3
  DEF MgrInv, MgrTypeOK, OneLiveOp, CurrentIsOpen, DeferredInv, SelectContextOrWait,
      Done, Open, PCs
<1> QED BY <1>1, <1>2, <1>3

(* The deferred function's two reads keep it.                               *)
LEMMA DeferredKeeps ==
  ASSUME MgrInv, NEW t \in Threads, Deferred(t) \/ Reread(t) PROVE MgrInv'
<1>1. CASE Deferred(t)
  <2>1. MgrTypeOK'
    BY <1>1 DEF MgrInv, MgrTypeOK, Deferred, PCs
  <2>2. OneLiveOp' /\ CurrentIsOpen'
    BY <1>1 DEF MgrInv, MgrTypeOK, OneLiveOp, CurrentIsOpen, Deferred, Open
  <2>3. DeferredInv'
    <3>1. CASE ctxErr[t] = "canceled"
      BY <1>1, <3>1 DEF MgrInv, MgrTypeOK, DeferredInv, Deferred
    <3>2. CASE ctxErr[t] # "canceled"
      BY <1>1, <3>2 DEF MgrInv, MgrTypeOK, DeferredInv, Deferred
    <3> QED BY <3>1, <3>2
  <2> QED BY <2>1, <2>2, <2>3 DEF MgrInv
<1>2. CASE Reread(t)
  BY <1>2
  DEF MgrInv, MgrTypeOK, OneLiveOp, CurrentIsOpen, DeferredInv, Reread, MustStop, Open,
      PCs
<1> QED BY <1>1, <1>2

(* The finish function keeps it: it clears currentOp only if it is its own. *)
LEMMA FinishKeeps == ASSUME MgrInv, NEW t \in Threads, Finish(t) PROVE MgrInv'
<1>1. MgrTypeOK'
  BY DEF MgrInv, MgrTypeOK, Finish, IsCurrent, PCs
<1>2. OneLiveOp' /\ CurrentIsOpen'
  BY DEF MgrInv, MgrTypeOK, OneLiveOp, CurrentIsOpen, Finish, IsCurrent, Open
<1>3. DeferredInv'
  <2> SUFFICES ASSUME NEW u \in Threads
      PROVE /\ pc'[u] = "reread" /\ currentOp' = u => oldOp'[u]
            /\ res'[u] = "ctx" => ctxErr'[u] # "nil"
            /\ pc'[u] = "reread" => ctxErr'[u] = "canceled"
            /\ pc'[u] = "idle" => ctxErr'[u] = "nil"
            /\ pc'[u] \in {"idle", "run", "test", "select"} => res'[u] = "none"
    BY DEF DeferredInv
  <2>1. CASE u = t
    BY <2>1 DEF MgrInv, MgrTypeOK, DeferredInv, Finish
  <2>2. CASE u # t
    BY <2>2, NoneIsNoThread DEF MgrInv, MgrTypeOK, DeferredInv, Finish, IsCurrent
  <2> QED BY <2>1, <2>2
<1> QED BY <1>1, <1>2, <1>3 DEF MgrInv

(* Every step of the manager keeps its invariant.                           *)
LEMMA MgrInvStep == MgrInv /\ [MgrNext]_mgrVars => MgrInv'
<1> SUFFICES ASSUME MgrInv, [MgrNext]_mgrVars PROVE MgrInv'
  OBVIOUS
<1>1. CASE UNCHANGED mgrVars
  BY <1>1
  DEF mgrVars, MgrInv, MgrTypeOK, OneLiveOp, CurrentIsOpen, DeferredInv, Open
<1>2. ASSUME NEW t \in Threads,
             \/ New(t) \/ CancelRunning(t)
             \/ \E why \in Endings : ContextEnds(t, why)
             \/ Progress(t)
      PROVE MgrInv'
  BY <1>2, NewKeeps, CancelRunningKeeps, ContextEndsKeeps, WaitStepKeeps,
     DeferredKeeps, FinishKeeps
  DEF Progress
<1> QED BY <1>1, <1>2 DEF MgrNext

(* SingleOperationManager's state is well typed, whoever calls it.          *)
THEOREM MgrTypeCorrect == MgrSpec => []MgrTypeOK
<1>1. MgrInv => MgrTypeOK
  BY DEF MgrInv
<1> QED BY <1>1, MgrInvInit, MgrInvStep, PTL DEF MgrSpec

(* At most one open operation is not cancelled, and currentOp names it.     *)
THEOREM OnlyOneIsLive == MgrSpec => []OneLiveOp
<1>1. MgrInv => OneLiveOp
  BY DEF MgrInv
<1> QED BY <1>1, MgrInvInit, MgrInvStep, PTL DEF MgrSpec

(* currentOp never names an operation that has returned.                    *)
THEOREM CurrentHasNotReturned == MgrSpec => []CurrentIsOpen
<1>1. MgrInv => CurrentIsOpen
  BY DEF MgrInv
<1> QED BY <1>1, MgrInvInit, MgrInvStep, PTL DEF MgrSpec

-----------------------------------------------------------------------------
(* Every step of the driver is a step of the manager or leaves it alone.    *)
LEMMA StepperUsesManager == [Next]_vars => [MgrNext]_mgrVars
<1> SUFFICES ASSUME [Next]_vars PROVE [MgrNext]_mgrVars
  OBVIOUS
<1>1. CASE UNCHANGED vars
  BY <1>1 DEF vars
<1>2. ASSUME NEW t \in Threads, Arrive(t) PROVE [MgrNext]_mgrVars
  BY <1>2
  DEF Arrive, GoFor, SlowGoFor, GoTillStop, GoTo, Stop, ResetZeroPosition,
      ClientContextEnds, MgrNext
<1>3. ASSUME NEW t \in Threads, Run(t) PROVE [MgrNext]_mgrVars
  <2>1. (IF IsMoving THEN "on" ELSE "off") \in Answers
    BY DEF Answers
  <2> QED
    BY <1>3, <2>1
    DEF Run, GoToCallsGoFor, GoForInternal, SlowGoForInternal, GoTillStopGoFor,
        GoTillStopLoop, GoTillStopEnds, ManagerStep, WaitStops, CallReturns, MgrNext,
        Progress
<1>4. CASE \/ \E late \in BOOLEAN : DoCycle(late)
           \/ DoRunExits
  BY <1>4 DEF DoCycle, DoRunExits
<1> QED BY <1>1, <1>2, <1>3, <1>4 DEF Next

(* The driver keeps to the manager's specification: GoFor, GoTo and         *)
(* GoTillStop open, wait in and finish operations as manager.go expects.    *)
THEOREM StepperImplementsManager == Spec => MgrSpec
<1>1. Init => MgrInit
  BY DEF Init
<1> QED BY <1>1, StepperUsesManager, PTL DEF Spec, MgrSpec

(* What the manager guarantees holds in the driver.                         *)
LEMMA MgrInvInStepper == Spec => []MgrInv
<1>1. Init => MgrInit
  BY DEF Init
<1> QED BY <1>1, StepperUsesManager, MgrInvInit, MgrInvStep, PTL DEF Spec

-----------------------------------------------------------------------------
CallRecords ==
  [kind: AllCalls \cup {"none", "tillStopLoop", "tillStopEnd"}, revolutions: Int]

(* The part of TypeOK that is the driver's own.                             *)
DriverTypeOK ==
  /\ stepPosition \in Int /\ targetStepPosition \in Int
  /\ targetStepsPerSecond \in {0, 1}
  /\ doRunning \in BOOLEAN /\ panicked \in BOOLEAN
  /\ call \in [Threads -> CallRecords]
  /\ goal \in [Threads -> Int]
  /\ course \in [Threads -> {"clear", "busy", "disturbed"}]
  /\ commander \in Threads \cup {None}

(* A new call has a well-formed record.                                     *)
LEMMA BeginTyped ==
  ASSUME DriverTypeOK, NEW t \in Threads, NEW kind \in AllCalls, NEW r \in Int,
         Begin(t, kind, r)
  PROVE call' \in [Threads -> CallRecords]
<1>1. [kind |-> kind, revolutions |-> r] \in CallRecords
  BY DEF CallRecords
<1> QED BY <1>1 DEF DriverTypeOK, Begin

(* goForInternal keeps the types.                                           *)
LEMMA SetTargetTyped ==
  ASSUME DriverTypeOK, NEW t \in Threads, SetTarget(t)
  PROVE /\ stepPosition' \in Int /\ targetStepPosition' \in Int
        /\ targetStepsPerSecond' \in {0, 1}
        /\ doRunning' \in BOOLEAN /\ panicked' \in BOOLEAN
        /\ goal' \in [Threads -> Int]
        /\ course' \in [Threads -> {"clear", "busy", "disturbed"}]
        /\ commander' \in Threads \cup {None}
<1> DEFINE r == call[t].revolutions
           d == IF r = 0 THEN Forever ELSE r
<1>1. r \in Int
  BY DEF DriverTypeOK, CallRecords
<1>2. d \in Int
  BY <1>1, StepperConstants DEF StepperConstants
<1>3. targetStepPosition' = targetStepPosition + d /\ targetStepPosition' \in Int
  BY <1>2 DEF SetTarget, DriverTypeOK
<1>4. goal' \in [Threads -> Int]
  BY <1>2 DEF SetTarget, DriverTypeOK
<1>5. course' \in [Threads -> {"clear", "busy", "disturbed"}]
  BY DEF SetTarget, DriverTypeOK, Interfere
<1> QED BY <1>3, <1>4, <1>5 DEF SetTarget, DriverTypeOK

(* So do the calls and the end of a context.                                *)
LEMMA ArriveTyped ==
  ASSUME DriverTypeOK, NEW t \in Threads, Arrive(t) PROVE DriverTypeOK'
<1>1. ASSUME NEW r \in Distances, GoFor(t, r) PROVE DriverTypeOK'
  <2>1. r \in Int /\ Begin(t, "goFor", r)
    BY <1>1, StepperConstants DEF StepperConstants, GoFor
  <2> QED BY <1>1, <2>1, BeginTyped DEF DriverTypeOK, GoFor, Begin, motor, AllCalls
<1>2. CASE SlowGoFor(t)
  <2>1. Begin(t, "slowGoFor", 1)
    BY <1>2 DEF SlowGoFor
  <2>2. call' \in [Threads -> CallRecords]
    BY <2>1, BeginTyped, 1 \in Int DEF AllCalls
  <2> QED BY <1>2, <2>1, <2>2 DEF DriverTypeOK, SlowGoFor, Begin, motor
<1>3. CASE GoTillStop(t)
  <2>1. Begin(t, "goTillStop", 0)
    BY <1>3 DEF GoTillStop
  <2>2. call' \in [Threads -> CallRecords]
    BY <2>1, BeginTyped, 0 \in Int DEF AllCalls
  <2> QED BY <1>3, <2>1, <2>2 DEF DriverTypeOK, GoTillStop, Begin, motor
<1>4. ASSUME NEW g \in Goals, GoTo(t, g) PROVE DriverTypeOK'
  <2>1. g \in Int /\ g - stepPosition \in Int /\ Begin(t, "goTo", g - stepPosition)
    BY <1>4, StepperConstants DEF StepperConstants, GoTo, DriverTypeOK
  <2>2. call' \in [Threads -> CallRecords]
    BY <2>1, BeginTyped DEF AllCalls
  <2>3. goal' \in [Threads -> Int] /\ course' \in [Threads -> {"clear", "busy", "disturbed"}]
    BY <1>4, <2>1 DEF GoTo, DriverTypeOK
  <2> QED BY <2>1, <2>2, <2>3 DEF DriverTypeOK, Begin, motor
<1>5. CASE Stop(t)
  BY <1>5 DEF Stop, StopMotor, StoppedTarget, Interfere, DriverTypeOK
<1>6. ASSUME NEW g \in Goals, ResetZeroPosition(t, g) PROVE DriverTypeOK'
  BY <1>6, StepperConstants
  DEF StepperConstants, ResetZeroPosition, Interfere, DriverTypeOK
<1>7. ASSUME NEW why \in Endings, ClientContextEnds(t, why) PROVE DriverTypeOK'
  BY <1>7 DEF ClientContextEnds, motor, history, DriverTypeOK
<1> QED BY <1>1, <1>2, <1>3, <1>4, <1>5, <1>6, <1>7 DEF Arrive

(* So do the steps of a running call.                                       *)
LEMMA RunTyped ==
  ASSUME DriverTypeOK, NEW t \in Threads, Run(t) PROVE DriverTypeOK'
<1>1. CASE GoToCallsGoFor(t) \/ ManagerStep(t)
  BY <1>1 DEF GoToCallsGoFor, ManagerStep, motor, history, DriverTypeOK
<1>2. CASE GoForInternal(t)
  <2>1. SetTarget(t) /\ UNCHANGED call
    BY <1>2 DEF GoForInternal
  <2> QED BY <2>1, SetTargetTyped DEF DriverTypeOK
<1>3. CASE SlowGoForInternal(t) \/ WaitStops(t) \/ GoTillStopEnds(t)
  BY <1>3
  DEF SlowGoForInternal, WaitStops, GoTillStopEnds, StopMotor, StoppedTarget, Interfere,
      DriverTypeOK
<1>4. CASE GoTillStopGoFor(t)
  <2>1. SetTarget(t) /\ call' = [call EXCEPT ![t].kind = "tillStopLoop"]
    BY <1>4 DEF GoTillStopGoFor
  <2>2. call' \in [Threads -> CallRecords]
    BY <2>1 DEF DriverTypeOK, CallRecords
  <2> QED BY <2>1, <2>2, SetTargetTyped DEF DriverTypeOK
<1>5. ASSUME NEW b \in BOOLEAN, GoTillStopLoop(t, b) PROVE DriverTypeOK'
  <2>1. call' = [call EXCEPT ![t].kind = "tillStopEnd"]
    BY <1>5 DEF GoTillStopLoop
  <2>2. call' \in [Threads -> CallRecords]
    BY <2>1 DEF DriverTypeOK, CallRecords
  <2> QED BY <1>5, <2>2 DEF GoTillStopLoop, motor, history, DriverTypeOK
<1>6. CASE CallReturns(t)
  <2>1. call' \in [Threads -> CallRecords]
    BY <1>6 DEF CallReturns, NoCall, DriverTypeOK, CallRecords
  <2> QED BY <1>6, <2>1 DEF CallReturns, motor, DriverTypeOK
<1> QED BY <1>1, <1>2, <1>3, <1>4, <1>5, <1>6 DEF Run

(* Every step keeps the driver's types.                                     *)
LEMMA DriverTypeStep == DriverTypeOK /\ [Next]_vars => DriverTypeOK'
<1> SUFFICES ASSUME DriverTypeOK, [Next]_vars PROVE DriverTypeOK'
  OBVIOUS
<1>1. CASE UNCHANGED vars
  BY <1>1 DEF vars, motor, history, DriverTypeOK
<1>2. ASSUME NEW t \in Threads, Arrive(t) \/ Run(t) PROVE DriverTypeOK'
  BY <1>2, ArriveTyped, RunTyped
<1>3. ASSUME NEW late \in BOOLEAN, DoCycle(late) PROVE DriverTypeOK'
  BY <1>3 DEF DoCycle, history, DriverTypeOK
<1>4. CASE DoRunExits
  BY <1>4 DEF DoRunExits, motor, history, DriverTypeOK
<1> QED BY <1>1, <1>2, <1>3, <1>4 DEF Next

(* The driver starts well typed.                                            *)
LEMMA DriverTypeInit == Init => DriverTypeOK
<1>1. NoCall \in CallRecords
  BY DEF NoCall, CallRecords
<1> SUFFICES ASSUME Init PROVE DriverTypeOK
  OBVIOUS
<1>2. call \in [Threads -> CallRecords]
  BY <1>1 DEF Init
<1>3. goal \in [Threads -> Int] /\ course \in [Threads -> {"clear", "busy", "disturbed"}]
  BY DEF Init
<1>4. doRunning \in BOOLEAN /\ panicked \in BOOLEAN
  BY DEF Init
<1>5. /\ stepPosition \in Int /\ targetStepPosition \in Int
      /\ targetStepsPerSecond \in {0, 1} /\ commander \in Threads \cup {None}
  BY DEF Init
<1> QED BY <1>2, <1>3, <1>4, <1>5 DEF DriverTypeOK

(* The stepper's state is well typed.                                       *)
THEOREM StepperTypeCorrect == Spec => []TypeOK
<1>1. MgrInv /\ DriverTypeOK => TypeOK
  BY DEF MgrInv, DriverTypeOK, TypeOK, CallRecords
<1>2. Spec => []DriverTypeOK
  BY DriverTypeInit, DriverTypeStep, PTL DEF Spec
<1> QED BY <1>1, <1>2, MgrInvInStepper, PTL

-----------------------------------------------------------------------------
(* Without ResetZeroPosition, only goForInternal moves the target away from *)
(* the position, and it sets a speed; stop clears both at once.             *)
LEMMA SpeedStep ==
  ASSUME "reset" \notin Calls
  PROVE DriverTypeOK /\ MovingHasSpeed /\ [Next]_vars => MovingHasSpeed'
<1> SUFFICES ASSUME DriverTypeOK, MovingHasSpeed, [Next]_vars PROVE MovingHasSpeed'
  OBVIOUS
<1> USE DEF MovingHasSpeed, IsMoving
<1>1. CASE UNCHANGED vars
  BY <1>1 DEF vars, motor
<1>2. ASSUME NEW t \in Threads, Arrive(t) PROVE MovingHasSpeed'
  BY <1>2
  DEF Arrive, GoFor, SlowGoFor, GoTillStop, GoTo, Begin, Stop, StopMotor, StoppedTarget,
      ResetZeroPosition, ClientContextEnds, motor
<1>3. ASSUME NEW t \in Threads, Run(t) PROVE MovingHasSpeed'
  BY <1>3
  DEF Run, GoToCallsGoFor, GoForInternal, SlowGoForInternal, GoTillStopGoFor,
      GoTillStopLoop, GoTillStopEnds, ManagerStep, WaitStops, CallReturns, SetTarget,
      StopMotor, StoppedTarget, motor
<1>4. ASSUME NEW late \in BOOLEAN, DoCycle(late) PROVE MovingHasSpeed'
  BY <1>4 DEF DoCycle, DriverTypeOK
<1>5. CASE DoRunExits
  BY <1>5 DEF DoRunExits, motor
<1> QED BY <1>1, <1>2, <1>3, <1>4, <1>5 DEF Next

(* doCycle never divides by zero in a robot that never calls                *)
(* ResetZeroPosition.                                                       *)
THEOREM SpeedWhileMoving ==
  ASSUME "reset" \notin Calls PROVE Spec => []MovingHasSpeed
<1>1. Init => MovingHasSpeed
  BY DEF Init, MovingHasSpeed, IsMoving
<1> QED BY <1>1, DriverTypeInit, DriverTypeStep, SpeedStep, PTL DEF Spec

-----------------------------------------------------------------------------
(* InterruptedStops is kept by every step: the thread gets to its finish    *)
(* with a cancelled context either through its own stop, or through a read  *)
(* that did not find it current; whoever sets a speed later is another      *)
(* commander.                                                               *)
LEMMA InterruptedStep ==
  MgrInv /\ DriverTypeOK /\ InterruptedStops /\ [Next]_vars => InterruptedStops'
<1> SUFFICES ASSUME MgrInv, DriverTypeOK, InterruptedStops, [Next]_vars,
                    NEW u \in Threads,
                    pc'[u] = "finish", res'[u] = "ctx", ctxErr'[u] = "canceled",
                    currentOp' = u, commander' = u
             PROVE targetStepsPerSecond' = 0
  BY DEF InterruptedStops
<1> USE DEF MgrInv, MgrTypeOK
<1>1. CASE UNCHANGED vars
  BY <1>1 DEF vars, mgrVars, motor, history, InterruptedStops
<1>2. ASSUME NEW t \in Threads, Arrive(t) PROVE targetStepsPerSecond' = 0
  <2>1. ASSUME New(t) PROVE FALSE
    BY <2>1 DEF New
  <2>2. CASE Stop(t)
    BY <2>2 DEF Stop, StopMotor
  <2>3. ASSUME NEW why \in Endings, ClientContextEnds(t, why) PROVE targetStepsPerSecond' = 0
    BY <2>3
    DEF ClientContextEnds, ContextEnds, motor, history, InterruptedStops, DeferredInv
  <2>4. ASSUME NEW g \in Goals, GoTo(t, g) \/ ResetZeroPosition(t, g)
        PROVE targetStepsPerSecond' = 0
    BY <2>4 DEF GoTo, Begin, ResetZeroPosition, mgrVars, motor, InterruptedStops
  <2> QED
    BY <1>2, <2>1, <2>2, <2>3, <2>4 DEF Arrive, GoFor, SlowGoFor, GoTillStop
<1>3. ASSUME NEW t \in Threads, Run(t) PROVE targetStepsPerSecond' = 0
  <2>1. CASE GoToCallsGoFor(t)
    BY <2>1 DEF GoToCallsGoFor, New
  <2>2. CASE GoForInternal(t)
    <3>1. commander' = t /\ res' = res /\ ctxErr' = ctxErr
      BY <2>2 DEF GoForInternal, SetTarget, Return, WaitTillNotPowered
    <3>2. res[t] # "ctx"
      BY <2>2 DEF GoForInternal, Return, WaitTillNotPowered, DeferredInv
    <3> QED BY <3>1, <3>2
  <2>3. CASE SlowGoForInternal(t) \/ WaitStops(t) \/ GoTillStopEnds(t)
    BY <2>3 DEF SlowGoForInternal, WaitStops, GoTillStopEnds, StopMotor
  <2>4. CASE GoTillStopGoFor(t)
    BY <2>4 DEF GoTillStopGoFor, SetTarget, mgrVars
  <2>5. ASSUME NEW b \in BOOLEAN, GoTillStopLoop(t, b) PROVE targetStepsPerSecond' = 0
    BY <2>5 DEF GoTillStopLoop, mgrVars, motor, history, InterruptedStops
  <2>6. CASE ManagerStep(t)
    <3>1. UNCHANGED <<motor, history>>
      BY <2>6 DEF ManagerStep
    <3>2. CASE pc[u] = "finish" /\ res[u] = "ctx" /\ ctxErr[u] = "canceled" /\ currentOp = u
      BY <3>1, <3>2 DEF motor, history, InterruptedStops
    <3>3. CASE t = u /\ (Deferred(t) \/ Reread(t))
      BY <3>3, NoneIsNoThread DEF Deferred, Reread, MustStop, DeferredInv
    <3> QED
      BY <2>6, <3>2, <3>3
      DEF ManagerStep, TestFunc, SelectContextOrWait, Deferred, Reread
  <2>7. CASE CallReturns(t)
    BY <2>7, NoneIsNoThread DEF CallReturns, Finish, IsCurrent, motor, InterruptedStops
  <2> QED BY <1>3, <2>1, <2>2, <2>3, <2>4, <2>5, <2>6, <2>7 DEF Run
<1>4. ASSUME NEW late \in BOOLEAN, DoCycle(late) PROVE targetStepsPerSecond' = 0
  BY <1>4 DEF DoCycle, mgrVars, history, InterruptedStops
<1>5. CASE DoRunExits
  BY <1>5 DEF DoRunExits, mgrVars, motor, history, InterruptedStops
<1> QED BY <1>1, <1>2, <1>3, <1>4, <1>5 DEF Next

(* A GoFor that was cancelled, not replaced and not overridden has stopped  *)
(* the motor by the time it returns.                                        *)
THEOREM InterruptedIsStopped == Spec => []InterruptedStops
<1>1. Init => InterruptedStops
  BY DEF Init, MgrInit, InterruptedStops
<1> QED
  BY <1>1, DriverTypeInit, DriverTypeStep, MgrInvInStepper, InterruptedStep, PTL DEF Spec
-----------------------------------------------------------------------------
(* Where the motor is on a clear course, at each place of the call: before  *)
(* goForInternal of a GoTo it rests, the revolutions away from the goal;    *)
(* while the call waits the target is the goal; once the wait saw it off it *)
(* rests there.                                                             *)
CourseOf(t) ==
  /\ call[t] = NoCall => pc[t] = "idle"
  /\ pc[t] \in {"idle", "run", "test", "select"} => res[t] = "none"
  /\ course[t] = "clear" =>
       /\ pc[t] \in {"idle", "run"} =>
            /\ call[t].kind \in {"goTo", "tillStopLoop", "tillStopEnd"}
            /\ call[t].kind = "goTo" =>
                 ~IsMoving /\ goal[t] = stepPosition + call[t].revolutions
       /\ pc[t] \in {"test", "select"} => targetStepPosition = goal[t]
       /\ pc[t] \in {"deferred", "reread", "stop", "finish"} /\ res[t] = "off" =>
            ~IsMoving /\ targetStepPosition = goal[t]

CourseInv == \A t \in Threads : CourseOf(t)

(* stop, and whoever else interferes, leaves no course clear.               *)
LEMMA DisturbedIsFree ==
  ASSUME CourseInv, NEW u \in Threads, course'[u] # "clear",
         call'[u] = NoCall => pc'[u] = "idle",
         pc'[u] \in {"idle", "run", "test", "select"} => res'[u] = "none"
  PROVE  CourseOf(u)'
BY DEF CourseOf

LEMMA CourseArrive ==
  ASSUME MgrInv, DriverTypeOK, CourseInv, NEW t \in Threads, Arrive(t),
         NEW u \in Threads
  PROVE  CourseOf(u)'
<1> USE DEF MgrInv, MgrTypeOK
<1>0. CourseOf(u) /\ CourseOf(t)
  BY DEF CourseInv
<1>1. ASSUME NEW kind \in {"goFor", "slowGoFor", "goTillStop"}, NEW r \in Int,
             Begin(t, kind, r), New(t), UNCHANGED <<goal, course>>
      PROVE  CourseOf(u)'
  <2>1. pc[t] = "idle" /\ call[t] = NoCall /\ course[t] # "clear"
    BY <1>0, <1>1 DEF New, Begin, CourseOf, NoCall
  <2>2. UNCHANGED <<motor, goal, course, res>>
    BY <1>1 DEF Begin, New
  <2>3. CASE u # t
    <3>1. call'[u] = call[u] /\ pc'[u] = pc[u]
      BY <1>1, <2>3 DEF Begin, New, DriverTypeOK
    <3> QED BY <1>0, <2>2, <3>1 DEF motor, CourseOf, IsMoving
  <2>4. CASE u = t
    <3>1. call'[t] # NoCall /\ pc'[t] = "run"
      BY <1>1 DEF Begin, New, NoCall, DriverTypeOK
    <3> QED BY <1>0, <2>1, <2>2, <2>4, <3>1, DisturbedIsFree DEF CourseOf
  <2> QED BY <2>3, <2>4
<1>2. ASSUME NEW g \in Goals, GoTo(t, g) PROVE CourseOf(u)'
  <2>1. pc[t] = "idle" /\ call[t] = NoCall
    BY <1>0, <1>2 DEF GoTo, Begin, CourseOf
  <2>2. UNCHANGED <<motor, pc, res>>
    BY <1>2 DEF GoTo, Begin, mgrVars
  <2>3. CASE u # t
    <3>1. call'[u] = call[u] /\ goal'[u] = goal[u] /\ course'[u] = course[u]
      BY <1>2, <2>3 DEF GoTo, Begin, DriverTypeOK
    <3> QED BY <1>0, <2>2, <3>1 DEF motor, CourseOf, IsMoving
  <2>4. CASE u = t
    <3>1. g \in Int /\ stepPosition \in Int
      BY StepperConstants DEF StepperConstants, DriverTypeOK
    <3>2. /\ call'[t] = [kind |-> "goTo", revolutions |-> g - stepPosition]
          /\ goal'[t] = g /\ (course'[t] = "clear" => ~IsMoving)
      BY <1>2 DEF GoTo, Begin, DriverTypeOK
    <3>3. g = stepPosition + (g - stepPosition)
      BY <3>1
    <3> QED BY <1>0, <2>1, <2>2, <2>4, <3>2, <3>3 DEF motor, CourseOf, IsMoving, NoCall
  <2> QED BY <2>3, <2>4
<1>3. CASE Stop(t) \/ \E g \in Goals : ResetZeroPosition(t, g)
  <2>1. course'[u] = "disturbed" /\ UNCHANGED <<mgrVars, call>>
    BY <1>3 DEF Stop, StopMotor, ResetZeroPosition, Interfere
  <2> QED BY <1>0, <2>1, DisturbedIsFree DEF mgrVars, CourseOf
<1>4. ASSUME NEW why \in Endings, ClientContextEnds(t, why) PROVE CourseOf(u)'
  BY <1>0, <1>4 DEF ClientContextEnds, ContextEnds, motor, history, CourseOf, IsMoving
<1>5. \A r \in Distances : r \in Int
  BY StepperConstants DEF StepperConstants
<1> QED
  BY <1>1, <1>2, <1>3, <1>4, <1>5, 0 \in Int, 1 \in Int
  DEF Arrive, GoFor, SlowGoFor, GoTillStop

LEMMA CourseRun ==
  ASSUME MgrInv, DriverTypeOK, CourseInv, NEW t \in Threads, Run(t),
         NEW u \in Threads
  PROVE  CourseOf(u)'
<1> USE DEF MgrInv, MgrTypeOK
<1>0. CourseOf(u) /\ CourseOf(t)
  BY DEF CourseInv
<1>1. CASE GoToCallsGoFor(t)
  <2>1. pc[t] = "idle" /\ pc' = [pc EXCEPT ![t] = "run"] /\ call[t].kind = "goTo"
        /\ UNCHANGED <<motor, call, history, res>>
    BY <1>1 DEF GoToCallsGoFor, New
  <2> QED BY <1>0, <2>1 DEF motor, history, CourseOf, IsMoving, NoCall
<1>2. CASE GoForInternal(t)
  <2>1. /\ SetTarget(t) /\ UNCHANGED <<call, res>> /\ pc[t] = "run"
        /\ call[t].kind \in {"goFor", "goTo"}
        /\ \/ call[t].revolutions = 0 /\ pc' = [pc EXCEPT ![t] = "finish"]
           \/ call[t].revolutions # 0 /\ pc' = [pc EXCEPT ![t] = "test"]
    BY <1>2 DEF GoForInternal, Return, WaitTillNotPowered
  <2>2. CASE u # t
    <3>1. course'[u] = "disturbed" /\ pc'[u] = pc[u]
      BY <2>1, <2>2 DEF SetTarget, Interfere
    <3> QED BY <1>0, <2>1, <3>1, DisturbedIsFree DEF CourseOf
  <2>3. CASE u = t /\ call[t].revolutions = 0
    <3>1. pc'[t] = "finish" /\ res'[t] = "none" /\ call'[t] # NoCall
      BY <1>0, <2>1, <2>3 DEF CourseOf, NoCall
    <3> QED BY <2>3, <3>1 DEF CourseOf
  <2>4. CASE u = t /\ call[t].revolutions # 0
    <3>1. pc'[t] = "test" /\ res'[t] = "none" /\ call'[t] # NoCall
      BY <1>0, <2>1, <2>4 DEF CourseOf, NoCall
    <3>2. targetStepPosition' = targetStepPosition + call[t].revolutions
      BY <2>1, <2>4 DEF SetTarget
    <3>3. course'[t] = "clear" => targetStepPosition' = goal'[t]
      <4>1. CASE call[t].kind = "goTo"
        <5>1. goal' = goal /\ course'[t] = course[t]
          BY <2>1, <4>1 DEF SetTarget, Interfere
        <5> QED BY <1>0, <2>1, <3>2, <4>1, <5>1 DEF CourseOf, IsMoving
      <4>2. CASE call[t].kind # "goTo"
        <5>1. goal'[t] = stepPosition + call[t].revolutions
              /\ (course'[t] = "clear" => ~IsMoving)
          BY <2>1, <2>4, <4>2 DEF SetTarget, Interfere, DriverTypeOK
        <5> QED BY <3>2, <5>1 DEF IsMoving
      <4> QED BY <4>1, <4>2
    <3> QED BY <2>4, <3>1, <3>3 DEF CourseOf
  <2> QED BY <2>2, <2>3, <2>4
<1>3. CASE SlowGoForInternal(t) \/ GoTillStopEnds(t) \/ WaitStops(t)
  <2>1. /\ course'[u] = "disturbed" /\ UNCHANGED <<call, res>>
        /\ pc[t] \in {"run", "stop"} /\ \E p \in {"test", "finish"} : pc' = [pc EXCEPT ![t] = p]
        /\ pc[t] = "stop" => pc'[t] = "finish"
    BY <1>3
    DEF SlowGoForInternal, GoTillStopEnds, WaitStops, StopMotor, Interfere, Return,
        WaitTillNotPowered, StopFromWait
  <2> QED BY <1>0, <2>1, DisturbedIsFree DEF CourseOf
<1>4. CASE GoTillStopGoFor(t)
  <2>1. /\ SetTarget(t) /\ UNCHANGED mgrVars /\ pc[t] = "run"
        /\ call' = [call EXCEPT ![t].kind = "tillStopLoop"]
    BY <1>4 DEF GoTillStopGoFor
  <2>2. CASE u # t
    <3>1. course'[u] = "disturbed" /\ call'[u] = call[u]
      BY <2>1, <2>2 DEF SetTarget, Interfere, DriverTypeOK
    <3> QED BY <1>0, <2>1, <3>1, DisturbedIsFree DEF mgrVars, CourseOf
  <2>3. CASE u = t
    <3>1. call'[t].kind = "tillStopLoop" /\ call'[t] # NoCall
      BY <2>1 DEF DriverTypeOK, CallRecords, NoCall
    <3> QED BY <1>0, <2>1, <2>3, <3>1 DEF mgrVars, CourseOf
  <2> QED BY <2>2, <2>3
<1>5. ASSUME NEW b \in BOOLEAN, GoTillStopLoop(t, b) PROVE CourseOf(u)'
  <2>1. /\ call[t].kind = "tillStopLoop" /\ call' = [call EXCEPT ![t].kind = "tillStopEnd"]
        /\ UNCHANGED <<mgrVars, motor, history>>
    BY <1>5 DEF GoTillStopLoop
  <2>2. call'[t].kind = "tillStopEnd" /\ call'[t] # NoCall /\ (u # t => call'[u] = call[u])
    BY <2>1 DEF DriverTypeOK, CallRecords, NoCall
  <2> QED BY <1>0, <2>1, <2>2 DEF mgrVars, motor, history, CourseOf, IsMoving
<1>6. CASE ManagerStep(t)
  <2>1. UNCHANGED <<motor, call, history>>
    BY <1>6 DEF ManagerStep
  <2>2. CASE u # t
    <3>1. pc'[u] = pc[u] /\ res'[u] = res[u]
      BY <1>6, <2>2
      DEF ManagerStep, TestFunc, SelectContextOrWait, Deferred, Reread
    <3> QED BY <1>0, <2>1, <3>1 DEF motor, history, CourseOf, IsMoving
  <2>3. CASE u = t
    <3>1. call[t] # NoCall
      BY <1>0, <1>6 DEF CourseOf, ManagerStep, TestFunc, SelectContextOrWait, Deferred, Reread
    <3>2. CASE TestFunc(t, IF IsMoving THEN "on" ELSE "off")
      BY <1>0, <2>1, <2>3, <3>1, <3>2 DEF TestFunc, motor, history, CourseOf, IsMoving
    <3>3. CASE SelectContextOrWait(t)
      BY <1>0, <2>1, <2>3, <3>1, <3>3 DEF SelectContextOrWait, motor, history, CourseOf, IsMoving
    <3>4. CASE Deferred(t) \/ Reread(t)
      BY <1>0, <2>1, <2>3, <3>1, <3>4 DEF Deferred, Reread, motor, history, CourseOf, IsMoving
    <3> QED BY <1>6, <3>2, <3>3, <3>4 DEF ManagerStep
  <2> QED BY <2>2, <2>3
<1>7. CASE CallReturns(t)
  <2>1. UNCHANGED motor
    BY <1>7 DEF CallReturns
  <2>2. CASE u # t
    <3>1. /\ pc'[u] = pc[u] /\ res'[u] = res[u] /\ call'[u] = call[u]
          /\ goal'[u] = goal[u] /\ course'[u] = course[u]
      BY <1>7, <2>2 DEF CallReturns, Finish, DriverTypeOK
    <3> QED BY <1>0, <2>1, <3>1 DEF motor, CourseOf, IsMoving
  <2>3. CASE u = t
    BY <1>7, <2>3, DisturbedIsFree DEF CallReturns, Finish, DriverTypeOK
  <2> QED BY <2>2, <2>3
<1> QED BY <1>1, <1>2, <1>3, <1>4, <1>5, <1>6, <1>7, Run(t) DEF Run

LEMMA CourseStep == MgrInv /\ DriverTypeOK /\ CourseInv /\ [Next]_vars => CourseInv'
<1> SUFFICES ASSUME MgrInv, DriverTypeOK, CourseInv, [Next]_vars, NEW u \in Threads
             PROVE  CourseOf(u)'
  BY DEF CourseInv
<1>0. CourseOf(u)
  BY DEF CourseInv
<1>1. CASE UNCHANGED vars
  BY <1>0, <1>1 DEF vars, mgrVars, motor, history, CourseOf, IsMoving
<1>2. ASSUME NEW t \in Threads, Arrive(t) \/ Run(t) PROVE CourseOf(u)'
  BY <1>2, CourseArrive, CourseRun
<1>3. ASSUME NEW late \in BOOLEAN, DoCycle(late) PROVE CourseOf(u)'
  BY <1>0, <1>3 DEF DoCycle, mgrVars, history, CourseOf, IsMoving
<1>4. CASE DoRunExits
  BY <1>0, <1>4 DEF DoRunExits, mgrVars, motor, history, CourseOf, IsMoving
<1> QED BY <1>1, <1>2, <1>3, <1>4 DEF Next

(* A GoFor or GoTo on a clear course that returns because the motor is off  *)
(* has brought it where it was to go, whatever the other threads did.       *)
THEOREM ClearMovesArrive == Spec => []ClearMoveArrives
<1>1. Init => CourseInv
  BY DEF Init, MgrInit, CourseInv, CourseOf, NoCall
<1>2. CourseInv => ClearMoveArrives
  BY DEF CourseInv, CourseOf, ClearMoveArrives, IsMoving
<1> QED
  BY <1>1, <1>2, DriverTypeInit, DriverTypeStep, MgrInvInStepper, CourseStep, PTL DEF Spec
=============================================================================
