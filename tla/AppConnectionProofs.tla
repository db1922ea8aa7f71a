------------------------- MODULE AppConnectionProofs -------------------------
(***************************************************************************)
(* Proofs about the page's connection, for any resources and deployments.  *)
(*                                                                         *)
(* StreamFollowsResources is inductive as it stands.  That the page takes  *)
(* only steps of the connection monitor needs the types (the flags are     *)
(* Boolean) and that the loop does not run before the log-in is over.      *)
(***************************************************************************)
EXTENDS AppConnection, TLAPS

\* start() of app.vue runs manageLoop exactly once, when connected.
LoopStartsOnce == pc = "off" <=> login # "done"

ConnInv == TypeOK /\ LoopStartsOnce

-----------------------------------------------------------------------------
(* The parts of a pass.                                                    *)

\* The flags stay Boolean whatever an answer is.
LEMMA NoteTyped ==
  ASSUME NEW m \in Manager, NEW f \in {"resources", "ops", "sessions"}, NEW o
  PROVE  Note(m, f, o) \in Manager
<1>1. CASE o = "ok"
  <2>1. Note(m, f, o) = [m EXCEPT ![f] = TRUE, !.restablished = @ \/ ~m[f]]
    BY <1>1 DEF Note
  <2>2. QED
    BY <2>1 DEF Manager
<1>2. CASE o = "closed"
  <2>1. Note(m, f, o) = [m EXCEPT ![f] = FALSE]
    BY <1>2 DEF Note
  <2>2. QED
    BY <2>1 DEF Manager
<1>3. CASE o # "ok" /\ o # "closed"
  <2>1. Note(m, f, o) = [m EXCEPT !.errors = TRUE]
    BY <1>3 DEF Note
  <2>2. QED
    BY <2>1 DEF Manager
<1>4. QED
  BY <1>1, <1>2, <1>3

\* A turn of a pass either asks on and leaves the banner alone, or ends the
\* pass with a verdict that the banner shows; it never opens a stream.
PassStep ==
  /\ \/ pc' \in {"ops", "sessions"} /\ banner' = banner
     \/ pc' = "timer" /\ banner' = FALSE
     \/ pc' = "connect" /\ banner' = TRUE
  /\ mgr' \in Manager /\ errorShown' \in BOOLEAN /\ resourcesOnce' \in BOOLEAN
  /\ stream' \in {stream, "none"}

LEMMA DecideIsPassStep ==
  ASSUME TypeOK, NEW m \in Manager, Decide(m)
  PROVE  PassStep
<1>1. m.resources \in BOOLEAN /\ m.ops \in BOOLEAN /\ m.errors \in BOOLEAN
  BY DEF Manager
<1>2. CASE IsConnected(m)
  <2>1. mgr' = [m EXCEPT !.restablished = FALSE] /\ banner' = FALSE /\ pc' = "timer"
        /\ UNCHANGED <<errorShown, resourcesOnce, stream>>
    BY <1>2 DEF Decide, ErrorMessage
  <2>2. mgr' \in Manager
    BY <2>1 DEF Manager
  <2>3. QED
    BY <2>1, <2>2 DEF PassStep, TypeOK
<1>3. CASE ~IsConnected(m)
  <2>1. mgr' = m /\ banner' = TRUE /\ pc' = "connect" /\ stream' = "none"
        /\ resourcesOnce' = FALSE /\ errorShown' = (errorShown \/ m.errors)
    BY <1>3 DEF Decide, ErrorMessage, handleCallErrors
  <2>2. QED
    BY <1>1, <2>1 DEF PassStep, TypeOK
<1>4. QED
  BY <1>2, <1>3

LEMMA AskSessionsIsPassStep ==
  ASSUME TypeOK, NEW m \in Manager, AskSessions(m)
  PROVE  PassStep
<1>1. CASE ~m.ops
  BY <1>1, DecideIsPassStep DEF AskSessions
<1>2. CASE m.ops /\ ~sessionsSupported
  <2>1. [m EXCEPT !.sessions = TRUE, !.restablished = @ \/ ~m.sessions] \in Manager
    BY DEF Manager
  <2>2. QED
    BY <1>2, <2>1, DecideIsPassStep DEF AskSessions
<1>3. CASE m.ops /\ sessionsSupported
  BY <1>3 DEF AskSessions, PassStep, TypeOK
<1>4. QED
  BY <1>1, <1>2, <1>3

LEMMA AskOpsIsPassStep ==
  ASSUME TypeOK, NEW m \in Manager, AskOps(m)
  PROVE  PassStep
<1>1. CASE ~m.resources
  BY <1>1, AskSessionsIsPassStep DEF AskOps
<1>2. CASE m.resources
  BY <1>2 DEF AskOps, PassStep, TypeOK
<1>3. QED
  BY <1>1, <1>2

\* What the answers below have in common.
AnswerStep ==
  /\ pc \in {"names", "ops", "sessions"} /\ PassStep
  /\ sessionsSupported' \in BOOLEAN
  /\ UNCHANGED <<webrtc, password, login, data, restart, fresh, streamFor, robot>>

\* The answers of a pass after the resources have come, or have not.
LEMMA AnswersArePassSteps ==
  ASSUME TypeOK,
         \/ SessionsUnimplemented
         \/ \E o \in {"ok", "closed", "error"} : NamesFail(o) \/ OpsAnswer(o) \/ SessionsAnswer(o)
  PROVE  AnswerStep
<1>0. mgr \in Manager /\ sessionsSupported \in BOOLEAN
  BY DEF TypeOK
<1>1. CASE SessionsUnimplemented
  <2>1. Decide(Note(mgr, "sessions", "error"))
    BY <1>1 DEF SessionsUnimplemented
  <2>2. PassStep
    BY <1>0, <2>1, NoteTyped, DecideIsPassStep
  <2>3. QED
    BY <1>1, <2>2 DEF SessionsUnimplemented, AnswerStep
<1>2. ASSUME NEW o \in {"ok", "closed", "error"}, NamesFail(o)
      PROVE  AnswerStep
  <2>1. AskOps(Note(mgr, "resources", o))
    BY <1>2 DEF NamesFail
  <2>2. PassStep
    BY <1>0, <2>1, NoteTyped, AskOpsIsPassStep
  <2>3. QED
    BY <1>0, <1>2, <2>2 DEF NamesFail, AnswerStep
<1>3. ASSUME NEW o \in {"ok", "closed", "error"}, OpsAnswer(o)
      PROVE  AnswerStep
  <2>1. AskSessions(Note(mgr, "ops", o))
    BY <1>3 DEF OpsAnswer
  <2>2. PassStep
    BY <1>0, <2>1, NoteTyped, AskSessionsIsPassStep
  <2>3. QED
    BY <1>0, <1>3, <2>2 DEF OpsAnswer, AnswerStep
<1>4. ASSUME NEW o \in {"ok", "closed", "error"}, SessionsAnswer(o)
      PROVE  AnswerStep
  <2>1. Decide(Note(mgr, "sessions", o))
    BY <1>4 DEF SessionsAnswer
  <2>2. PassStep
    BY <1>0, <2>1, NoteTyped, DecideIsPassStep
  <2>3. QED
    BY <1>0, <1>4, <2>2 DEF SessionsAnswer, AnswerStep
<1>5. QED
  BY <1>1, <1>2, <1>3, <1>4
-----------------------------------------------------------------------------
(* Types, and the loop starts once.                                        *)

LEMMA ConnInit == Init => ConnInv
<1>1. ASSUME Init PROVE webrtc \in BOOLEAN /\ password \in BOOLEAN /\ sessionsThere \in BOOLEAN
  BY <1>1, DeploymentsAssumption DEF Init
<1>2. Init => mgr \in Manager
  BY DEF Init, Manager
<1>3. QED
  BY <1>1, <1>2 DEF Init, ConnInv, TypeOK, LoopStartsOnce

\* Logging in, and the timer.
LEMMA LoginKeeps ==
  ASSUME ConnInv, Login \/ Retry \/ Connected \/ ConnectFailed \/ Timeout
  PROVE  ConnInv'
<1>1. BeginPass => mgr' \in Manager /\ restart' \in BOOLEAN /\ pc' = "names"
  BY DEF BeginPass, MustRestart, ConnInv, TypeOK, Manager
<1>2. CASE Login \/ Retry \/ ConnectFailed
  BY <1>2 DEF Login, Retry, ConnectFailed, page, data, flow, robot, ConnInv, TypeOK,
              LoopStartsOnce
<1>3. CASE Connected
  BY <1>1, <1>3 DEF Connected, page, data, ConnInv, TypeOK, LoopStartsOnce
<1>4. CASE Timeout
  BY <1>1, <1>4 DEF Timeout, page, data, robot, ConnInv, TypeOK, LoopStartsOnce
<1>5. QED
  BY <1>2, <1>3, <1>4

LEMMA AnswersKeep ==
  ASSUME ConnInv, Answers
  PROVE  ConnInv'
<1>1. CASE NamesOk
  <2>1. mgr' \in Manager
    BY <1>1, NoteTyped DEF NamesOk, ConnInv, TypeOK
  <2>2. stream' \in {"none", "open", "dead"} /\ streamFor' \subseteq Resources
    BY <1>1 DEF NamesOk, restartStatusStream, ConnInv, TypeOK
  <2>3. sensorsAsked' \in BOOLEAN
    BY <1>1 DEF NamesOk, ConnInv, TypeOK
  <2>4. QED
    BY <1>1, <2>1, <2>2, <2>3 DEF NamesOk, page, robot, ConnInv, TypeOK, LoopStartsOnce
<1>2. CASE \/ SessionsUnimplemented
           \/ \E o \in {"ok", "closed", "error"} :
                NamesFail(o) \/ OpsAnswer(o) \/ SessionsAnswer(o)
  <2>1. AnswerStep
    BY <1>2, AnswersArePassSteps DEF ConnInv
  <2>2. LoopStartsOnce'
    BY <2>1 DEF AnswerStep, PassStep, ConnInv, LoopStartsOnce
  <2>3. TypeOK'
    <3>1. /\ pc' \in {"ops", "sessions", "timer", "connect"} /\ banner' \in BOOLEAN
          /\ mgr' \in Manager /\ errorShown' \in BOOLEAN /\ resourcesOnce' \in BOOLEAN
          /\ stream' \in {"none", "open", "dead"} /\ sessionsSupported' \in BOOLEAN
      BY <2>1 DEF AnswerStep, PassStep, ConnInv, TypeOK
    <3>2. UNCHANGED <<webrtc, password, login, data, restart, fresh, streamFor, robot>>
      BY <2>1 DEF AnswerStep
    <3>3. QED
      BY <3>1, <3>2 DEF data, robot, ConnInv, TypeOK
  <2>4. QED
    BY <2>2, <2>3 DEF ConnInv
<1>3. CASE Reconnect
  BY <1>3 DEF Reconnect, page, data, flow, ConnInv, TypeOK, LoopStartsOnce
<1>4. CASE \E o \in {"ok", "closed", "error"} : ReopsAnswer(o)
  BY <1>4 DEF ReopsAnswer, page, data, robot, ConnInv, TypeOK, LoopStartsOnce
<1>5. QED
  BY <1>1, <1>2, <1>3, <1>4 DEF Answers

\* The stream, the sensors and the robot.
LEMMA OthersKeep ==
  ASSUME ConnInv,
         \/ StreamData \/ StreamEnd \/ Age
         \/ \E o \in {"ok", "closed", "error"} : SensorsAnswer(o)
         \/ Down \/ Up \/ Reconfigure \/ CalmDown
  PROVE  ConnInv' /\ UNCHANGED <<pc, banner>>
<1>1. UNCHANGED <<pc, banner, login>>
  BY DEF StreamData, StreamEnd, Age, SensorsAnswer, Down, Up, Reconfigure, CalmDown, page
<1>2. LoopStartsOnce'
  BY <1>1 DEF ConnInv, LoopStartsOnce
<1>3. TypeOK'
  <2>1. CASE StreamData
    BY <2>1 DEF StreamData, page, robot, ConnInv, TypeOK
  <2>2. CASE StreamEnd
    BY <2>2 DEF StreamEnd, page, data, robot, ConnInv, TypeOK
  <2>3. CASE Age
    <3>1. fresh' \in BOOLEAN
      BY <2>3 DEF Age
    <3>2. UNCHANGED <<webrtc, password, login, pc, mgr, page, data, resourcesOnce, restart,
                      stream, streamFor, robot>>
      BY <2>3 DEF Age
    <3>3. QED
      BY <3>1, <3>2 DEF page, data, robot, ConnInv, TypeOK
  <2>4. CASE \E o \in {"ok", "closed", "error"} : SensorsAnswer(o)
    <3>1. sensorsAsked' \in BOOLEAN /\ sensorNames' \in BOOLEAN
      <4>1. PICK o \in {"ok", "closed", "error"} : SensorsAnswer(o)
        BY <2>4
      <4>2. sensorsAsked' = FALSE
        BY <4>1 DEF SensorsAnswer
      <4>3. CASE o = "ok"
        <5>1. sensorNames' = (Sensors \in present)
          BY <4>1, <4>3 DEF SensorsAnswer
        <5>2. (Sensors \in present) \in BOOLEAN
          BY SMT
        <5>3. sensorNames' \in BOOLEAN
          BY <5>1, <5>2, Zenon
        <5>4. QED
          BY <4>2, <5>3
      <4>4. CASE o # "ok"
        BY <4>1, <4>2, <4>4 DEF SensorsAnswer, ConnInv, TypeOK
      <4>5. QED
        BY <4>3, <4>4
    <3>2. UNCHANGED <<webrtc, password, login, pc, mgr, page, resources, status, flow, robot>>
      BY <2>4 DEF SensorsAnswer
    <3>3. QED
      BY <3>1, <3>2 DEF page, flow, robot, ConnInv, TypeOK
  <2>5. CASE Down
    <3>1. up' \in BOOLEAN /\ peer' \in BOOLEAN /\ stream' \in {stream, "dead"}
      BY <2>5 DEF Down
    <3>2. UNCHANGED <<webrtc, password, login, pc, mgr, page, data, resourcesOnce, restart,
                      fresh, streamFor, present, sessionsThere, calm>>
      BY <2>5 DEF Down
    <3>3. QED
      BY <3>1, <3>2 DEF page, data, ConnInv, TypeOK
  <2>6. CASE Up
    BY <2>6 DEF Up, page, data, flow, ConnInv, TypeOK
  <2>7. CASE Reconfigure
    BY <2>7 DEF Reconfigure, page, data, flow, ConnInv, TypeOK
  <2>8. CASE CalmDown
    BY <2>8 DEF CalmDown, page, data, flow, ConnInv, TypeOK
  <2>9. QED
    BY <2>1, <2>2, <2>3, <2>4, <2>5, <2>6, <2>7, <2>8
<1>4. QED
  BY <1>1, <1>2, <1>3 DEF ConnInv

LEMMA ConnStep == ConnInv /\ [Next]_vars => ConnInv'
<1> SUFFICES ASSUME ConnInv, [Next]_vars PROVE ConnInv'
  OBVIOUS
<1>1. CASE UNCHANGED vars
  BY <1>1 DEF vars, page, data, flow, robot, ConnInv, TypeOK, LoopStartsOnce
<1>2. CASE Next
  BY <1>2, LoginKeeps, AnswersKeep, OthersKeep DEF Next, Loop
<1>3. QED
  BY <1>1, <1>2

\* The variables of the page keep their types.
THEOREM PageTypeCorrect == Spec => []TypeOK
<1>1. ConnInv => TypeOK
  BY DEF ConnInv
<1>2. QED
  BY <1>1, ConnInit, ConnStep, PTL DEF Spec

-----------------------------------------------------------------------------
(* The stream.                                                             *)

\* Whatever the robot does between two answers, an open stream was opened for
\* the relevant resources the page knows (queryMetadata of app.vue).
THEOREM StreamIsForResources == Spec => []StreamFollowsResources
<1>1. Init => StreamFollowsResources
  BY DEF Init, StreamFollowsResources
<1>2. StreamFollowsResources /\ ConnInv /\ [Next]_vars => StreamFollowsResources'
  <2> SUFFICES ASSUME StreamFollowsResources, ConnInv, [Next]_vars
               PROVE  StreamFollowsResources'
    OBVIOUS
  <2>1. CASE NamesOk
    BY <2>1 DEF NamesOk, restartStatusStream, RelevantChange, StreamFollowsResources
  <2>2. CASE \/ SessionsUnimplemented
             \/ \E o \in {"ok", "closed", "error"} :
                  NamesFail(o) \/ OpsAnswer(o) \/ SessionsAnswer(o)
    <3>1. AnswerStep
      BY <2>2, AnswersArePassSteps DEF ConnInv
    <3>2. QED
      BY <3>1 DEF AnswerStep, PassStep, data, StreamFollowsResources
  <2>3. CASE \/ Login \/ Retry \/ Connected \/ ConnectFailed \/ Timeout \/ Reconnect
             \/ \E o \in {"ok", "closed", "error"} : ReopsAnswer(o)
    BY <2>3 DEF Login, Retry, Connected, ConnectFailed, Timeout, Reconnect, ReopsAnswer, flow,
                data, StreamFollowsResources
  <2>4. CASE \/ StreamData \/ StreamEnd \/ Age
             \/ \E o \in {"ok", "closed", "error"} : SensorsAnswer(o)
    BY <2>4 DEF StreamData, StreamEnd, Age, SensorsAnswer, flow, data, StreamFollowsResources
  <2>5. CASE Down \/ Up \/ Reconfigure \/ CalmDown
    BY <2>5 DEF Down, Up, Reconfigure, CalmDown, flow, data, StreamFollowsResources
  <2>6. CASE UNCHANGED vars
    BY <2>6 DEF vars, flow, data, StreamFollowsResources
  <2>7. QED
    BY <2>1, <2>2, <2>3, <2>4, <2>5, <2>6 DEF Next, Loop, Answers
<1>3. QED
  BY <1>1, <1>2, ConnInit, ConnStep, PTL DEF Spec

-----------------------------------------------------------------------------
(* The loop implements the connection monitor.                             *)

LEMMA PhaseOf ==
  /\ pc = "off" => Phase = "off"
  /\ pc \in {"names", "ops", "sessions"} => Phase = "asking"
  /\ pc \in {"connect", "reops"} => Phase = "repairing"
  /\ pc = "timer" => Phase = "waiting"
BY DEF Phase

LEMMA PhaseNext ==
  /\ pc' = "off" => Phase' = "off"
  /\ pc' \in {"names", "ops", "sessions"} => Phase' = "asking"
  /\ pc' \in {"connect", "reops"} => Phase' = "repairing"
  /\ pc' = "timer" => Phase' = "waiting"
  /\ pc' = pc => Phase' = Phase
BY DEF Phase

\* Every turn of the page is a step of the monitor or leaves it alone.
LEMMA TurnIsMonitorStep ==
  ASSUME ConnInv, [Next]_vars PROVE [Monitor!Next]_<<Phase, banner>>
<1>1. CASE UNCHANGED <<pc, banner>>
  BY <1>1, PhaseNext
<1>2. CASE Connected
  <2>1. pc = "off" /\ pc' = "names" /\ UNCHANGED banner
    BY <1>2 DEF Connected, BeginPass, ConnInv, LoopStartsOnce, page
  <2>2. Monitor!Start
    BY <2>1, PhaseOf, PhaseNext DEF Monitor!Start
  <2>3. QED
    BY <2>2 DEF Monitor!Next
<1>3. CASE NamesOk
  <2>1. pc = "names" /\ pc' = "ops" /\ UNCHANGED banner
    BY <1>3 DEF NamesOk, page
  <2>2. QED
    BY <2>1, PhaseOf, PhaseNext
<1>4. CASE \/ SessionsUnimplemented
           \/ \E o \in {"ok", "closed", "error"} :
                NamesFail(o) \/ OpsAnswer(o) \/ SessionsAnswer(o)
  <2>1. AnswerStep
    BY <1>4, AnswersArePassSteps DEF ConnInv
  <2>2. Phase = "asking"
    BY <1>4, PhaseOf DEF SessionsUnimplemented, NamesFail, OpsAnswer, SessionsAnswer
  <2>3. \/ pc' \in {"ops", "sessions"} /\ banner' = banner
        \/ pc' = "timer" /\ banner' = FALSE
        \/ pc' = "connect" /\ banner' = TRUE
    BY <2>1 DEF AnswerStep, PassStep
  <2>4. UNCHANGED <<Phase, banner>> \/ Monitor!Good \/ Monitor!Bad
    BY <2>2, <2>3, PhaseNext DEF Monitor!Good, Monitor!Bad
  <2>5. QED
    BY <2>4 DEF Monitor!Next, Monitor!Pass
<1>5. CASE \/ Reconnect
           \/ \E o \in {"ok", "closed", "error"} : ReopsAnswer(o)
  <2>1. pc \in {"connect", "reops"} /\ pc' \in {"reops", "timer"} /\ UNCHANGED banner
    BY <1>5 DEF Reconnect, ReopsAnswer, page
  <2>2. UNCHANGED <<Phase, banner>> \/ Monitor!Repaired
    BY <2>1, PhaseOf, PhaseNext DEF Monitor!Repaired
  <2>3. QED
    BY <2>2 DEF Monitor!Next, Monitor!Pass
<1>6. CASE Timeout
  <2>1. pc = "timer" /\ pc' = "names" /\ UNCHANGED banner
    BY <1>6 DEF Timeout, BeginPass, page
  <2>2. Monitor!Again
    BY <2>1, PhaseOf, PhaseNext DEF Monitor!Again
  <2>3. QED
    BY <2>2 DEF Monitor!Next, Monitor!Pass
<1>7. CASE Login \/ Retry \/ ConnectFailed
  <2>1. UNCHANGED <<pc, banner>>
    BY <1>7 DEF Login, Retry, ConnectFailed, page
  <2>2. QED
    BY <1>1, <2>1
<1>8. CASE \/ StreamData \/ StreamEnd \/ Age
           \/ \E o \in {"ok", "closed", "error"} : SensorsAnswer(o)
           \/ Down \/ Up \/ Reconfigure \/ CalmDown
  BY <1>1, <1>8, OthersKeep
<1>9. CASE UNCHANGED vars
  BY <1>1, <1>9 DEF vars, page
<1>10. QED
  BY <1>2, <1>3, <1>4, <1>5, <1>6, <1>7, <1>8, <1>9 DEF Next, Loop, Answers

\* The loop of app.vue (queryMetadata, checks, reconnect, the timer) does only
\* what the connection monitor allows: one pass at a time, and the banner moves
\* only with the verdict of a pass.
THEOREM LoopImplementsMonitor == Spec => MonitorSteps
<1>1. Init => Monitor!Init
  BY PhaseOf DEF Init, Monitor!Init
<1>2. ConnInv /\ [Next]_vars => [Monitor!Next]_<<Phase, banner>>
  BY TurnIsMonitorStep
<1>3. QED
  BY <1>1, <1>2, ConnInit, ConnStep, PTL DEF Spec, MonitorSteps, Monitor!Steps, Monitor!vars
=============================================================================
