--------------------------- MODULE SessionManager ---------------------------
(***************************************************************************)
(* The server side of robot sessions: robot/session_manager.go, the gRPC   *)
(* interceptors of robot/session_web.go, session.Session, and the          *)
(* StartSession and SendSessionHeartbeat handlers of robot/server.         *)
(*                                                                         *)
(* Every gRPC request runs on a goroutine of its own (request[q]); one     *)
(* more goroutine runs expireLoop.  Each critical section of               *)
(* sessionResourceMu that does not block is one step guarded by the mutex  *)
(* being free; the one that does (expireLoop stopping resources while it   *)
(* holds the write lock) is a sequence of steps.                           *)
(*                                                                         *)
(* A definition directly above a one-line helper, with the same            *)
(* parameters, is a plausible mistake in that helper's code; no action     *)
(* uses it.  PROJECT.json pairs it with the property it would break.       *)
(***************************************************************************)
EXTENDS Integers, FiniteSets

CONSTANTS
  Sessions,         \* the session ids uuid.New may return
  Resources,        \* the safety monitored resources of the robot
  Owners,           \* the authenticated subjects
  Requests,         \* the concurrent gRPC requests
  Nil,              \* uuid.Nil: no session id in the request's metadata
  NoResource,       \* the zero resource.Name: the method is not monitored
  Idle,             \* nothing drives the resource
  heartbeatWindow,  \* the window a heartbeat extends a session by
  maxSessions,      \* the limit Start compares len(m.sessions) with
  MaxTime           \* bound: the clock stops here

ASSUME SessionConstants ==
  /\ heartbeatWindow \in Nat \ {0}
  /\ maxSessions \in Nat
  /\ MaxTime \in Nat
  /\ Nil \notin Sessions /\ Idle \notin Sessions /\ Nil # Idle
  /\ NoResource \notin Resources
  /\ Nil \notin Owners
  /\ IsFiniteSet(Sessions)

VARIABLES
  clock,              \* time.Now()
  sessions,           \* the keys of m.sessions
  issued,             \* ids that were ever put in m.sessions
  deadline,           \* Session.deadline, which outlives the map entry
  ownerID,            \* Session.ownerID
  resourceToSession,  \* m.resourceToSession; an absent key reads as Nil
  sessionResourceMu,  \* "free", or who holds the write lock: "expireLoop", "leaked"
  loop,               \* expireLoop: pc and its locals now, toDelete, toStop
  request,            \* the goroutine of each request
  closing,            \* Close has cancelled the loop's context
  driver,             \* whose call last actuated the resource, or Idle
  late,               \* history: associated or driven for a condemned session
  gap,                \* history: associated between expireLoop's two locks
  stopFailed          \* history: the last attempt to stop it failed

sessVars == <<sessions, issued, deadline, ownerID>>
histVars == <<late, gap, stopFailed>>
vars == <<clock, sessVars, resourceToSession, sessionResourceMu, loop, request,
          closing, driver, histVars>>

IdleRequest ==
  [pc |-> "idle", kind |-> "call", id |-> Nil, owner |-> Nil, res |-> NoResource]

WaitingLoop(pc) == [pc |-> pc, now |-> 0, toDelete |-> {}, toStop |-> {}]

RequestRecords ==
  [pc: {"idle", "find", "heartbeat", "associate", "handler", "new", "insert"},
   kind: {"call", "heartbeat", "start"}, id: Sessions \cup {Nil},
   owner: Owners \cup {Nil}, res: Resources \cup {NoResource}]

LoopRecords ==
  [pc: {"wait", "read", "lock", "stop", "done"}, now: 0..MaxTime,
   toDelete: SUBSET Sessions, toStop: SUBSET Resources]

(* The values each variable ranges over.                                    *)
TypeOK ==
  /\ clock \in 0..MaxTime
  /\ sessions \subseteq Sessions /\ issued \subseteq Sessions
  /\ deadline \in [Sessions -> 0..(MaxTime + heartbeatWindow)]
  /\ ownerID \in [Sessions -> Owners \cup {Nil}]
  /\ resourceToSession \in [Resources -> Sessions \cup {Nil}]
  /\ sessionResourceMu \in {"free", "expireLoop", "leaked"}
  /\ loop \in LoopRecords
  /\ request \in [Requests -> RequestRecords]
  /\ closing \in BOOLEAN
  /\ driver \in [Resources -> Sessions \cup {Nil, Idle}]
  /\ late \subseteq Resources /\ gap \subseteq Resources /\ stopFailed \subseteq Resources

(* NewSessionManager: no sessions, and the loop waiting for its ticker.     *)
Init ==
  /\ clock = 0
  /\ sessions = {} /\ issued = {}
  /\ deadline = [s \in Sessions |-> 0]
  /\ ownerID = [s \in Sessions |-> Nil]
  /\ resourceToSession = [r \in Resources |-> Nil]
  /\ sessionResourceMu = "free"
  /\ loop = WaitingLoop("wait")
  /\ request = [q \in Requests |-> IdleRequest]
  /\ closing = FALSE
  /\ driver = [r \in Resources |-> Idle]
  /\ late = {} /\ gap = {} /\ stopFailed = {}

Tick ==
  /\ clock < MaxTime
  /\ clock' = clock + 1
  /\ UNCHANGED <<sessVars, resourceToSession, sessionResourceMu, loop, request,
                 closing, driver, histVars>>

(* Session.Active: the deadline is strictly after the given time.           *)
Active(s, at) == deadline[s] > at

(* expireLoop will delete, or has deleted, the session.                     *)
Condemned(s) ==
  /\ s \in Sessions
  /\ s \notin sessions \/ (loop.pc = "lock" /\ s \in loop.toDelete)

-----------------------------------------------------------------------------
(* Requests arriving.                                                       *)

Begin(q, pc, kind, id, owner, res) ==
  /\ request[q].pc = "idle"
  /\ request' = [request EXCEPT ![q] =
       [pc |-> pc, kind |-> kind, id |-> id, owner |-> owner, res |-> res]]
  /\ UNCHANGED <<clock, sessVars, resourceToSession, sessionResourceMu, loop,
                 closing, driver, histVars>>

(* associateSession defers an association only for a monitored resource.    *)
Associated(res) == res # NoResource

(* UnaryServerInterceptor and StreamServerInterceptor: a method that is not *)
(* exempt, with at most one session id in its metadata, on a monitored      *)
(* resource or (NoResource) not.  Malformed metadata is refused before      *)
(* anything changes.                                                        *)
CallArrives(q, id, owner, res) ==
  /\ id \in issued \cup {Nil}
  /\ Begin(q, CASE id # Nil -> "find"
                [] id = Nil /\ Associated(res) -> "associate"
                [] OTHER -> "handler",
           "call", id, owner, res)

(* Server.SendSessionHeartbeat.                                             *)
SendSessionHeartbeat(q, id, owner) ==
  id \in issued /\ Begin(q, "find", "heartbeat", id, owner, NoResource)

(* Server.StartSession; id is the session to resume, if any.  The guard on  *)
(* Sessions is a bound: uuid.New never runs out of ids.                     *)
StartSession(q, id, owner) ==
  /\ id \in issued \cup {Nil}
  /\ Cardinality({p \in Requests : request[p].kind = "start"})
       < Cardinality(Sessions \ issued)
  /\ Begin(q, IF id = Nil THEN "new" ELSE "find", "start", id, owner, NoResource)

-----------------------------------------------------------------------------
(* Requests running.                                                        *)

Goto(q, pc) == request' = [request EXCEPT ![q].pc = pc]
Finish(q) == request' = [request EXCEPT ![q] = IdleRequest]

FoundForAnyOwner(q) == request[q].id \in sessions
Found(q) ==
  request[q].id \in sessions /\ ownerID[request[q].id] = request[q].owner

(* FindByID under the read lock.  A miss ends a call or a heartbeat with    *)
(* ErrNoSession, and makes StartSession create a session.                   *)
FindByID(q) ==
  /\ request[q].pc = "find"
  /\ sessionResourceMu = "free"
  /\ IF Found(q)
       THEN Goto(q, "heartbeat")
       ELSE IF request[q].kind = "start" THEN Goto(q, "new") ELSE Finish(q)
  /\ UNCHANGED <<clock, sessVars, resourceToSession, sessionResourceMu, loop,
                 closing, driver, histVars>>

(* FindByID, after it released the read lock: Session.Heartbeat.            *)
Heartbeat(q) ==
  /\ request[q].pc = "heartbeat"
  /\ deadline' = [deadline EXCEPT ![request[q].id] = clock + heartbeatWindow]
  /\ CASE request[q].kind # "call" -> Finish(q)
       [] OTHER -> Goto(q, IF Associated(request[q].res) THEN "associate" ELSE "handler")
  /\ UNCHANGED <<clock, sessions, issued, ownerID, resourceToSession,
                 sessionResourceMu, loop, closing, driver, histVars>>

(* AssociateResource, from associateSession's defer or from SafetyMonitor.  *)
AssociateResource(q) ==
  LET id == request[q].id
      res == request[q].res
  IN /\ request[q].pc = "associate"
     /\ sessionResourceMu = "free"
     /\ resourceToSession' = [resourceToSession EXCEPT ![res] = id]
     /\ Goto(q, "handler")
     /\ late' = IF Condemned(id) THEN late \cup {res} ELSE late \ {res}
     /\ gap' = IF loop.pc = "lock" THEN gap \cup {res} ELSE gap
     /\ stopFailed' = stopFailed \ {res}
     /\ UNCHANGED <<clock, sessVars, sessionResourceMu, loop, closing, driver>>

(* SafetyMonitor, called by a handler about to drive another resource: the  *)
(* association is made only if the session in the context is still active.  *)
SafetyMonitor(q, res) ==
  /\ request[q].pc = "handler" /\ request[q].res = NoResource
  /\ LET id == request[q].id
     IN request' = [request EXCEPT
          ![q].res = res,
          ![q].pc = IF id # Nil /\ Active(id, clock) THEN "associate" ELSE "handler"]
  /\ UNCHANGED <<clock, sessVars, resourceToSession, sessionResourceMu, loop,
                 closing, driver, histVars>>

(* The handler actuates its resource and the request ends.                  *)
Handle(q) ==
  LET id == request[q].id
      res == request[q].res
  IN /\ request[q].pc = "handler"
     /\ Finish(q)
     /\ driver' = IF res = NoResource THEN driver ELSE [driver EXCEPT ![res] = id]
     /\ late' = IF res # NoResource /\ Condemned(id) THEN late \cup {res} ELSE late
     /\ UNCHANGED <<clock, sessVars, resourceToSession, sessionResourceMu, loop,
                    closing, gap, stopFailed>>

ResumedID(q) ==
  IF request[q].id # Nil THEN {request[q].id}
  ELSE Sessions \ (issued \cup {request[p].id : p \in Requests})
FreshIDs(q) == Sessions \ (issued \cup {request[p].id : p \in Requests})

(* SessionManager.Start, before the lock: session.New takes a fresh id and  *)
(* the first deadline.                                                      *)
New(q) ==
  /\ request[q].pc = "new"
  /\ \E s \in FreshIDs(q) :
       /\ deadline' = [deadline EXCEPT ![s] = clock + heartbeatWindow]
       /\ ownerID' = [ownerID EXCEPT ![s] = request[q].owner]
       /\ request' = [request EXCEPT ![q].pc = "insert", ![q].id = s]
  /\ UNCHANGED <<clock, sessions, issued, resourceToSession, sessionResourceMu,
                 loop, closing, driver, histVars>>

AnotherTooMany == Cardinality(sessions) > maxSessions + 1
TooMany == Cardinality(sessions) > maxSessions

(* SessionManager.Start under the lock.  The early return at the limit does *)
(* not unlock.                                                              *)
Start(q) ==
  /\ request[q].pc = "insert"
  /\ sessionResourceMu = "free"
  /\ Finish(q)
  /\ \/ /\ TooMany
        /\ sessionResourceMu' = "leaked"
        /\ UNCHANGED <<sessions, issued>>
     \/ /\ ~TooMany
        /\ sessions' = sessions \cup {request[q].id}
        /\ issued' = issued \cup {request[q].id}
        /\ UNCHANGED sessionResourceMu
  /\ UNCHANGED <<clock, deadline, ownerID, resourceToSession, loop, closing,
                 driver, histVars>>

-----------------------------------------------------------------------------
(* expireLoop.                                                              *)

(* The ticker fires and the loop reads the time.                            *)
ExpireTick ==
  /\ loop.pc = "wait"
  /\ loop' = [loop EXCEPT !.pc = "read", !.now = clock]
  /\ UNCHANGED <<clock, sessVars, resourceToSession, sessionResourceMu, request,
                 closing, driver, histVars>>

LapsedWithResource ==
  {s \in sessions : ~Active(s, loop.now) /\ \E r \in Resources : resourceToSession[r] = s}
Lapsed == {s \in sessions : ~Active(s, loop.now)}

NotUsedByOthers(toDelete) ==
  {r \in Resources : resourceToSession[r] \notin sessions \ toDelete}
LastUsedBy(toDelete) == {r \in Resources : resourceToSession[r] \in toDelete}

(* The read-locked pass that collects what to delete and what to stop.      *)
ExpireCollect ==
  /\ loop.pc = "read"
  /\ sessionResourceMu = "free"
  /\ loop' = [loop EXCEPT !.pc = "lock", !.toDelete = Lapsed,
                          !.toStop = LastUsedBy(Lapsed)]
  /\ gap' = {}
  /\ UNCHANGED <<clock, sessVars, resourceToSession, sessionResourceMu, request,
                 closing, driver, late, stopFailed>>

StillActive == {s \in sessions : Active(s, clock)}
Kept == sessions \ loop.toDelete

(* The write lock is taken, the sessions are deleted; with nothing to stop  *)
(* the lock is released at once.                                            *)
ExpireDelete ==
  /\ loop.pc = "lock"
  /\ sessionResourceMu = "free"
  /\ sessions' = Kept
  /\ \/ /\ loop.toStop = {}
        /\ loop' = WaitingLoop("wait")
        /\ UNCHANGED sessionResourceMu
     \/ /\ loop.toStop # {}
        /\ loop' = [loop EXCEPT !.pc = "stop"]
        /\ sessionResourceMu' = "expireLoop"
  /\ UNCHANGED <<clock, issued, deadline, ownerID, resourceToSession, request,
                 closing, driver, histVars>>

NeverLast(r) == FALSE
Last(r) == loop.toStop = {r}

(* One resource is looked up and stopped, in the map's random order; an     *)
(* error or a panic (ok is FALSE) is collected and the loop goes on.  The   *)
(* lock is released after the last one.                                     *)
ExpireStop(r, ok) ==
  /\ loop.pc = "stop"
  /\ r \in loop.toStop
  /\ driver' = IF ok THEN [driver EXCEPT ![r] = Idle] ELSE driver
  /\ stopFailed' = IF ok THEN stopFailed ELSE stopFailed \cup {r}
  /\ \/ /\ Last(r)
        /\ loop' = WaitingLoop("wait")
        /\ sessionResourceMu' = "free"
     \/ /\ ~Last(r)
        /\ loop' = [loop EXCEPT !.toStop = @ \ {r}]
        /\ UNCHANGED sessionResourceMu
  /\ UNCHANGED <<clock, sessVars, resourceToSession, request, closing, late, gap>>

(* Close cancels the loop's context and waits for the loop.                 *)
Close ==
  /\ ~closing
  /\ closing' = TRUE
  /\ UNCHANGED <<clock, sessVars, resourceToSession, sessionResourceMu, loop,
                 request, driver, histVars>>

ExpireExit ==
  /\ closing
  /\ loop.pc = "wait"
  /\ loop' = WaitingLoop("done")
  /\ UNCHANGED <<clock, sessVars, resourceToSession, sessionResourceMu, request,
                 closing, driver, histVars>>

-----------------------------------------------------------------------------
Arrive(q) ==
  \E owner \in Owners :
    \/ \E id \in Sessions \cup {Nil}, res \in Resources \cup {NoResource} :
         CallArrives(q, id, owner, res)
    \/ \E id \in Sessions : SendSessionHeartbeat(q, id, owner)
    \/ \E id \in Sessions \cup {Nil} : StartSession(q, id, owner)

Run(q) ==
  \/ FindByID(q)
  \/ Heartbeat(q)
  \/ AssociateResource(q)
  \/ Handle(q)
  \/ New(q)
  \/ Start(q)

Expire ==
  \/ ExpireTick
  \/ ExpireCollect
  \/ ExpireDelete
  \/ \E r \in Resources, ok \in BOOLEAN : ExpireStop(r, ok)

Next ==
  \/ Tick
  \/ \E q \in Requests : Arrive(q) \/ Run(q) \/ \E r \in Resources : SafetyMonitor(q, r)
  \/ Expire
  \/ Close
  \/ ExpireExit

Spec == Init /\ [][Next]_vars

(* Goroutines that can run do run, the ticker keeps firing, and Go's select *)
(* does not pick the ticker for ever over a cancelled context.  Nothing     *)
(* makes a client send a request or the robot close.                        *)
Fairness ==
  /\ WF_vars(Tick)
  /\ \A q \in Requests : SF_vars(Run(q))
  /\ SF_vars(Expire)
  /\ SF_vars(ExpireExit)

FairSpec == Spec /\ Fairness
-----------------------------------------------------------------------------
(* Safety.                                                                  *)

(* A request that looks a session up, extends it or inserts it has one, and *)
(* one that associates has a resource: what makes TypeOK inductive.         *)
RequestShape ==
  \A q \in Requests :
    /\ request[q].pc \in {"find", "heartbeat", "insert"} => request[q].id # Nil
    /\ request[q].pc = "associate" => request[q].res # NoResource

(* A call that associated and drove a resource before expireLoop condemned  *)
(* its session never keeps the resource moving after the session is gone:   *)
(* the stop is still to come in the current pass, or it was tried and       *)
(* failed.  (expireLoop, AssociateResource)                                 *)
NoOrphanedMotion ==
  \A r \in Resources :
    /\ driver[r] \in issued \ sessions
    /\ resourceToSession[r] = driver[r]
    => r \in late \cup stopFailed \/ (loop.pc = "stop" /\ r \in loop.toStop)

(* expireLoop stops a resource only if the session last associated with it  *)
(* is gone, unless the association changed between the loop's two locks.    *)
StopsOnlyExpired ==
  [][\A r \in Resources, ok \in BOOLEAN :
       ExpireStop(r, ok) => resourceToSession[r] \in issued \ sessions \/ r \in gap]_vars

(* "Authenticated users can only use the sessions they create and no        *)
(* others" (session/doc.go): from the moment FindByID accepts it until its  *)
(* handler has run, a request carries a session of its own owner.           *)
OwnSessionsOnly ==
  \A q \in Requests :
    request[q].pc \in {"heartbeat", "associate", "handler", "insert"}
      => request[q].id = Nil \/ ownerID[request[q].id] = request[q].owner

(* However many Start calls race, the map holds at most one session more    *)
(* than maxSessions (Start compares with >).                                *)
SessionLimit == Cardinality(sessions) <= maxSessions + 1

(* A session that expired never comes back, whatever FindByID, Heartbeat    *)
(* and StartSession's resume do with its id afterwards.                     *)
ExpiredNeverReturns == [][issued \cap sessions' \subseteq sessions]_vars

-----------------------------------------------------------------------------
(* Liveness, while the lock is not leaked.                                  *)

(* Every request that arrives is answered: no critical section of           *)
(* sessionResourceMu blocks it for ever.                                    *)
RequestsFinish ==
  \A q \in Requests : request[q].pc # "idle" ~> request[q].pc = "idle"

(* A session that lapses and is not used again is deleted by expireLoop.    *)
LapsedIsDeleted ==
  \A s \in Sessions :
    s \in sessions /\ ~Active(s, clock) ~> s \notin sessions \/ Active(s, clock) \/ closing

(* A resource last used by a lapsed session stops moving, or its stop       *)
(* fails, or someone uses the resource or the session again meanwhile.      *)
MotionEndsWithSession ==
  \A r \in Resources, s \in Sessions :
    (s \in sessions /\ ~Active(s, clock) /\ driver[r] = s /\ resourceToSession[r] = s)
      ~> \/ driver[r] # s \/ resourceToSession[r] # s
         \/ r \in stopFailed \cup late \/ Active(s, clock) \/ closing

(* Close returns: the loop it waits for leaves its last pass and exits.     *)
CloseReturns == closing ~> loop.pc = "done"

(* Nobody waits for ever on sessionResourceMu or on the loop.               *)
CallsReturn == RequestsFinish /\ CloseReturns

-----------------------------------------------------------------------------
(* What the documentation says, without the exceptions above.               *)

(* session/doc.go:16-17: when the window lapses the server stops the        *)
(* resources last used by that session "and no others".                     *)
NoOthersStopped ==
  [][\A r \in Resources, ok \in BOOLEAN :
       ExpireStop(r, ok) => resourceToSession[r] \in issued \ sessions]_vars

(* session/doc.go:16-17: "the server will safely stop all resources" last   *)
(* used by a lapsed session.                                                *)
LapsedIsStopped ==
  \A r \in Resources, s \in Sessions :
    (s \in issued \ sessions /\ driver[r] = s /\ resourceToSession[r] = s)
      ~> \/ driver[r] # s \/ resourceToSession[r] # s \/ r \in stopFailed \/ closing

(* robot/session_manager.go:152-153: "If found, a heartbeat is triggered,   *)
(* extending the lifetime of the session": a session with time left is not  *)
(* deleted.                                                                 *)
OnlyLapsedDeleted == [][\A s \in sessions \ sessions' : ~Active(s, clock)]_vars
=============================================================================
