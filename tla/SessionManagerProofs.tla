------------------------ MODULE SessionManagerProofs ------------------------
(***************************************************************************)
(* Proofs about SessionManager for every value of its constants: any       *)
(* number of sessions, resources, owners and concurrent requests.          *)
(***************************************************************************)
EXTENDS SessionManager, FiniteSetTheorems, TLAPS

(* TypeOK with the shape of the requests is inductive.                      *)
TypeInv == TypeOK /\ RequestShape

LEMMA TypeInit == Init => TypeInv
<1> SUFFICES ASSUME Init PROVE TypeInv
  OBVIOUS
<1> USE SessionConstants DEF SessionConstants, Init
<1>1. request \in [Requests -> RequestRecords] /\ RequestShape
  BY DEF IdleRequest, RequestRecords, RequestShape
<1>2. loop \in LoopRecords
  BY DEF WaitingLoop, LoopRecords
<1>3. clock \in 0..MaxTime /\ deadline \in [Sessions -> 0..(MaxTime + heartbeatWindow)]
  OBVIOUS
<1>4. driver \in [Resources -> Sessions \cup {Nil, Idle}]
  OBVIOUS
<1> QED
  BY <1>1, <1>2, <1>3, <1>4 DEF TypeOK, TypeInv

LEMMA TypeStep == TypeInv /\ [Next]_vars => TypeInv'
<1> SUFFICES ASSUME TypeOK, RequestShape, [Next]_vars PROVE TypeInv'
  BY DEF TypeInv
<1> USE SessionConstants DEF SessionConstants, TypeInv, TypeOK, sessVars, histVars
<1> USE DEF IdleRequest, RequestRecords, RequestShape, Goto, Finish
<1>1. CASE Tick
  BY <1>1 DEF Tick
<1>2. ASSUME NEW q \in Requests, Arrive(q) PROVE TypeInv'
  <2>1. PICK pc \in {"find", "associate", "handler", "new"},
             kind \in {"call", "heartbeat", "start"}, id \in Sessions \cup {Nil},
             owner \in Owners, res \in Resources \cup {NoResource} :
               /\ Begin(q, pc, kind, id, owner, res)
               /\ pc = "find" => id # Nil
               /\ pc = "associate" => res # NoResource
    BY <1>2 DEF Arrive, CallArrives, SendSessionHeartbeat, StartSession, Associated
  <2> QED BY <2>1 DEF Begin
<1>3. ASSUME NEW q \in Requests, Run(q) PROVE TypeInv'
  <2>1. CASE FindByID(q)
    BY <2>1 DEF FindByID
  <2>2. CASE Heartbeat(q)
    <3>1. request' \in [Requests -> RequestRecords] /\ RequestShape'
      BY <2>2 DEF Heartbeat, Associated
    <3>2. deadline' \in [Sessions -> 0..(MaxTime + heartbeatWindow)]
      BY <2>2 DEF Heartbeat
    <3> QED BY <2>2, <3>1, <3>2 DEF Heartbeat
  <2>3. CASE AssociateResource(q)
    <3>1. request[q].res \in Resources
      BY <2>3 DEF AssociateResource
    <3> QED BY <2>3, <3>1 DEF AssociateResource
  <2>4. CASE Handle(q)
    BY <2>4 DEF Handle
  <2>5. CASE New(q)
    BY <2>5 DEF New, FreshIDs
  <2>6. CASE Start(q)
    <3>1. request' \in [Requests -> RequestRecords] /\ RequestShape'
      BY <2>6 DEF Start
    <3>2. request[q].id \in Sessions
      BY <2>6 DEF Start
    <3> QED BY <2>6, <3>1, <3>2 DEF Start
  <2> QED BY <1>3, <2>1, <2>2, <2>3, <2>4, <2>5, <2>6 DEF Run
<1>4. ASSUME NEW q \in Requests, NEW r \in Resources, SafetyMonitor(q, r)
      PROVE TypeInv'
  <2>1. PICK pc \in {"associate", "handler"} :
          request' = [request EXCEPT ![q] = [request[q] EXCEPT !.res = r, !.pc = pc]]
    BY <1>4 DEF SafetyMonitor
  <2>2. request'[q] = [pc |-> pc, kind |-> request[q].kind, id |-> request[q].id,
                       owner |-> request[q].owner, res |-> r]
    BY <2>1
  <2>3. request' \in [Requests -> RequestRecords]
    <3>1. request'[q] \in RequestRecords
      BY <2>2
    <3> HIDE DEF RequestRecords
    <3> QED BY <2>1, <3>1
  <2>4. RequestShape'
    BY <2>1, <2>2
  <2> QED BY <1>4, <2>3, <2>4 DEF SafetyMonitor
<1>5. CASE Expire
  <2> USE DEF LoopRecords, WaitingLoop
  <2>1. CASE ExpireTick
    BY <2>1 DEF ExpireTick
  <2>2. CASE ExpireCollect
    BY <2>2 DEF ExpireCollect, Lapsed, LastUsedBy
  <2>3. CASE ExpireDelete
    BY <2>3 DEF ExpireDelete, Kept
  <2>4. ASSUME NEW r \in Resources, NEW ok \in BOOLEAN, ExpireStop(r, ok)
        PROVE TypeInv'
    BY <2>4 DEF ExpireStop
  <2> QED BY <1>5, <2>1, <2>2, <2>3, <2>4 DEF Expire
<1>6. CASE Close
  BY <1>6 DEF Close
<1>7. CASE ExpireExit
  BY <1>7 DEF ExpireExit, LoopRecords, WaitingLoop
<1>8. CASE UNCHANGED vars
  BY <1>8 DEF vars
<1> QED
  BY <1>1, <1>2, <1>3, <1>4, <1>5, <1>6, <1>7, <1>8 DEF Next

(* Every variable keeps its type: in particular no deadline leaves the      *)
(* range the clock and the heartbeat window allow, and only monitored       *)
(* resources are ever associated or stopped.                                *)
THEOREM TypeCorrect == Spec => []TypeOK
<1>1. Spec => []TypeInv
  BY TypeInit, TypeStep, PTL DEF Spec
<1> QED
  BY <1>1, PTL DEF TypeInv
-----------------------------------------------------------------------------
(* What expireLoop holds between its steps.  It is the strengthening that   *)
(* makes NoOrphanedMotion inductive: after the collecting pass, toStop has  *)
(* every resource last used by a session to delete, but for those           *)
(* associated late, and nothing else but those associated in the gap; and   *)
(* while resources are being stopped the lock keeps associations and        *)
(* sessions as they are.                                                    *)
LoopInv ==
  /\ sessions \subseteq issued
  /\ (loop.pc = "stop") <=> (sessionResourceMu = "expireLoop")
  /\ loop.pc = "lock" =>
       /\ loop.toDelete \subseteq sessions
       /\ \A r \in Resources \ late :
            resourceToSession[r] \in loop.toDelete => r \in loop.toStop
       /\ \A r \in loop.toStop \ gap : resourceToSession[r] \in loop.toDelete
  /\ loop.pc = "stop" =>
       \A r \in loop.toStop \ gap : resourceToSession[r] \in issued \ sessions

SafetyInv == TypeInv /\ LoopInv /\ NoOrphanedMotion

LEMMA SafetyInit == Init => SafetyInv
<1> SUFFICES ASSUME Init PROVE LoopInv /\ NoOrphanedMotion
  BY TypeInit DEF SafetyInv
<1> QED
  BY SessionConstants DEF SessionConstants, Init, LoopInv, NoOrphanedMotion, WaitingLoop

LEMMA SafetyStep == SafetyInv /\ [Next]_vars => SafetyInv'
<1> SUFFICES ASSUME SafetyInv, [Next]_vars PROVE (LoopInv /\ NoOrphanedMotion)'
  BY TypeStep DEF SafetyInv
<1>0. TypeOK' /\ TypeOK /\ RequestShape
  BY TypeStep DEF SafetyInv, TypeInv
<1> USE <1>0 DEF SafetyInv, LoopInv, NoOrphanedMotion, sessVars, histVars
<1>1. CASE Tick
  BY <1>1 DEF Tick
<1>2. ASSUME NEW q \in Requests, Arrive(q) PROVE (LoopInv /\ NoOrphanedMotion)'
  BY <1>2 DEF Arrive, CallArrives, SendSessionHeartbeat, StartSession, Begin
<1>3. ASSUME NEW q \in Requests, Run(q) PROVE (LoopInv /\ NoOrphanedMotion)'
  <2>1. CASE FindByID(q)
    BY <2>1 DEF FindByID
  <2>2. CASE Heartbeat(q)
    BY <2>2 DEF Heartbeat
  <2>3. CASE AssociateResource(q)
    BY <2>3 DEF AssociateResource, Condemned, TypeOK
  <2>4. CASE Handle(q)
    BY <2>4 DEF Handle, Condemned, TypeOK
  <2>5. CASE New(q)
    BY <2>5 DEF New
  <2>6. CASE Start(q)
    BY <2>6 DEF Start, TypeOK
  <2> QED BY <1>3, <2>1, <2>2, <2>3, <2>4, <2>5, <2>6 DEF Run
<1>4. ASSUME NEW q \in Requests, NEW r \in Resources, SafetyMonitor(q, r)
      PROVE (LoopInv /\ NoOrphanedMotion)'
  BY <1>4 DEF SafetyMonitor
<1>5. CASE Expire
  <2> USE DEF TypeOK, LoopRecords, WaitingLoop
  <2>1. CASE ExpireTick
    BY <2>1 DEF ExpireTick
  <2>2. CASE ExpireCollect
    BY <2>2 DEF ExpireCollect, Lapsed, LastUsedBy
  <2>3. CASE ExpireDelete
    BY <2>3 DEF ExpireDelete, Kept
  <2>4. ASSUME NEW r \in Resources, NEW ok \in BOOLEAN, ExpireStop(r, ok)
        PROVE (LoopInv /\ NoOrphanedMotion)'
    BY <2>4, SessionConstants DEF SessionConstants, ExpireStop, Last
  <2> QED BY <1>5, <2>1, <2>2, <2>3, <2>4 DEF Expire
<1>6. CASE Close
  BY <1>6 DEF Close
<1>7. CASE ExpireExit
  BY <1>7 DEF ExpireExit, WaitingLoop
<1>8. CASE UNCHANGED vars
  BY <1>8 DEF vars
<1> QED
  BY <1>1, <1>2, <1>3, <1>4, <1>5, <1>6, <1>7, <1>8 DEF Next

(* No call that associated and drove a resource in time leaves it moving    *)
(* once expireLoop has deleted its session.                                 *)
THEOREM MotionIsNotOrphaned == Spec => []NoOrphanedMotion
<1>1. Spec => []SafetyInv
  BY SafetyInit, SafetyStep, PTL DEF Spec
<1> QED
  BY <1>1, PTL DEF SafetyInv

(* expireLoop stops no resource whose last user is alive, but for those     *)
(* associated between its two locks.                                        *)
THEOREM OnlyExpiredAreStopped == Spec => StopsOnlyExpired
<1>1. Spec => []SafetyInv
  BY SafetyInit, SafetyStep, PTL DEF Spec
<1>2. SafetyInv /\ [Next]_vars =>
        [\A r \in Resources, ok \in BOOLEAN :
           ExpireStop(r, ok) => resourceToSession[r] \in issued \ sessions \/ r \in gap]_vars
  BY DEF SafetyInv, LoopInv, ExpireStop
<1> QED
  BY <1>1, <1>2, PTL DEF Spec, StopsOnlyExpired

-----------------------------------------------------------------------------
(* An id session.New has taken is in no other request and was never in the  *)
(* map, until Start puts it there.                                          *)
FreshInv ==
  \A q \in Requests :
    request[q].pc = "insert" =>
      /\ request[q].id \notin issued
      /\ \A p \in Requests \ {q} : request[p].id # request[q].id

IdentityInv == TypeInv /\ sessions \subseteq issued /\ FreshInv /\ OwnSessionsOnly

LEMMA IdentityInit == Init => IdentityInv
BY TypeInit DEF Init, IdentityInv, FreshInv, OwnSessionsOnly, IdleRequest

LEMMA IdentityStep == IdentityInv /\ [Next]_vars => IdentityInv'
<1> DEFINE Goal == sessions \subseteq issued /\ FreshInv /\ OwnSessionsOnly
<1> SUFFICES ASSUME IdentityInv, [Next]_vars PROVE Goal'
  BY TypeStep DEF IdentityInv
<1>0. TypeOK' /\ TypeOK /\ RequestShape
  BY TypeStep DEF IdentityInv, TypeInv
<1> USE <1>0 DEF IdentityInv, FreshInv, OwnSessionsOnly, RequestShape, sessVars, histVars
<1>1. ASSUME NEW q \in Requests, Arrive(q) PROVE Goal'
  <2>1. PICK pc \in {"find", "associate", "handler", "new"},
             kind \in {"call", "heartbeat", "start"}, id \in issued \cup {Nil},
             owner \in Owners, res \in Resources \cup {NoResource} :
               /\ Begin(q, pc, kind, id, owner, res)
               /\ pc # "find" => id = Nil
    BY <1>1 DEF Arrive, CallArrives, SendSessionHeartbeat, StartSession
  <2> QED BY <2>1 DEF Begin, TypeOK
<1>2. ASSUME NEW q \in Requests, Run(q) PROVE Goal'
  <2> USE DEF TypeOK, RequestRecords, IdleRequest, Goto, Finish
  <2>1. CASE FindByID(q)
    <3>1. CASE request' = [request EXCEPT ![q].pc = "heartbeat"] /\ Found(q)
      BY <2>1, <3>1 DEF FindByID, Found
    <3>2. CASE request' = [request EXCEPT ![q].pc = "new"]
      BY <2>1, <3>2 DEF FindByID
    <3>3. CASE request' = [request EXCEPT ![q] = IdleRequest]
      BY <2>1, <3>3, SessionConstants DEF FindByID, SessionConstants
    <3> QED BY <2>1, <3>1, <3>2, <3>3 DEF FindByID
  <2>2. CASE Heartbeat(q)
    BY <2>2, SessionConstants DEF Heartbeat, SessionConstants
  <2>3. CASE AssociateResource(q)
    BY <2>3 DEF AssociateResource
  <2>4. CASE Handle(q)
    BY <2>4, SessionConstants DEF Handle, SessionConstants
  <2>5. CASE New(q)
    BY <2>5 DEF New, FreshIDs
  <2>6. CASE Start(q)
    BY <2>6, SessionConstants DEF Start, SessionConstants
  <2> QED BY <1>2, <2>1, <2>2, <2>3, <2>4, <2>5, <2>6 DEF Run
<1>3. ASSUME NEW q \in Requests, NEW r \in Resources, SafetyMonitor(q, r) PROVE Goal'
  BY <1>3 DEF SafetyMonitor, TypeOK, RequestRecords
<1>4. CASE Expire
  BY <1>4 DEF Expire, ExpireTick, ExpireCollect, ExpireDelete, ExpireStop, Kept
<1>5. CASE Tick \/ Close \/ ExpireExit \/ UNCHANGED vars
  BY <1>5 DEF Tick, Close, ExpireExit, vars
<1> QED
  BY <1>1, <1>2, <1>3, <1>4, <1>5 DEF Next

(* A request past FindByID carries only a session of its own owner.         *)
THEOREM SessionsAreOwned == Spec => []OwnSessionsOnly
<1>1. Spec => []IdentityInv
  BY IdentityInit, IdentityStep, PTL DEF Spec
<1> QED
  BY <1>1, PTL DEF IdentityInv

(* The id of an expired session is never put back in the map.               *)
THEOREM ExpiryIsFinal == Spec => ExpiredNeverReturns
<1>1. Spec => []IdentityInv
  BY IdentityInit, IdentityStep, PTL DEF Spec
<1>2. IdentityInv /\ [Next]_vars => [issued \cap sessions' \subseteq sessions]_vars
  <2> SUFFICES ASSUME IdentityInv, Next PROVE issued \cap sessions' \subseteq sessions
    OBVIOUS
  <2>1. ASSUME NEW q \in Requests, Start(q) PROVE issued \cap sessions' \subseteq sessions
    BY <2>1 DEF Start, IdentityInv, FreshInv
  <2>2. CASE ExpireDelete
    BY <2>2 DEF ExpireDelete, Kept
  <2>3. CASE UNCHANGED sessions
    BY <2>3
  <2> QED
    BY <2>1, <2>2, <2>3 DEF Next, Arrive, Run, Expire, Tick, CallArrives, StartSession,
       SendSessionHeartbeat, Begin, FindByID, Heartbeat, AssociateResource, SafetyMonitor,
       Handle, New, ExpireTick, ExpireCollect, ExpireStop, Close, ExpireExit, sessVars
<1> QED
  BY <1>1, <1>2, PTL DEF Spec, ExpiredNeverReturns

(* Start's check under the lock bounds the map, however many calls race.    *)
THEOREM LimitHolds == Spec => []SessionLimit
<1>1. Init => SessionLimit
  BY FS_EmptySet, SessionConstants DEF SessionConstants, Init, SessionLimit
<1>2. TypeInv /\ SessionLimit /\ [Next]_vars => SessionLimit'
  <2> SUFFICES ASSUME TypeInv, SessionLimit, [Next]_vars PROVE SessionLimit'
    OBVIOUS
  <2>0. IsFiniteSet(sessions) /\ Cardinality(sessions) \in Nat
    BY FS_Subset, FS_CardinalityType, SessionConstants DEF SessionConstants, TypeInv, TypeOK
  <2>1. ASSUME NEW q \in Requests, Start(q) PROVE SessionLimit'
    <3>1. CASE TooMany
      BY <2>1, <3>1 DEF Start, SessionLimit
    <3>2. CASE ~TooMany
      <4>1. sessions' = sessions \cup {request[q].id}
        BY <2>1, <3>2 DEF Start
      <4>2. Cardinality(sessions') \in {Cardinality(sessions), Cardinality(sessions) + 1}
        BY <2>0, <4>1, FS_AddElement
      <4> QED BY <2>0, <3>2, <4>2, SessionConstants DEF SessionConstants, TooMany, SessionLimit
    <3> QED BY <3>1, <3>2
  <2>2. CASE ExpireDelete
    <3>1. Cardinality(Kept) <= Cardinality(sessions) /\ Cardinality(Kept) \in Nat
      BY <2>0, FS_Subset, FS_CardinalityType DEF Kept
    <3> QED BY <2>0, <2>2, <3>1, SessionConstants DEF SessionConstants, ExpireDelete, SessionLimit
  <2>3. CASE UNCHANGED sessions
    BY <2>3 DEF SessionLimit
  <2> QED
    BY <2>1, <2>2, <2>3 DEF Next, Arrive, Run, Expire, Tick, CallArrives, StartSession,
       SendSessionHeartbeat, Begin, FindByID, Heartbeat, AssociateResource, SafetyMonitor,
       Handle, New, ExpireTick, ExpireCollect, ExpireStop, Close, ExpireExit, sessVars, vars
<1> QED
  BY <1>1, <1>2, TypeInit, TypeStep, PTL DEF Spec
=============================================================================
