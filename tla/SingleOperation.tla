-------------------------- MODULE SingleOperation --------------------------
(***************************************************************************)
(* operation.SingleOperationManager (operation/manager.go): the object     *)
(* every motor, arm and base embeds to run one operation at a time.        *)
(*                                                                         *)
(* A thread is a goroutine that calls into a device.  It has at most one   *)
(* operation open, so the thread itself stands for its *anOp.  A nested    *)
(* New or CancelRunning (the context already carries an operation) returns *)
(* without touching the manager and is no step here.  The device is an     *)
(* environment: IsPowered answers anything and Stop does nothing the       *)
(* manager can see.  MgrSpec is therefore what every driver must implement *)
(* and may rely on: a driver's module (GPIOStepper) extends this one with  *)
(* its device and its Spec implies MgrSpec.                                *)
(*                                                                         *)
(* A definition directly above a one-line helper, with the same            *)
(* parameters, is a plausible mistake in that helper's code; no action     *)
(* uses it.  PROJECT.json pairs it with the property it would break.       *)
(***************************************************************************)
EXTENDS Naturals

CONSTANTS
  Threads,  \* the goroutines that call the device
  None      \* the nil *anOp

ASSUME NoneIsNoThread == None \notin Threads

VARIABLES
  currentOp,  \* sm.currentOp
  ctxErr,     \* ctx.Err() of the thread's operation
  pc,         \* where the thread is in the manager's code
  oldOp,      \* the local of WaitTillNotPowered's deferred function
  res         \* why WaitForSuccess returned: "off", "error" or "ctx"

mgrVars == <<currentOp, ctxErr, pc, oldOp, res>>

PCs == {"idle", "run", "test", "select", "deferred", "reread", "stop", "finish"}

(* The values each variable ranges over.                                    *)
MgrTypeOK ==
  /\ currentOp \in Threads \cup {None}
  /\ ctxErr \in [Threads -> {"nil", "canceled", "deadline"}]
  /\ pc \in [Threads -> PCs]
  /\ oldOp \in [Threads -> BOOLEAN]
  /\ res \in [Threads -> {"none", "off", "error", "ctx"}]

MgrInit ==
  /\ currentOp = None
  /\ ctxErr = [t \in Threads |-> "nil"]
  /\ pc = [t \in Threads |-> "idle"]
  /\ oldOp = [t \in Threads |-> FALSE]
  /\ res = [t \in Threads |-> "none"]

Open(t) == pc[t] # "idle"

CancelInLock ==
  [u \in Threads |-> IF u = currentOp /\ ctxErr[u] = "nil" THEN "canceled" ELSE ctxErr[u]]

(* New: under the lock, cancel the current operation and become it.         *)
New(t) ==
  /\ pc[t] = "idle"
  /\ pc' = [pc EXCEPT ![t] = "run"]
  /\ currentOp' = t
  /\ ctxErr' = CancelInLock
  /\ UNCHANGED <<oldOp, res>>

(* CancelRunning by a call that has no operation in its context.            *)
CancelRunning(t) ==
  /\ pc[t] = "idle"
  /\ currentOp' = None
  /\ ctxErr' = CancelInLock
  /\ UNCHANGED <<pc, oldOp, res>>

(* The caller's context, the parent of the operation's, ends: the client    *)
(* cancels the call, or its deadline passes.                                *)
ContextEnds(t, why) ==
  /\ Open(t)
  /\ ctxErr[t] = "nil"
  /\ ctxErr' = [ctxErr EXCEPT ![t] = why]
  /\ UNCHANGED <<currentOp, pc, oldOp, res>>

(* The caller returns without waiting for its device.                       *)
Return(t) ==
  /\ pc[t] = "run"
  /\ pc' = [pc EXCEPT ![t] = "finish"]
  /\ UNCHANGED <<currentOp, ctxErr, oldOp, res>>

(* WaitTillNotPowered is called and WaitForSuccess starts its loop; both    *)
(* get the operation's context, so their New is nested.                     *)
WaitTillNotPowered(t) ==
  /\ pc[t] = "run"
  /\ pc' = [pc EXCEPT ![t] = "test"]
  /\ UNCHANGED <<currentOp, ctxErr, oldOp, res>>

(* WaitForSuccess: testFunc asks IsPowered, which answers on, off or error. *)
TestFunc(t, answer) ==
  /\ pc[t] = "test"
  /\ \/ /\ answer = "on"
        /\ pc' = [pc EXCEPT ![t] = "select"]
        /\ UNCHANGED res
     \/ /\ answer \in {"off", "error"}
        /\ pc' = [pc EXCEPT ![t] = "deferred"]
        /\ res' = [res EXCEPT ![t] = answer]
  /\ UNCHANGED <<currentOp, ctxErr, oldOp>>

DoneOnDeadline(t) == ctxErr[t] = "deadline"
Done(t) == ctxErr[t] # "nil"

(* WaitForSuccess: SelectContextOrWait lets the poll time pass, or sees the *)
(* context done.                                                            *)
SelectContextOrWait(t) ==
  /\ pc[t] = "select"
  /\ \/ /\ ~Done(t)
        /\ pc' = [pc EXCEPT ![t] = "test"]
        /\ UNCHANGED res
     \/ /\ Done(t)
        /\ pc' = [pc EXCEPT ![t] = "deferred"]
        /\ res' = [res EXCEPT ![t] = "ctx"]
  /\ UNCHANGED <<currentOp, ctxErr, oldOp>>

(* The deferred function of WaitTillNotPowered: unless the context was      *)
(* cancelled there is nothing to do; else compare currentOp with the        *)
(* context's operation, under the lock.                                     *)
Deferred(t) ==
  /\ pc[t] = "deferred"
  /\ \/ /\ ctxErr[t] = "canceled"
        /\ oldOp' = [oldOp EXCEPT ![t] = currentOp = t]
        /\ pc' = [pc EXCEPT ![t] = "reread"]
     \/ /\ ctxErr[t] # "canceled"
        /\ pc' = [pc EXCEPT ![t] = "finish"]
        /\ UNCHANGED oldOp
  /\ UNCHANGED <<currentOp, ctxErr, res>>

AbandonedOnly(t) == currentOp = None
MustStop(t) == oldOp[t] \/ currentOp = None

(* ... and read currentOp once more, without the lock.                      *)
Reread(t) ==
  /\ pc[t] = "reread"
  /\ pc' = [pc EXCEPT ![t] = IF MustStop(t) THEN "stop" ELSE "finish"]
  /\ UNCHANGED <<currentOp, ctxErr, oldOp, res>>

(* ... and call the device's Stop with the operation's context.             *)
StopFromWait(t) ==
  /\ pc[t] = "stop"
  /\ pc' = [pc EXCEPT ![t] = "finish"]
  /\ UNCHANGED <<currentOp, ctxErr, oldOp, res>>

AnyIsCurrent(t) == TRUE
IsCurrent(t) == currentOp = t

(* The function New returned.                                               *)
Finish(t) ==
  /\ pc[t] = "finish"
  /\ pc' = [pc EXCEPT ![t] = "idle"]
  /\ currentOp' = IF IsCurrent(t) THEN None ELSE currentOp
  /\ ctxErr' = [ctxErr EXCEPT ![t] = "nil"]
  /\ oldOp' = [oldOp EXCEPT ![t] = FALSE]
  /\ res' = [res EXCEPT ![t] = "none"]

Answers == {"on", "off", "error"}
Endings == {"canceled", "deadline"}

Progress(t) ==
  \/ Return(t)
  \/ WaitTillNotPowered(t)
  \/ \E answer \in Answers : TestFunc(t, answer)
  \/ SelectContextOrWait(t)
  \/ Deferred(t)
  \/ Reread(t)
  \/ StopFromWait(t)
  \/ Finish(t)

MgrNext ==
  \E t \in Threads :
    \/ New(t)
    \/ CancelRunning(t)
    \/ \E why \in Endings : ContextEnds(t, why)
    \/ Progress(t)

MgrSpec == MgrInit /\ [][MgrNext]_mgrVars
-----------------------------------------------------------------------------
(* "SingleOperationManager ensures only 1 operation is happening a time":   *)
(* of the operations that are open at most one is not cancelled, and it is  *)
(* the one currentOp names (New, CancelRunning and the finish function).    *)
OneLiveOp == \A t \in Threads : Open(t) /\ ctxErr[t] = "nil" => currentOp = t

(* currentOp never names an operation that has returned, so OpRunning tells *)
(* the truth and no New cancels a context nobody waits on.                  *)
CurrentIsOpen == currentOp # None => Open(currentOp)

(* Whoever is cancelled returns: by New, by CancelRunning, by the client or *)
(* by the deadline, however long the device stays powered (WaitForSuccess;  *)
(* checked with a driver and its fairness).                                 *)
CancelledReturns == \A t \in Threads : Open(t) /\ ctxErr[t] # "nil" ~> ~Open(t)
=============================================================================
