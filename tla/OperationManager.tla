-------------------------- MODULE OperationManager --------------------------
(***************************************************************************)
(* operation.Manager (operation/opid.go), the interceptors that put an     *)
(* operation around every request (operation/web.go), and the handlers     *)
(* CancelOperation and BlockForOperation of robot/server.                  *)
(*                                                                         *)
(* A request's goroutine stands for its *Operation.  Each critical section *)
(* of Manager.lock is one step; the labels are read and appended outside   *)
(* of it.                                                                  *)
(*                                                                         *)
(* A definition directly above a one-line helper, with the same            *)
(* parameters, is a plausible mistake in that helper's code; no action     *)
(* uses it.                                                                *)
(***************************************************************************)
EXTENDS FiniteSets

CONSTANTS
  Requests,   \* the requests being served
  IDs,        \* operation ids
  Labels,     \* the labels handlers use: names of components
  Waiters,    \* BlockForOperation calls
  None,       \* no operation, no id
  SharedIDs   \* may a request carry, in its metadata, the id of a running one

VARIABLES
  ops,        \* m.ops: the operation under each id, or None
  id,         \* Operation.ID
  labels,     \* Operation.labels
  cancelled,  \* the operation's context is cancelled
  opPc,       \* "idle", "handler", or "cancelling" in CancelOtherWithLabel
  label,      \* the argument of CancelOtherWithLabel
  all,        \* what its All() returned and it has not looked at
  before,     \* history: those of all that had the label then
  waiting     \* the id each BlockForOperation polls, or None

opsVars == <<ops, id, labels, cancelled, opPc, label, all, before, waiting>>

(* The values each variable ranges over.                                    *)
OpsTypeOK ==
  /\ ops \in [IDs -> Requests \cup {None}]
  /\ id \in [Requests -> IDs \cup {None}]
  /\ labels \in [Requests -> SUBSET Labels]
  /\ cancelled \in [Requests -> BOOLEAN]
  /\ opPc \in [Requests -> {"idle", "handler", "cancelling"}]
  /\ label \in [Requests -> Labels \cup {None}]
  /\ all \in [Requests -> SUBSET Requests]
  /\ before \in [Requests -> SUBSET Requests]
  /\ waiting \in [Waiters -> IDs \cup {None}]

OpsInit ==
  /\ ops = [i \in IDs |-> None]
  /\ id = [q \in Requests |-> None]
  /\ labels = [q \in Requests |-> {}]
  /\ cancelled = [q \in Requests |-> FALSE]
  /\ opPc = [q \in Requests |-> "idle"]
  /\ label = [q \in Requests |-> None]
  /\ all = [q \in Requests |-> {}]
  /\ before = [q \in Requests |-> {}]
  /\ waiting = [w \in Waiters |-> None]

Running(q) == opPc[q] # "idle"

(* A new uuid: nobody has it, or can be asking for it yet.                  *)
Fresh(i) == (\A p \in Requests : id[p] # i) /\ (\A w \in Waiters : waiting[w] # i)

(* CreateFromIncomingContext and createWithID: the id is the one in the     *)
(* metadata or a fresh one; add overwrites what is under it.                *)
CreateFromIncomingContext(q, i) ==
  /\ ~Running(q)
  /\ SharedIDs \/ Fresh(i)
  /\ ops' = [ops EXCEPT ![i] = q]
  /\ id' = [id EXCEPT ![q] = i]
  /\ opPc' = [opPc EXCEPT ![q] = "handler"]
  /\ UNCHANGED <<labels, cancelled, label, all, before, waiting>>

Registered == {q \in Requests : \E i \in IDs : ops[i] = q}

(* CancelOtherWithLabel takes its snapshot of the running operations.       *)
(* Bound: a handler calls it once per label.                                *)
CancelOtherWithLabel(q, l) ==
  /\ opPc[q] = "handler"
  /\ l \notin labels[q]
  /\ opPc' = [opPc EXCEPT ![q] = "cancelling"]
  /\ label' = [label EXCEPT ![q] = l]
  /\ all' = [all EXCEPT ![q] = Registered \ {q}]
  /\ before' = [before EXCEPT ![q] = {o \in Requests \ {q} : Running(o) /\ l \in labels[o]}]
  /\ UNCHANGED <<ops, id, labels, cancelled, waiting>>

HasFirstLabel(o, l) == labels[o] = {l}
HasLabel(o, l) == l \in labels[o]

(* ... looks at one of them ...                                             *)
CancelOther(q, o) ==
  /\ opPc[q] = "cancelling"
  /\ o \in all[q]
  /\ all' = [all EXCEPT ![q] = @ \ {o}]
  /\ cancelled' = [cancelled EXCEPT ![o] = @ \/ HasLabel(o, label[q])]
  /\ UNCHANGED <<ops, id, labels, opPc, label, before, waiting>>

(* ... and only then takes the label itself.                                *)
AppendLabel(q) ==
  /\ opPc[q] = "cancelling"
  /\ all[q] = {}
  /\ labels' = [labels EXCEPT ![q] = @ \cup {label[q]}]
  /\ opPc' = [opPc EXCEPT ![q] = "handler"]
  /\ UNCHANGED <<ops, id, cancelled, label, all, before, waiting>>

RemoveNothing(q) == ops
RemoveOp(q) == [ops EXCEPT ![id[q]] = None]

(* The handler returns and cleanup removes whatever is under its id.  An    *)
(* *Operation that nobody runs is dropped from the snapshots it is in:      *)
(* cancelling it has no effect.                                             *)
Done(q) ==
  /\ opPc[q] = "handler"
  /\ ops' = RemoveOp(q)
  /\ opPc' = [opPc EXCEPT ![q] = "idle"]
  /\ id' = [id EXCEPT ![q] = None]
  /\ labels' = [labels EXCEPT ![q] = {}]
  /\ cancelled' = [cancelled EXCEPT ![q] = FALSE]
  /\ label' = [label EXCEPT ![q] = None]
  /\ all' = [p \in Requests |-> all[p] \ {q}]
  /\ before' = [p \in Requests |-> IF p = q THEN {} ELSE before[p] \ {q}]
  /\ UNCHANGED waiting

(* Server.CancelOperation, for an id that is found.                         *)
CancelOperation(i) ==
  /\ ops[i] # None
  /\ cancelled' = [cancelled EXCEPT ![ops[i]] = TRUE]
  /\ UNCHANGED <<ops, id, labels, opPc, label, all, before, waiting>>

(* Server.BlockForOperation: called, and polling.                           *)
BlockForOperation(w, i) ==
  /\ waiting[w] = None
  /\ waiting' = [waiting EXCEPT ![w] = i]
  /\ UNCHANGED <<ops, id, labels, cancelled, opPc, label, all, before>>

GoneOnCancel(i) == ops[i] # None /\ cancelled[ops[i]]
Gone(i) == ops[i] = None

BlockReturns(w) ==
  /\ waiting[w] # None
  /\ Gone(waiting[w])
  /\ waiting' = [waiting EXCEPT ![w] = None]
  /\ UNCHANGED <<ops, id, labels, cancelled, opPc, label, all, before>>

(* Its client gives up.                                                     *)
BlockCancelled(w) ==
  /\ waiting[w] # None
  /\ waiting' = [waiting EXCEPT ![w] = None]
  /\ UNCHANGED <<ops, id, labels, cancelled, opPc, label, all, before>>

Run(q) ==
  \/ \E o \in Requests : CancelOther(q, o)
  \/ AppendLabel(q)
  \/ Done(q)

OpsNext ==
  \/ \E q \in Requests :
       \/ \E i \in IDs : CreateFromIncomingContext(q, i)
       \/ \E l \in Labels : CancelOtherWithLabel(q, l)
       \/ Run(q)
  \/ \E i \in IDs : CancelOperation(i)
  \/ \E w \in Waiters :
       \/ \E i \in IDs : BlockForOperation(w, i)
       \/ BlockReturns(w)
       \/ BlockCancelled(w)

OpsSpec == OpsInit /\ [][OpsNext]_opsVars

(* Goroutines run, handlers return, and BlockForOperation keeps polling.    *)
OpsFairSpec ==
  /\ OpsSpec
  /\ \A q \in Requests : WF_opsVars(Run(q))
  /\ \A w \in Waiters : WF_opsVars(BlockReturns(w))
-----------------------------------------------------------------------------
(* While ids are not shared, every operation that runs is under its id, so  *)
(* CancelOperation, All and BlockForOperation see it, and nothing else is.  *)
Tracked ==
  ~SharedIDs =>
    /\ \A q \in Requests : Running(q) => ops[id[q]] = q
    /\ \A i \in IDs : ops[i] # None => Running(ops[i]) /\ id[ops[i]] = i

(* When CancelOtherWithLabel returns, every operation that had taken the    *)
(* label before it was called is cancelled, or over.                        *)
EarlierHolderCancelled ==
  ~SharedIDs =>
    \A q \in Requests : opPc[q] = "handler" => \A o \in before[q] : cancelled[o]

(* Both: what cancelling by id and cancelling by label rely on.             *)
OperationsTracked == Tracked /\ EarlierHolderCancelled

(* A BlockForOperation is answered: operations end, and it notices.         *)
BlockEnds == \A w \in Waiters : waiting[w] # None ~> waiting[w] = None

-----------------------------------------------------------------------------
(* What the comments say, without the exceptions.                           *)

(* operation/opid.go:53: "CancelOtherWithLabel will cancel all operations   *)
(* besides this one with this label": two uncancelled operations never both *)
(* hold a label.                                                            *)
OneLabelHolder ==
  \A p, q \in Requests, l \in Labels :
    l \in labels[p] /\ l \in labels[q] /\ ~cancelled[p] /\ ~cancelled[q] => p = q

(* robot/server/server.go:106: "BlockForOperation blocks for an operation   *)
(* to finish": it returns when no request runs under the id.                *)
BlockWaits ==
  [][\A w \in Waiters :
       BlockReturns(w) => \A q \in Requests : id[q] # waiting[w]]_opsVars
=============================================================================
