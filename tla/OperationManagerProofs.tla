------------------------ MODULE OperationManagerProofs ------------------------
(***************************************************************************)
(* Proofs about operation.Manager, for any requests, ids, labels and       *)
(* waiters.                                                                *)
(*                                                                         *)
(* That a holder of the label is cancelled when CancelOtherWithLabel       *)
(* returns is not inductive: while the call goes through its snapshot, an  *)
(* earlier holder is cancelled already or is still ahead, with the label.  *)
(***************************************************************************)
EXTENDS OperationManager, TLAPS

\* None is neither a request nor an id.
OperationConstants ==
  None \notin Requests /\ None \notin IDs /\ SharedIDs \in BOOLEAN

\* What a request holds in each of its places.
Places ==
  \A q \in Requests :
    /\ Running(q) => id[q] \in IDs
    /\ ~Running(q) => id[q] = None /\ before[q] = {}
    /\ opPc[q] = "cancelling" => label[q] \in Labels

\* The part of the snapshot still to be looked at.
AheadOrCancelled ==
  ~SharedIDs =>
    \A q \in Requests : opPc[q] = "cancelling" =>
      \A o \in before[q] : cancelled[o] \/ (o \in all[q] /\ label[q] \in labels[o])

OpInv ==
  /\ OperationConstants /\ OpsTypeOK /\ Places
  /\ Tracked /\ AheadOrCancelled /\ EarlierHolderCancelled

-----------------------------------------------------------------------------
LEMMA OpInit == OperationConstants /\ OpsInit => OpInv
BY DEF OperationConstants, OpsInit, OpInv, OpsTypeOK, Places, Running, Tracked,
       AheadOrCancelled, EarlierHolderCancelled

LEMMA CreateKeeps ==
  ASSUME OpInv, NEW q \in Requests, NEW i \in IDs, CreateFromIncomingContext(q, i)
  PROVE  OpInv'
<1> USE DEF CreateFromIncomingContext, Running
<1>1. OpsTypeOK'
  BY DEF OpInv, OpsTypeOK
<1>2. Places'
  BY DEF OpInv, OpsTypeOK, Places
<1>3. Tracked'
  BY DEF OpInv, OpsTypeOK, Places, Tracked, Fresh, OperationConstants
<1>4. AheadOrCancelled' /\ EarlierHolderCancelled'
  BY DEF OpInv, OpsTypeOK, Places, AheadOrCancelled, EarlierHolderCancelled
<1>5. QED
  BY <1>1, <1>2, <1>3, <1>4 DEF OpInv, OperationConstants

LEMMA SnapshotKeeps ==
  ASSUME OpInv, NEW q \in Requests, NEW l \in Labels, CancelOtherWithLabel(q, l)
  PROVE  OpInv'
<1> USE DEF CancelOtherWithLabel
<1>1. OpsTypeOK'
  BY DEF OpInv, OpsTypeOK, Registered
<1>2. Places' /\ Tracked'
  BY DEF OpInv, OpsTypeOK, Places, Tracked, Running
<1>3. AheadOrCancelled'
  <2>1. SUFFICES ASSUME ~SharedIDs, NEW p \in Requests, opPc'[p] = "cancelling",
                        NEW o \in before'[p]
                 PROVE  cancelled'[o] \/ (o \in all'[p] /\ label'[p] \in labels'[o])
    BY DEF AheadOrCancelled
  <2>2. CASE p = q
    <3>1. o \in Requests \ {q} /\ Running(o) /\ l \in labels[o]
      BY <2>1, <2>2 DEF OpInv, OpsTypeOK
    <3>2. o \in Registered
      BY <2>1, <3>1 DEF OpInv, Places, Tracked, Registered
    <3>3. QED
      BY <2>1, <2>2, <3>1, <3>2 DEF OpInv, OpsTypeOK
  <2>3. CASE p # q
    BY <2>1, <2>3 DEF OpInv, OpsTypeOK, AheadOrCancelled
  <2>4. QED
    BY <2>2, <2>3
<1>4. EarlierHolderCancelled'
  BY DEF OpInv, OpsTypeOK, EarlierHolderCancelled
<1>5. QED
  BY <1>1, <1>2, <1>3, <1>4 DEF OpInv, OperationConstants

LEMMA LookKeeps ==
  ASSUME OpInv, NEW q \in Requests, NEW o \in Requests, CancelOther(q, o)
  PROVE  OpInv'
<1> USE DEF CancelOther, HasLabel
<1>1. OpsTypeOK'
  BY DEF OpInv, OpsTypeOK
<1>2. Places' /\ Tracked'
  BY DEF OpInv, OpsTypeOK, Places, Tracked, Running
<1>3. \A p \in Requests : cancelled[p] => cancelled'[p]
  BY DEF OpInv, OpsTypeOK
<1>4. AheadOrCancelled'
  BY <1>3 DEF OpInv, OpsTypeOK, AheadOrCancelled
<1>5. EarlierHolderCancelled'
  BY <1>3 DEF OpInv, OpsTypeOK, EarlierHolderCancelled
<1>6. QED
  BY <1>1, <1>2, <1>4, <1>5 DEF OpInv, OperationConstants

LEMMA AppendKeeps ==
  ASSUME OpInv, NEW q \in Requests, AppendLabel(q)
  PROVE  OpInv'
<1> USE DEF AppendLabel
<1>1. OpsTypeOK'
  <2>1. labels' \in [Requests -> SUBSET Labels]
    BY DEF OpInv, OpsTypeOK, Places
  <2>2. QED
    BY <2>1 DEF OpInv, OpsTypeOK
<1>2. Places' /\ Tracked'
  BY DEF OpInv, OpsTypeOK, Places, Tracked, Running
<1>3. AheadOrCancelled' /\ EarlierHolderCancelled'
  BY DEF OpInv, OpsTypeOK, AheadOrCancelled, EarlierHolderCancelled
<1>4. QED
  BY <1>1, <1>2, <1>3 DEF OpInv, OperationConstants

LEMMA DoneKeeps ==
  ASSUME OpInv, NEW q \in Requests, Done(q)
  PROVE  OpInv'
<1> USE DEF Done, RemoveOp
<1>1. OpsTypeOK'
  BY DEF OpInv, OpsTypeOK
<1>2. Places'
  BY DEF OpInv, OpsTypeOK, Places, Running
<1>3. Tracked'
  BY DEF OpInv, OpsTypeOK, Places, Tracked, Running, OperationConstants
<1>4. AheadOrCancelled' /\ EarlierHolderCancelled'
  BY DEF OpInv, OpsTypeOK, AheadOrCancelled, EarlierHolderCancelled
<1>5. QED
  BY <1>1, <1>2, <1>3, <1>4 DEF OpInv, OperationConstants

LEMMA CancelKeeps ==
  ASSUME OpInv, NEW i \in IDs, CancelOperation(i)
  PROVE  OpInv'
<1> USE DEF CancelOperation
<1>1. OpsTypeOK'
  BY DEF OpInv, OpsTypeOK
<1>2. \A p \in Requests : cancelled[p] => cancelled'[p]
  BY DEF OpInv, OpsTypeOK
<1>3. QED
  BY <1>1, <1>2 DEF OpInv, OperationConstants, OpsTypeOK, Places, Tracked, Running,
                    AheadOrCancelled, EarlierHolderCancelled

LEMMA BlockKeeps ==
  ASSUME OpInv, NEW w \in Waiters,
         (\E i \in IDs : BlockForOperation(w, i)) \/ BlockReturns(w) \/ BlockCancelled(w)
  PROVE  OpInv'
<1>1. OpsTypeOK'
  BY DEF BlockForOperation, BlockReturns, BlockCancelled, OpInv, OpsTypeOK
<1>2. UNCHANGED <<ops, id, labels, cancelled, opPc, label, all, before>>
  BY DEF BlockForOperation, BlockReturns, BlockCancelled
<1>3. QED
  BY <1>1, <1>2 DEF OpInv, OperationConstants, Places, Tracked, Running,
                    AheadOrCancelled, EarlierHolderCancelled

LEMMA OpStep == OpInv /\ [OpsNext]_opsVars => OpInv'
<1> SUFFICES ASSUME OpInv, [OpsNext]_opsVars PROVE OpInv'
  OBVIOUS
<1>1. CASE OpsNext
  BY <1>1, CreateKeeps, SnapshotKeeps, LookKeeps, AppendKeeps, DoneKeeps, CancelKeeps,
     BlockKeeps DEF OpsNext, Run
<1>2. CASE UNCHANGED opsVars
  BY <1>2 DEF opsVars, OpInv, OperationConstants, OpsTypeOK, Places, Tracked, Running,
              AheadOrCancelled, EarlierHolderCancelled
<1>3. QED
  BY <1>1, <1>2

-----------------------------------------------------------------------------
\* The tables of operation.Manager keep their types.
THEOREM OpsTypeCorrect == OperationConstants /\ OpsSpec => []OpsTypeOK
<1>1. OpInv => OpsTypeOK
  BY DEF OpInv
<1>2. QED
  BY <1>1, OpInit, OpStep, PTL DEF OpsSpec

\* While no request brings the id of a running one, an operation that runs is
\* found under its id and nothing else is, and when CancelOtherWithLabel
\* returns every earlier holder of the label is cancelled or over.
THEOREM OperationsAreTracked == OperationConstants /\ OpsSpec => []OperationsTracked
<1>1. OpInv => OperationsTracked
  BY DEF OpInv, OperationsTracked
<1>2. QED
  BY <1>1, OpInit, OpStep, PTL DEF OpsSpec
=============================================================================
