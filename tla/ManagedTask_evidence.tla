-------------------------- MODULE ManagedTask_evidence --------------------------
(***************************************************************************)
(* What the supervisor knows when it settles a task, for any number of     *)
(* tasks and any limits: nothing is replayed or called completed without   *)
(* settled evidence, a requested cancel is honoured, a running task has an *)
(* owner, and prompts are bounded.                                         *)
(***************************************************************************)
EXTENDS ManagedTask_proofs

(* Every slot of a worker belongs to a running task, and the supervisor    *)
(* settles only tasks that still run.                                      *)
OwnerInv ==
    /\ \A t \in Tasks : pc[t] # "off" => state[t] = "Running"
    /\ \A t \in todo : pc[t] = "off"
    /\ op.kind = None => op = Idle
    /\ op.kind \in {"finish", "mark"} => state[op.at] = "Running"
    /\ op.kind = "finish" => \/ pc[op.at] \in {"done", "unrecorded"}
                             \/ pc[op.at] = "off" /\ sup = "reconciling"
    /\ op.kind = "mark" => /\ pc[op.at] \in {"done", "unrecorded", "pending"}
                           /\ sup # "reconciling"
    /\ op.kind = "launch" => sup # "reconciling"
    /\ sup = "down" => todo = {} /\ stale = {}
    /\ sup \in {"down", "reconciling"} => \A t \in Tasks : pc[t] = "off"

(* No write of another process moves a running task, whose row a worker may *)
(* hold.                                                                   *)
LEMMA OwnerUser ==
    ASSUME TypeOK, ReadInv, OwnerInv, NEW t \in Tasks, User(t)
    PROVE  OwnerInv'
<1> USE NoTaskAssumption
    DEF TypeOK, ReadInv, OwnerInv, UserWrite, workVars, supVars, rowVars, None, Idle
<1>1. CASE Cancel(t)
  BY <1>1, SMT DEF Cancel
<1>2. CASE Reply(t)
  BY <1>2, SMT DEF Reply
<1>3. CASE Recall(t)
  BY <1>3, SMT DEF Recall
<1>4. CASE DismissUncertain(t)
  BY <1>4, SMT DEF DismissUncertain
<1>5. CASE ReconcileUncertain(t)
  BY <1>5, SMT DEF ReconcileUncertain
<1>6. CASE CloseUnanswered(t)
  BY <1>6, SMT DEF CloseUnanswered
<1>7. CASE RecoverRun(t)
  BY <1>7, SMT DEF RecoverRun
<1> QED
  BY <1>1, <1>2, <1>3, <1>4, <1>5, <1>6, <1>7 DEF User

(* A worker stays active until it is done, and no settlement is under way  *)
(* while it is.                                                            *)
LEMMA OwnerWorker ==
    ASSUME TypeOK, OwnerInv, NEW t \in Tasks, Worker(t) \/ ProviderExits(t)
    PROVE  OwnerInv'
<1> USE DEF TypeOK, OwnerInv, WorkerStep, workVars, supVars, rowVars, WorkerPc
<1>1. ASSUME NEW from \in WorkerPc, NEW to \in WorkerPc, WorkerStep(t, from, to),
             op.kind = "finish" \/ op.kind = "mark" => op.at # t \/ from # "done"
      PROVE  OwnerInv'
  BY <1>1, SMT
<1>2. CASE ProviderExits(t)
  BY <1>2 DEF ProviderExits
<1>3. CASE Worker(t)
  <2>1. \E from \in WorkerPc \ {"done"}, to \in WorkerPc : WorkerStep(t, from, to)
    BY <1>3
    DEF Worker, RefuseInput, AppendInput, RefuseRun, PrepareRun,
        PreparationFails, Spawn, MarkSpawned, Submit, JoinTurn, AbandonTurn,
        Settle, SettleFault
  <2> QED
    BY <1>1, <2>1
<1> QED
  BY <1>2, <1>3

(* The supervisor gives a slot to a queued task only, and settling a task  *)
(* frees its slot.                                                         *)
LEMMA OwnerSupervise ==
    ASSUME TypeOK, ReadInv, OwnerInv, NEW t \in Tasks, Supervise(t)
    PROVE  OwnerInv'
<1> USE DEF TypeOK, ReadInv, OwnerInv, workVars, supVars, rowVars, In, Begin,
            Current, Idle, None,
        Forget
<1>1. CASE LaunchBegin(t)
  BY <1>1, SMT DEF LaunchBegin
<1>2. CASE Prepare(t)
  BY <1>2, SMT DEF Prepare
<1>3. CASE FailUnstarted(t)
  BY <1>3, SMT DEF FailUnstarted
<1>4. CASE LaunchAbandoned(t) \/ LaunchFault(t)
  BY <1>4, SMT DEF LaunchAbandoned, LaunchFault
<1>5. CASE SignalCancel(t)
  BY <1>5, SMT DEF SignalCancel
<1>6. CASE CancelBegin(t)
  BY <1>6, SMT DEF CancelBegin, Cancellable
<1>7. CASE CancelCommit(t)
  BY <1>7, SMT DEF CancelCommit
<1>8. CASE CancelConflict(t)
  BY <1>8, SMT DEF CancelConflict
<1>9. CASE RecordBegin(t)
  BY <1>9, SMT DEF RecordBegin, Serving
<1>10. CASE FinishCommit(t)
  <2>1. \A u \in Tasks \ {t} : state'[u] = state[u]
    BY <1>10 DEF FinishCommit
  <2> QED
    BY <1>10, <2>1, SMT DEF FinishCommit
<1>11. ASSUME RecordFailed(t), In("finish", t), UNCHANGED <<state, sup>> PROVE OwnerInv'
  BY <1>11, SMT DEF RecordFailed
<1>12. CASE FinishConflict(t)
  BY <1>11, <1>12, SMT DEF FinishConflict
<1>13. CASE FinishFault(t)
  BY <1>11, <1>13 DEF FinishFault
<1>14. CASE MarkBegin(t)
  BY <1>14, SMT DEF MarkBegin
<1>15. CASE MarkCommit(t)
  BY <1>15, SMT DEF MarkCommit
<1>16. CASE MarkConflict(t)
  BY <1>16, SMT DEF MarkConflict
<1>17. CASE MarkFault(t)
  BY <1>17, SMT DEF MarkFault
<1>18. CASE ReconcileCommit(t)
  BY <1>18, SMT DEF ReconcileCommit
<1>19. CASE ReconcileSkip(t)
  BY <1>19, SMT DEF ReconcileSkip
<1>20. CASE ReconcileFinish(t)
  BY <1>20, SMT DEF ReconcileFinish
<1> QED
  BY <1>1, <1>2, <1>3, <1>4, <1>5, <1>6, <1>7, <1>8, <1>9, <1>10, <1>12, <1>13,
     <1>14, <1>15, <1>16, <1>17, <1>18, <1>19, <1>20 DEF Supervise

(* Processes come up and go down with no slot in use.                      *)
LEMMA OwnerInductive ==
    ASSUME TypeOK, ReadInv, OwnerInv, [Next]_vars
    PROVE  OwnerInv'
<1> USE DEF TypeOK, ReadInv, OwnerInv, workVars, supVars, rowVars, Idle, None
<1>1. CASE Crash \/ Exit
  BY <1>1 DEF Crash, Exit, Gone
<1>2. CASE Interrupt \/ Drain
  BY <1>2 DEF Interrupt, Drain
<1>3. CASE Start
  BY <1>3 DEF Start, LeftRunning
<1>4. CASE ReconcileDone
  BY <1>4 DEF ReconcileDone
<1>5. CASE UNCHANGED vars
  BY <1>5 DEF vars
<1> QED
  BY <1>1, <1>2, <1>3, <1>4, <1>5, OwnerUser, OwnerWorker, OwnerSupervise DEF Next

-----------------------------------------------------------------------------
(* Workers that have not sent the prompt, and workers that hold a run.     *)
Unsent == {"starting", "appended", "prepared", "spawned", "marked"}
Owning == {"prepared", "spawned", "marked", "turn", "joined"}

(* A prompt is sent only over an appended input, on a run that answers it; *)
(* a completion that calls itself settled names the outcome the run        *)
(* retains; and a row that claims more than `Running' has that evidence.   *)
EvidenceOf(t) ==
    /\ sent[t] => appended[t]
    /\ pc[t] \in Unsent => ~sent[t]
    /\ pc[t] \in (Unsent \cup Owning) \ {"starting"} => appended[t]
    /\ pc[t] \in Owning => run[t].mine
    /\ pc[t] \in Unsent \cup {"turn"} => result[t] = NoResult
    /\ pc[t] = "off" => result[t] = NoResult \/ In("finish", t)
    /\ result[t].custody = "settled" =>
          /\ result[t].class \in OutcomeClass
          /\ pc[t] # "joined" => Evidence(t) /\ run[t].outcome = result[t].class
    /\ state[t] \in {"Queued", "NeedsInput", "Completed"} /\ sent[t] => Evidence(t)
    /\ state[t] = "Completed" =>
          Evidence(t) /\ run[t].outcome \in {"completed", "silent"}

EvidenceInv == \A t \in Tasks : EvidenceOf(t)

(* The user's writes rely on evidence that is there; recovery settles only *)
(* runs that were unsettled, which were no evidence.                       *)
LEMMA EvidenceUser ==
    ASSUME TypeOK, EvidenceInv, NEW t \in Tasks, User(t)
    PROVE  EvidenceInv'
<1> SUFFICES ASSUME NEW d \in Tasks PROVE EvidenceOf(d)'
  BY DEF EvidenceInv
<1>0. EvidenceOf(d)
  BY DEF EvidenceInv
<1> USE <1>0 DEF TypeOK, EvidenceOf, UserWrite, workVars, supVars, rowVars, histVars,
                 Unsent, Owning, Evidence, In, None
<1>1. CASE Cancel(t)
  BY <1>1, SMT DEF Cancel
<1>2. CASE Reply(t)
  BY <1>2, SMT DEF Reply
<1>3. CASE Recall(t)
  BY <1>3, SMT DEF Recall
<1>4. CASE DismissUncertain(t)
  BY <1>4, SMT DEF DismissUncertain
<1>5. CASE ReconcileUncertain(t)
  BY <1>5, SMT DEF ReconcileUncertain, ReconciledState, Conclusive
<1>6. CASE CloseUnanswered(t)
  BY <1>6, SMT DEF CloseUnanswered
<1>7. CASE RecoverRun(t)
  BY <1>7, SMT DEF RecoverRun, Recoverable
<1> QED
  BY <1>1, <1>2, <1>3, <1>4, <1>5, <1>6, <1>7 DEF User

(* A worker appends before it prepares, prepares before it sends, and      *)
(* reports a settled turn only with the outcome it recorded.               *)
LEMMA EvidenceWorker ==
    ASSUME TypeOK, OwnerInv, EvidenceInv, NEW t \in Tasks, Worker(t) \/ ProviderExits(t)
    PROVE  EvidenceInv'
<1> SUFFICES ASSUME NEW d \in Tasks PROVE EvidenceOf(d)'
  BY DEF EvidenceInv
<1>0. EvidenceOf(d)
  BY DEF EvidenceInv
<1>state. pc[d] # "off" => state[d] = "Running"
  BY DEF OwnerInv
<1> USE <1>0 DEF TypeOK, EvidenceOf, WorkerStep, workVars, supVars, rowVars, histVars,
                 Unsent, Owning, Evidence, In, None, Ends
<1>1. CASE RefuseInput(t)
  BY <1>1, <1>state, SMT DEF RefuseInput, ErrorClass
<1>2. CASE AppendInput(t)
  BY <1>2, <1>state, SMT DEF AppendInput
<1>3. CASE RefuseRun(t)
  BY <1>3, <1>state, SMT DEF RefuseRun, ErrorClass
<1>4. CASE PrepareRun(t)
  BY <1>4, <1>state, SMT DEF PrepareRun, NoResult
<1>5. CASE PreparationFails(t)
  BY <1>5, <1>state, SMT DEF PreparationFails, ErrorClass
<1>6. CASE Spawn(t)
  BY <1>6, <1>state, SMT DEF Spawn
<1>7. CASE MarkSpawned(t)
  BY <1>7, <1>state, SMT DEF MarkSpawned, NoResult
<1>8. CASE Submit(t)
  BY <1>8, <1>state, SMT DEF Submit
<1>9. CASE JoinTurn(t)
  BY <1>9, <1>state, SMT DEF JoinTurn, EndClass, OutcomeClass, UnsentClass
<1>10. CASE AbandonTurn(t)
  BY <1>10, <1>state, SMT DEF AbandonTurn
<1>11. CASE Settle(t)
  <2>1. CASE result[t].custody = "settled"
    <3>1. /\ run'[t].phase = "settled" /\ run'[t].outcome = result[t].class
          /\ run'[t].mine = run[t].mine
          /\ \A u \in Tasks \ {t} : run'[u] = run[u]
      BY <1>11, <2>1, SMT DEF Settle, Run
    <3> QED
      BY <1>11, <1>state, <2>1, <3>1, SMT DEF Settle, OutcomeClass
  <2>2. CASE result[t].custody # "settled"
    BY <1>11, <1>state, <2>2, SMT DEF Settle
  <2> QED
    BY <2>1, <2>2
<1>12. CASE SettleFault(t)
  BY <1>12, <1>state, SMT DEF SettleFault
<1>13. CASE ProviderExits(t)
  BY <1>13, SMT DEF ProviderExits
<1> QED
  BY <1>1, <1>2, <1>3, <1>4, <1>5, <1>6, <1>7, <1>8, <1>9, <1>10, <1>11, <1>12, <1>13
  DEF Worker

(* What a settlement may conclude from the worker's completion.            *)
LEMMA FinishEvidence ==
    ASSUME NEW t \in Tasks, NEW c \in Choice(t), NEW s \in FinishState(t, c),
           EvidenceOf(t), pc[t] # "joined", result[t] \in Result
    PROVE  /\ s \in {"Queued", "NeedsInput", "Completed"} /\ sent[t] => Evidence(t)
           /\ s = "Completed" => Evidence(t) /\ run[t].outcome = "completed"
<1>1. CASE result[t].custody = "error"
  <2>1. s \in ErrState(t, c)
    BY <1>1 DEF FinishState
  <2>2. s # "Completed"
    BY <2>1, SMT DEF ErrState
  <2>3. s \in {"Queued", "NeedsInput"} => DispatchUnstarted(t)
    BY <2>1, SMT DEF ErrState, UnstartedRetry
  <2> QED
    BY <2>2, <2>3 DEF DispatchUnstarted, EvidenceOf
<1>2. CASE result[t].custody # "error"
  <2>1. s \in OkState(t, c)
    BY <1>2 DEF FinishState
  <2>2. CASE result[t].custody # "settled"
    BY <2>1, <2>2, SMT DEF OkState, SettlementUncertain
  <2>3. CASE result[t].custody = "settled"
    <3>1. Evidence(t) /\ run[t].outcome = result[t].class
      BY <2>3 DEF EvidenceOf
    <3>2. s = "Completed" => s \in OutcomeState(result[t].class)
      BY <2>1, SMT DEF OkState
    <3>3. s = "Completed" => result[t].class = "completed"
      BY <3>2, SMT DEF OutcomeState
    <3> QED
      BY <3>1, <3>3
  <2> QED
    BY <2>2, <2>3
<1> QED
  BY <1>1, <1>2

(* What the supervisor writes of a task follows from the evidence.         *)
LEMMA EvidenceSupervise ==
    ASSUME TypeOK, ReadInv, OwnerInv, EvidenceInv, NEW t \in Tasks, Supervise(t)
    PROVE  EvidenceInv'
<1> SUFFICES ASSUME NEW d \in Tasks PROVE EvidenceOf(d)'
  BY DEF EvidenceInv
<1>0. EvidenceOf(d)
  BY DEF EvidenceInv
<1>state. pc[d] # "off" => state[d] = "Running"
  BY DEF OwnerInv
<1> USE <1>0 DEF TypeOK, EvidenceOf, workVars, supVars, rowVars, histVars,
                 Unsent, Owning, Evidence, In, None, Begin, Current, Forget, NoResult
<1>1. CASE LaunchBegin(t)
  BY <1>1, SMT DEF LaunchBegin, Idle
<1>2. CASE Prepare(t)
  <2>1. pc[t] = "off"
    BY <1>2, SMT DEF Prepare, ReadInv, OwnerInv
  <2>2. \A u \in Tasks \ {t} : run'[u] = run[u]
    BY <1>2 DEF Prepare
  <2> QED
    BY <1>2, <2>1, <2>2, SMT DEF Prepare, Idle
<1>3. CASE FailUnstarted(t)
  BY <1>3, SMT DEF FailUnstarted, Idle
<1>4. CASE LaunchAbandoned(t) \/ LaunchFault(t)
  BY <1>4, SMT DEF LaunchAbandoned, LaunchFault, Idle
<1>5. CASE SignalCancel(t)
  BY <1>5, SMT DEF SignalCancel
<1>6. CASE CancelBegin(t)
  BY <1>6, SMT DEF CancelBegin, Idle
<1>7. CASE CancelCommit(t)
  BY <1>7, SMT DEF CancelCommit, Idle
<1>8. CASE CancelConflict(t)
  BY <1>8, SMT DEF CancelConflict, Idle
<1>9. CASE RecordBegin(t)
  BY <1>9, SMT DEF RecordBegin, Serving, Idle
<1>10. CASE FinishCommit(t)
  <2>1. op.kind = "finish" /\ op.at = t /\ state[t] = "Running" /\ pc[t] # "joined"
    BY <1>10, SMT DEF FinishCommit, OwnerInv
  <2>2. \E c \in Choice(t) : \E s \in FinishState(t, c) :
           state' = [state EXCEPT ![t] = s]
    BY <1>10, <2>1, SMT DEF FinishCommit, Terminal
  <2> PICK c \in Choice(t) : \E s \in FinishState(t,
       c) : state' = [state EXCEPT ![t] = s]
    BY <2>2
  <2>3. PICK s \in FinishState(t, c) : state' = [state EXCEPT ![t] = s]
    OBVIOUS
  <2>4. /\ s \in {"Queued", "NeedsInput", "Completed"} /\ sent[t] => Evidence(t)
        /\ s = "Completed" => Evidence(t) /\ run[t].outcome = "completed"
    <3> EvidenceOf(t) /\ result[t] \in Result
      BY DEF EvidenceInv
    <3> QED
      BY <2>1, <2>3, FinishEvidence
  <2>5. UNCHANGED <<sent, appended, run>> /\ Forget(t) /\ op' = Idle
    BY <1>10 DEF FinishCommit
  <2> QED
    BY <2>1, <2>3, <2>4, <2>5, SMT DEF Idle
<1>11. ASSUME RecordFailed(t), In("finish", t), UNCHANGED <<state, appended, run, sent>>
       PROVE  EvidenceOf(d)'
  <2>1. sup # "reconciling" => pc[t] \in {"done", "unrecorded"}
    BY <1>11 DEF OwnerInv
  <2> QED
    BY <1>11, <2>1, SMT DEF RecordFailed, Idle
<1>12. CASE FinishConflict(t)
  BY <1>11, <1>12, SMT DEF FinishConflict
<1>13. CASE FinishFault(t)
  BY <1>11, <1>13 DEF FinishFault
<1>14. CASE MarkBegin(t)
  BY <1>14, SMT DEF MarkBegin, Idle
<1>15. CASE MarkCommit(t)
  BY <1>15, SMT DEF MarkCommit, Idle, Terminal
<1>16. CASE MarkConflict(t)
  BY <1>16, SMT DEF MarkConflict, Idle
<1>17. CASE MarkFault(t)
  <2>1. pc[t] \in {"done", "unrecorded", "pending"}
    BY <1>17 DEF MarkFault, OwnerInv
  <2> QED
    BY <1>17, <2>1, SMT DEF MarkFault, Idle
<1>18. CASE ReconcileCommit(t)
  BY <1>18, SMT DEF ReconcileCommit, DispatchUnstarted
<1>19. CASE ReconcileSkip(t)
  BY <1>19, SMT DEF ReconcileSkip
<1>20. CASE ReconcileFinish(t)
  <2>1. pc[t] = "off" /\ op.kind = None
    BY <1>20 DEF ReconcileFinish, OwnerInv, Idle
  <2>2. run[t].outcome \in OutcomeClass
    BY <1>20, SMT DEF ReconcileFinish, Run
  <2>3. CASE d = t
    BY <1>20, <2>1, <2>2, <2>3, SMT DEF ReconcileFinish
  <2>4. CASE d # t
    BY <1>20, <2>1, <2>4, SMT DEF ReconcileFinish
  <2> QED
    BY <2>3, <2>4
<1> QED
  BY <1>1, <1>2, <1>3, <1>4, <1>5, <1>6, <1>7, <1>8, <1>9, <1>10, <1>12, <1>13,
     <1>14, <1>15, <1>16, <1>17, <1>18, <1>19, <1>20 DEF Supervise

(* The evidence survives crashes, restarts and recovery.                   *)
LEMMA EvidenceInductive ==
    ASSUME TypeOK, ReadInv, OwnerInv, EvidenceInv, [Next]_vars
    PROVE  EvidenceInv'
<1> USE DEF TypeOK, EvidenceInv, EvidenceOf, workVars, supVars, rowVars, histVars,
            Unsent, Owning,
            Evidence, In, None
<1>1. CASE Crash \/ Exit
  <2>1. Gone
    BY <1>1 DEF Crash, Exit
  <2>2. \A t \in Tasks : /\ run'[t].phase = run[t].phase /\ run'[t].mine = run[t].mine
                         /\ run'[t].outcome = run[t].outcome
    BY <2>1, SMT DEF Gone, Run
  <2> QED
    BY <2>1, <2>2, SMT DEF Gone, NoResult
<1>2. CASE Interrupt \/ Drain
  BY <1>2, SMT DEF Interrupt, Drain
<1>3. CASE Start
  BY <1>3, SMT DEF Start, OwnerInv
<1>4. CASE ReconcileDone
  <2>1. \A t \in Tasks : /\ run[t].phase = "settled" => run'[t] = run[t]
                         /\ run'[t].mine = run[t].mine
    BY <1>4, SMT DEF ReconcileDone, Recoverable, Run
  <2> QED
    BY <1>4, <2>1, SMT DEF ReconcileDone
<1>5. CASE UNCHANGED vars
  BY <1>5, SMT DEF vars
<1> QED
  BY <1>1, <1>2, <1>3, <1>4, <1>5, EvidenceUser, EvidenceWorker,
       EvidenceSupervise DEF Next

(* The rows, slots and runs agree in every state.                          *)
LEMMA EvidenceInvariant ==
    Spec => [](TypeOK /\ ReadInv /\ LeaseInv /\ OwnerInv /\ EvidenceInv)
<1>1. Init => LeaseInv /\ OwnerInv /\ EvidenceInv
  BY SMT DEF Init, LeaseInv, Holding, OwnerInv, EvidenceInv, EvidenceOf, Unsent, Owning,
             Idle, None, NoResult
<1>2. /\ TypeOK /\ ReadInv /\ LeaseInv /\ OwnerInv /\ EvidenceInv /\ [Next]_vars
      => (LeaseInv /\ OwnerInv /\ EvidenceInv)'
  BY LeaseInductive, OwnerInductive, EvidenceInductive
<1> QED
  BY <1>1, <1>2, RowInvariant, PTL DEF Spec

(* For all constants: a task that may be dispatched again, asks the user   *)
(* or is completed has settled evidence of the prompt it last sent.        *)
THEOREM NothingIsReplayed == Spec => []NoReplayOverAmbiguity
<1>1. LeaseInv /\ EvidenceInv => NoReplayOverAmbiguity
  BY DEF LeaseInv, EvidenceInv, EvidenceOf, NoReplayOverAmbiguity, Evidence, Unsettled
<1> QED
  BY <1>1, EvidenceInvariant, PTL

(* For all constants: a completed task rests on a settled, completed turn. *)
THEOREM CompletionIsEvident == Spec => []CompletedHasEvidence
<1>1. EvidenceInv => CompletedHasEvidence
  BY DEF EvidenceInv, EvidenceOf, CompletedHasEvidence
<1> QED
  BY <1>1, EvidenceInvariant, PTL

-----------------------------------------------------------------------------
(* Cancels.                                                                *)

(* Every rule that dispatches a task again requires that no cancellation   *)
(* is requested.                                                           *)
LEMMA CancelledNotQueued ==
    ASSUME NEW t \in Tasks, NEW c \in Choice(t), cancel[t]
    PROVE  "Queued" \notin FinishState(t, c)
<1>1. "Queued" \notin ErrState(t, c)
  BY SMT DEF ErrState, UnstartedRetry, DispatchUnstarted, CancellationSettled
<1>2. ~TransientRetry(t, c) /\ ~FailoverRoute(t, c) /\ ~StaleModel(t)
  BY DEF TransientRetry, NoEffectRefusal, FailoverRoute, StaleModel, MayContinue
<1>3. c.review = None /\ ~c.go
  BY DEF Choice, MayContinue
<1>4. "Queued" \notin OutcomeState(result[t].class)
  BY SMT DEF OutcomeState
<1>5. "Queued" \notin OkState(t, c)
  BY <1>2, <1>3, <1>4, SMT DEF OkState, None
<1> QED
  BY <1>1, <1>5 DEF FinishState

(* Outside of startup only a settlement moves a running task.              *)
LEMMA CancelStep ==
    ASSUME TypeOK, ReadInv, [Next]_vars, NEW d \in Tasks,
           state[d] = "Running", cancel[d], state'[d] = "Queued"
    PROVE  sup = "reconciling"
<1> USE DEF TypeOK, workVars, supVars, rowVars, histVars, In, Current, None, UserWrite
<1>1. ASSUME NEW t \in Tasks, User(t) PROVE FALSE
  BY <1>1, SMT DEF User, Cancel, Reply, Recall, DismissUncertain, ReconcileUncertain,
                   CloseUnanswered, RecoverRun
<1>2. ASSUME NEW t \in Tasks, Worker(t) \/ ProviderExits(t) PROVE FALSE
  BY <1>2, SMT DEF Worker, ProviderExits, RefuseInput, AppendInput, RefuseRun,
                   PrepareRun,
         PreparationFails, Spawn, MarkSpawned, Submit, JoinTurn, AbandonTurn,
         Settle, SettleFault, WorkerStep
<1>3. ASSUME NEW t \in Tasks, FinishCommit(t) PROVE FALSE
  <2>1. \E c \in Choice(t) : \E s \in FinishState(t,
       c) : state' = [state EXCEPT ![t] = s]
    BY <1>3, SMT DEF FinishCommit
  <2> PICK c \in Choice(t) : \E s \in FinishState(t,
       c) : state' = [state EXCEPT ![t] = s]
    BY <2>1
  <2> QED
    BY CancelledNotQueued
<1>4. ASSUME NEW t \in Tasks, ReconcileCommit(t) PROVE sup = "reconciling"
  BY <1>4 DEF ReconcileCommit
<1>5. ASSUME NEW t \in Tasks,
             \/ LaunchBegin(t) \/ Prepare(t) \/ FailUnstarted(t) \/ LaunchAbandoned(t)
             \/ LaunchFault(t) \/ SignalCancel(t)
             \/ CancelBegin(t) \/ CancelCommit(t) \/ CancelConflict(t)
             \/ RecordBegin(t) \/ FinishConflict(t) \/ FinishFault(t)
             \/ MarkBegin(t) \/ MarkCommit(t) \/ MarkConflict(t) \/ MarkFault(t)
             \/ ReconcileSkip(t) \/ ReconcileFinish(t)
      PROVE  FALSE
  BY <1>5, SMT DEF LaunchBegin, Prepare, FailUnstarted, LaunchAbandoned,
                   LaunchFault, SignalCancel,
    CancelBegin, CancelCommit, CancelConflict, RecordBegin, FinishConflict, FinishFault,
    MarkBegin, MarkCommit, MarkConflict, MarkFault, ReconcileSkip, ReconcileFinish

<1>6. ASSUME \/ Crash \/ Interrupt \/ Drain \/ Exit \/ Start \/ ReconcileDone
             \/ UNCHANGED vars
      PROVE  FALSE
  BY <1>6 DEF Crash, Interrupt, Drain, Exit, Start, ReconcileDone, Gone, vars
<1> QED
  BY <1>1, <1>2, <1>3, <1>4, <1>5, <1>6 DEF Next, Supervise

(* For all constants: a settlement never re-queues a task whose            *)
(* cancellation is requested.                                              *)
THEOREM CancelIsHonoured == Spec => CancelNotRequeued
<1>1. TypeOK /\ ReadInv /\ [Next]_vars =>
      [\A t \in Tasks : state[t] = "Running" /\ cancel[t] /\ state'[t] = "Queued" =>
          sup = "reconciling"]_vars
  BY CancelStep
<1> QED
  BY <1>1, RowInvariant, PTL DEF Spec, CancelNotRequeued

-----------------------------------------------------------------------------
(* Why a task may run without an owner.                                    *)

(* A task's row goes stale under a running task only by a cancel.  Each    *)
(* failed try of a record, and then of the mark that replaces it, is a     *)
(* fault; the worker's slot is given up only after the last of them.       *)
BlameOf(t) ==
    /\ t \in stale /\ state[t] = "Running" => cancel[t]
    /\ sup = "reconciling" /\ state[t] = "Running" /\ t \notin todo =>
          cancel[t] \/ t \in skipped
    /\ sup = "reconciling" /\ In("finish", t) => t \in todo
    /\ pc[t] \in (WorkerPc \ {"done"}) \cup {"off"} => failures[t] = 0
    /\ sup \in {"up", "draining"} /\ ~cancel[t] =>
          /\ state[t] = "Running" /\ pc[t] = "off" =>
                t \in skipped \/ faults > 2 * MaxRecordFailures
          /\ pc[t] \in {"done", "unrecorded"} => faults >= failures[t]
          /\ In("mark", t) /\ pc[t] # "pending" => faults >= MaxRecordFailures
          /\ pc[t] = "pending" => faults > MaxRecordFailures + failures[t]

BlameInv == \A t \in Tasks : BlameOf(t)

(* A cancel of a running task excuses it, and no write takes the excuse    *)
(* away.                                                                   *)
LEMMA BlameUser ==
    ASSUME TypeOK, ReadInv, OwnerInv, BlameInv, NEW t \in Tasks, User(t)
    PROVE  BlameInv'
<1> SUFFICES ASSUME NEW d \in Tasks PROVE BlameOf(d)'
  BY DEF BlameInv
<1>0. BlameOf(d)
  BY DEF BlameInv
<1> USE <1>0 DEF TypeOK, BlameOf, UserWrite, workVars, supVars, rowVars, histVars, In
<1>1. CASE Cancel(t)
  BY <1>1, SMT DEF Cancel
<1>2. CASE Reply(t)
  BY <1>2, SMT DEF Reply, OwnerInv
<1>3. CASE Recall(t)
  BY <1>3, SMT DEF Recall
<1>4. CASE DismissUncertain(t)
  BY <1>4, SMT DEF DismissUncertain, OwnerInv
<1>5. CASE ReconcileUncertain(t)
  BY <1>5, SMT DEF ReconcileUncertain, ReconciledState
<1>6. CASE CloseUnanswered(t)
  BY <1>6, SMT DEF CloseUnanswered
<1>7. CASE RecoverRun(t)
  BY <1>7, SMT DEF RecoverRun
<1> QED
  BY <1>1, <1>2, <1>3, <1>4, <1>5, <1>6, <1>7 DEF User

(* Workers report nothing that was not theirs; a fault of theirs only adds *)
(* to the count.                                                           *)
LEMMA BlameWorker ==
    ASSUME TypeOK, OwnerInv, BlameInv, NEW t \in Tasks, Worker(t) \/ ProviderExits(t)
    PROVE  BlameInv'
<1> SUFFICES ASSUME NEW d \in Tasks PROVE BlameOf(d)'
  BY DEF BlameInv
<1>0. BlameOf(d)
  BY DEF BlameInv
<1> USE <1>0, LimitAssumption DEF TypeOK, BlameOf, WorkerStep, workVars, supVars,
                                  rowVars, histVars, envVars, In, WorkerPc
<1>1. ASSUME NEW from \in WorkerPc \ {"done"}, NEW to \in WorkerPc,
             WorkerStep(t, from, to),
             faults' \in {faults, faults + 1}
      PROVE  BlameOf(d)'
  <2>1. ~In("mark", t)
    BY <1>1 DEF OwnerInv
  <2> QED
    BY <1>1, <2>1, SMT
<1>2. CASE ProviderExits(t)
  BY <1>2, SMT DEF ProviderExits
<1>3. CASE Worker(t)
  <2>1. faults' \in {faults, faults + 1} /\
        \E from \in WorkerPc \ {"done"}, to \in WorkerPc : WorkerStep(t, from, to)
    BY <1>3
    DEF Worker, RefuseInput, AppendInput, RefuseRun, PrepareRun,
        PreparationFails, Spawn, MarkSpawned, Submit, JoinTurn, AbandonTurn,
        Settle, SettleFault
  <2> QED
    BY <1>1, <2>1
<1> QED
  BY <1>2, <1>3

(* A settlement leaves no task running.                                    *)
LEMMA NeverRunning ==
    ASSUME NEW t, NEW c
    PROVE  "Running" \notin FinishState(t, c)
<1>1. "Running" \notin ErrState(t, c)
  BY SMT DEF ErrState
<1>2. "Running" \notin OutcomeState(result[t].class)
  BY SMT DEF OutcomeState
<1>3. "Running" \notin OkState(t, c)
  BY <1>2, SMT DEF OkState
<1> QED
  BY <1>1, <1>3 DEF FinishState

(* A completion is given up only after as many faults as it had tries, and *)
(* so is the mark that replaces it; a conflict is a cancel's.              *)
LEMMA BlameSupervise ==
    ASSUME TypeOK, ReadInv, OwnerInv, BlameInv, NEW t \in Tasks, Supervise(t)
    PROVE  BlameInv'
<1> SUFFICES ASSUME NEW d \in Tasks PROVE BlameOf(d)'
  BY DEF BlameInv
<1>0. BlameOf(d)
  BY DEF BlameInv
<1> USE <1>0, LimitAssumption DEF TypeOK, BlameOf, workVars, supVars, rowVars,
                                  histVars, envVars,
        WorkerPc, In, None, Begin, Current, Forget, Idle, Fault
<1>1. CASE LaunchBegin(t)
  BY <1>1, SMT DEF LaunchBegin
<1>2. CASE Prepare(t)
  <2>1. pc[t] = "off" /\ failures[t] = 0
    BY <1>2, SMT DEF Prepare, ReadInv, OwnerInv, BlameInv
  <2> QED
    BY <1>2, <2>1, SMT DEF Prepare, OwnerInv
<1>3. CASE FailUnstarted(t)
  BY <1>3, SMT DEF FailUnstarted
<1>4. CASE LaunchAbandoned(t) \/ LaunchFault(t)
  BY <1>4, SMT DEF LaunchAbandoned, LaunchFault
<1>5. CASE SignalCancel(t)
  BY <1>5, SMT DEF SignalCancel
<1>6. CASE CancelBegin(t)
  BY <1>6, SMT DEF CancelBegin
<1>7. CASE CancelCommit(t)
  <2>1. pc[t] = "off"
    BY <1>7, SMT DEF CancelCommit, ReadInv, OwnerInv
  <2> QED
    BY <1>7, <2>1, SMT DEF CancelCommit
<1>8. CASE CancelConflict(t)
  BY <1>8, SMT DEF CancelConflict
<1>9. CASE RecordBegin(t)
  BY <1>9, SMT DEF RecordBegin, Serving
<1>10. CASE FinishCommit(t)
  <2>1. state[t] = "Running"
    BY <1>10, SMT DEF FinishCommit, OwnerInv
  <2>2. \E c \in Choice(t) : \E s \in FinishState(t, c) :
           state' = [state EXCEPT ![t] = s]
    BY <1>10, <2>1, SMT DEF FinishCommit, Terminal
  <2>3. state'[t] # "Running" /\ \A u \in Tasks \ {t} : state'[u] = state[u]
    BY <2>2, NeverRunning
  <2>4. UNCHANGED <<cancel, sup, stale, skipped, faults>> /\ Forget(t) /\ op' = Idle
        /\ todo' = todo \ {t}
    BY <1>10 DEF FinishCommit
  <2> QED
    BY <2>1, <2>3, <2>4, SMT
<1>11. ASSUME RecordFailed(t), In("finish", t), UNCHANGED <<state, cancel, sup>>,
              Current(t) => Fault, faults' \in {faults, faults + 1}
       PROVE  BlameOf(d)'
  <2>1. sup # "reconciling" => pc[t] \in {"done", "unrecorded"}
    BY <1>11 DEF OwnerInv
  <2>2. state[t] = "Running"
    BY <1>11 DEF OwnerInv
  <2>3. CASE sup = "reconciling"
    BY <1>11, <2>2, <2>3, SMT DEF RecordFailed
  <2>4. CASE sup # "reconciling" /\ failures[t] + 1 < MaxRecordFailures
    BY <1>11, <2>1, <2>2, <2>4, SMT DEF RecordFailed
  <2>5. CASE sup # "reconciling" /\ ~(failures[t] + 1 < MaxRecordFailures)
    BY <1>11, <2>1, <2>2, <2>5, SMT DEF RecordFailed
  <2> QED
    BY <2>3, <2>4, <2>5
<1>12. CASE FinishConflict(t)
  BY <1>11, <1>12, SMT DEF FinishConflict
<1>13. CASE FinishFault(t)
  BY <1>11, <1>13 DEF FinishFault
<1>14. CASE MarkBegin(t)
  BY <1>14, SMT DEF MarkBegin
<1>15. CASE MarkCommit(t)
  BY <1>15, SMT DEF MarkCommit, Terminal
<1>16. CASE MarkConflict(t)
  BY <1>16, SMT DEF MarkConflict
<1>17. CASE MarkFault(t)
  BY <1>17, SMT DEF MarkFault, OwnerInv
<1>18. CASE ReconcileCommit(t)
  BY <1>18, SMT DEF ReconcileCommit
<1>19. CASE ReconcileSkip(t)
  BY <1>19, SMT DEF ReconcileSkip
<1>20. CASE ReconcileFinish(t)
  BY <1>20, SMT DEF ReconcileFinish
<1> QED
  BY <1>1, <1>2, <1>3, <1>4, <1>5, <1>6, <1>7, <1>8, <1>9, <1>10, <1>12, <1>13,
     <1>14, <1>15, <1>16, <1>17, <1>18, <1>19, <1>20 DEF Supervise

(* Startup leaves only what it skipped or what a cancel excuses.           *)
LEMMA BlameInductive ==
    ASSUME TypeOK, ReadInv, OwnerInv, BlameInv, [Next]_vars
    PROVE  BlameInv'
<1> USE DEF TypeOK, BlameInv, BlameOf, workVars, supVars, rowVars, histVars,
            envVars, In, None, Idle
<1>1. CASE Crash \/ Exit
  BY <1>1, SMT DEF Crash, Exit, Gone
<1>2. CASE Interrupt \/ Drain
  BY <1>2, SMT DEF Interrupt, Drain
<1>3. CASE Start
  BY <1>3, SMT DEF Start, OwnerInv, LeftRunning
<1>4. CASE ReconcileDone
  BY <1>4, SMT DEF ReconcileDone, OwnerInv
<1>5. CASE UNCHANGED vars
  BY <1>5, SMT DEF vars
<1> QED
  BY <1>1, <1>2, <1>3, <1>4, <1>5, BlameUser, BlameWorker, BlameSupervise DEF Next

(* For all constants: while the supervisor serves, a running task has an   *)
(* owner, up to the three named exceptions.                                *)
THEOREM RunningIsOwnedAlways == Spec => []RunningIsOwned
<1>1. Init => BlameInv
  BY SMT DEF Init, BlameInv, BlameOf, In, Idle, None
<1>2. TypeOK /\ ReadInv /\ OwnerInv /\ BlameInv /\ [Next]_vars => BlameInv'
  BY BlameInductive
<1>3. BlameInv => RunningIsOwned
  BY DEF BlameInv, BlameOf, RunningIsOwned
<1> QED
  BY <1>1, <1>2, <1>3, EvidenceInvariant, PTL DEF Spec

-----------------------------------------------------------------------------
(* The budget of prompts.                                                  *)

(* One attempt more pays for MaxRecovery prompts more.                     *)
LEMMA Product ==
    ASSUME NEW a \in Nat, NEW m \in Nat
    PROVE  a * m \in Nat /\ (a + 1) * m = a * m + m
  BY SMT

(* ... so the budget of fewer attempts leaves room for one attempt more.   *)
LEMMA ProductGrows ==
    ASSUME NEW a \in Nat, NEW b \in Nat, NEW m \in Nat, a < b
    PROVE  a * m + m <= b * m
<1> DEFINE k == b - (a + 1)
<1>1. k \in Nat /\ b = (a + 1) + k
  BY SMT
<1>2. ((a + 1) + k) * m = (a + 1) * m + k * m
  BY <1>1, SMT
<1>3. k * m \in Nat
  BY <1>1, Product
<1> HIDE DEF k
<1> QED
  BY <1>1, <1>2, <1>3, Product, SMT

(* Without a PR watch every prompt is paid by an attempt or a retry: those *)
(* counted in the row, and the one the running dispatch has yet to count.  *)
BudgetOf(t) ==
    /\ state[t] \in {"Queued", "Running"} => attempts[t] < MaxAttempts
    /\ state[t] = "Running" => retry[t] < MaxRecovery
    /\ state[t] \in {"Queued", "Running"} =>
          spent[t] <= attempts[t] * MaxRecovery + retry[t]
                      + (IF state[t] = "Running" /\ sent[t] THEN 1 ELSE 0)
    /\ spent[t] <= MaxAttempts * MaxRecovery

BudgetInv == \A t \in Tasks : BudgetOf(t)

(* The numbers of the budget.                                              *)
LEMMA BudgetTypes ==
    ASSUME TypeOK, NEW d \in Tasks
    PROVE  /\ attempts[d] \in Nat /\ retry[d] \in Nat /\ spent[d] \in Nat
           /\ MaxAttempts \in Nat /\ MaxAttempts > 0
           /\ MaxRecovery \in Nat /\ MaxRecovery > 0
           /\ attempts[d] * MaxRecovery \in Nat
           /\ (attempts[d] + 1) * MaxRecovery = attempts[d] * MaxRecovery + MaxRecovery
           /\ 0 * MaxRecovery = 0
           /\ MaxAttempts * MaxRecovery \in Nat
<1>1. attempts[d] \in Nat /\ retry[d] \in Nat /\ spent[d] \in Nat
  BY LimitAssumption, SMT DEF TypeOK
<1>2. MaxAttempts \in Nat /\ MaxRecovery \in Nat /\ MaxRecovery > 0 /\ MaxAttempts > 0
  BY LimitAssumption, SMT
<1>3. 0 * MaxRecovery = 0
  BY <1>2, SMT
<1> QED
  BY <1>1, <1>2, <1>3, Product

(* The user's reply starts a fresh budget; no other write queues a task.   *)
LEMMA BudgetUser ==
    ASSUME TypeOK, BudgetInv, NEW t \in Tasks, User(t)
    PROVE  BudgetInv'
<1> SUFFICES ASSUME NEW d \in Tasks PROVE BudgetOf(d)'
  BY DEF BudgetInv
<1>0. BudgetOf(d)
  BY DEF BudgetInv
<1> USE <1>0, BudgetTypes DEF TypeOK, BudgetOf, UserWrite, workVars, supVars,
                              rowVars, histVars
<1>1. CASE Cancel(t)
  BY <1>1, SMT DEF Cancel
<1>2. CASE Reply(t)
  BY <1>2, SMT DEF Reply
<1>3. CASE Recall(t)
  BY <1>3, SMT DEF Recall
<1>4. CASE DismissUncertain(t)
  BY <1>4, SMT DEF DismissUncertain
<1>5. CASE ReconcileUncertain(t)
  BY <1>5, SMT DEF ReconcileUncertain, ReconciledState
<1>6. CASE CloseUnanswered(t)
  BY <1>6, SMT DEF CloseUnanswered
<1>7. CASE RecoverRun(t)
  BY <1>7, SMT DEF RecoverRun
<1> QED
  BY <1>1, <1>2, <1>3, <1>4, <1>5, <1>6, <1>7 DEF User

(* Only `Submit' spends a prompt, and only of a running task.              *)
LEMMA BudgetWorker ==
    ASSUME TypeOK, OwnerInv, EvidenceInv, BudgetInv, NEW t \in Tasks,
           Worker(t) \/ ProviderExits(t)
    PROVE  BudgetInv'
<1> SUFFICES ASSUME NEW d \in Tasks PROVE BudgetOf(d)'
  BY DEF BudgetInv
<1>0. BudgetOf(d)
  BY DEF BudgetInv
<1> USE DEF TypeOK, WorkerStep, workVars, supVars, rowVars, histVars
<1>1. CASE Submit(t)
  <2>1. /\ spent' = [spent EXCEPT ![t] = @ + 1] /\ sent' = [sent EXCEPT ![t] = TRUE]
        /\ UNCHANGED <<state, attempts, retry>>
        /\ state[t] = "Running" /\ ~sent[t]
    BY <1>1 DEF Submit, OwnerInv, EvidenceInv, EvidenceOf, Unsent
  <2>2. CASE d = t
    <3>1. spent'[d] = spent[d] + 1 /\ sent'[d]
      BY <2>1, <2>2
    <3>2. spent[d] <= attempts[d] * MaxRecovery + retry[d] /\ retry[d] < MaxRecovery
          /\ attempts[d] < MaxAttempts
      BY <1>0, <2>1, <2>2, BudgetTypes, SMT DEF BudgetOf
    <3>3. attempts[d] * MaxRecovery + MaxRecovery <= MaxAttempts * MaxRecovery
      BY <3>2, BudgetTypes, ProductGrows
    <3> QED
      BY <2>1, <2>2, <3>1, <3>2, <3>3, BudgetTypes, SMT DEF BudgetOf
  <2>3. CASE d # t
    BY <1>0, <2>1, <2>3 DEF BudgetOf
  <2> QED
    BY <2>2, <2>3
<1>2. ASSUME UNCHANGED <<rowVars, sent, spent>> PROVE BudgetOf(d)'
  BY <1>0, <1>2 DEF BudgetOf
<1>3. CASE ProviderExits(t)
  BY <1>2, <1>3 DEF ProviderExits
<1>4. CASE Worker(t)
  BY <1>1, <1>2, <1>4
  DEF Worker, RefuseInput, AppendInput, RefuseRun, PrepareRun,
        PreparationFails, Spawn, MarkSpawned, Submit, JoinTurn, AbandonTurn,
        Settle, SettleFault
<1> QED
  BY <1>3, <1>4

(* A settlement that queues a task again counts a retry or an attempt.     *)
LEMMA RequeueCounts ==
    ASSUME TypeOK, ~PrWatch, NEW t \in Tasks, NEW c \in Choice(t),
           "Queued" \in FinishState(t, c), attempts[t] < MaxAttempts
    PROVE  /\ NextAttempts(t, c) < MaxAttempts
           /\ \/ NextAttempts(t, c) = attempts[t] /\ NextRetry(t, c) = retry[t] + 1
              \/ /\ NextAttempts(t, c) = attempts[t] + 1
                 /\ NextRetry(t, c) \in {0, retry[t], retry[t] + 1}
<1> DEFINE Free == \/ UnstartedRetry(t, c) \/ TransientRetry(t, c)
                   \/ FailoverRoute(t, c) /\ NoEffectRefusal(t, c)
<1>1. attempts[t] \in Nat /\ MaxAttempts \in Nat
  BY BudgetTypes
<1>2. CASE Free
  BY <1>1, <1>2 DEF NextAttempts, NextRetry
<1>3. CASE ~Free
  <2>1. NextAttempts(t, c) = attempts[t] + 1
    BY <1>1, <1>3, SMT DEF NextAttempts, AtMost
  <2>2. NextRetry(t, c) \in {0, retry[t], retry[t] + 1}
    BY SMT DEF NextRetry
  <2>3. attempts[t] + 1 < MaxAttempts
    <3>1. CASE result[t].custody = "error"
      BY <1>3, <2>1, <3>1, SMT DEF FinishState, ErrState
    <3>2. CASE result[t].custody # "error"
      <4>1. "Queued" \in OkState(t, c)
        BY <3>2 DEF FinishState
      <4>2. "Queued" \notin OutcomeState(result[t].class)
        BY SMT DEF OutcomeState
      <4>3. \/ FailoverRoute(t, c) \/ StaleModel(t) \/ c.review = "continue" \/ c.go
        BY <1>3, <4>1, <4>2, SMT DEF OkState
      <4>4. c.review = "continue" \/ c.go => MayContinue(t)
        BY SMT DEF Choice, None
      <4> QED
        BY <1>3, <4>3, <4>4 DEF FailoverRoute, StaleModel, MayContinue
    <3> QED
      BY <3>1, <3>2
  <2> QED
    BY <2>1, <2>2, <2>3
<1> QED
  BY <1>2, <1>3

(* A dispatch or a settlement never gives back what was spent.             *)
LEMMA BudgetSupervise ==
    ASSUME TypeOK, ~PrWatch, ReadInv, OwnerInv, EvidenceInv, BudgetInv,
           NEW t \in Tasks, Supervise(t)
    PROVE  BudgetInv'
<1> SUFFICES ASSUME NEW d \in Tasks PROVE BudgetOf(d)'
  BY DEF BudgetInv
<1>0. BudgetOf(d)
  BY DEF BudgetInv
<1> USE <1>0, BudgetTypes DEF TypeOK, BudgetOf, workVars, supVars, rowVars,
                              histVars, In, None,
        Begin, Current, Idle
<1>1. CASE \/ LaunchBegin(t) \/ SignalCancel(t) \/ CancelBegin(t) \/ RecordBegin(t)
           \/ LaunchAbandoned(t) \/ CancelConflict(t) \/ FinishConflict(t) \/ FinishFault(t)
           \/ MarkBegin(t) \/ MarkConflict(t) \/ MarkFault(t) \/ ReconcileSkip(t)
           \/ ReconcileFinish(t)
  <2>1. UNCHANGED <<rowVars, sent, spent>>
    BY <1>1 DEF LaunchBegin, SignalCancel, CancelBegin, RecordBegin, LaunchAbandoned,
       CancelConflict, FinishConflict, FinishFault, MarkBegin, MarkConflict, MarkFault,
       ReconcileSkip, ReconcileFinish
  <2> QED
    BY <2>1
<1>2. CASE Prepare(t)
  <2>1. state[t] = "Queued"
    BY <1>2, SMT DEF Prepare, ReadInv
  <2> QED
    BY <1>2, <2>1, SMT DEF Prepare
<1>3. CASE FailUnstarted(t)
  BY <1>3, SMT DEF FailUnstarted
<1>4. CASE LaunchFault(t)
  <2>1. Current(t) => state[t] = "Queued"
    BY <1>4, SMT DEF LaunchFault, ReadInv
  <2> QED
    BY <1>4, <2>1, SMT DEF LaunchFault, RetryValid
<1>5. CASE CancelCommit(t)
  BY <1>5, SMT DEF CancelCommit
<1>6. CASE MarkCommit(t)
  BY <1>6, SMT DEF MarkCommit, Terminal
<1>7. CASE ReconcileCommit(t)
  <2>1. state[t] = "Running" /\ (DispatchUnstarted(t) => ~sent[t])
    BY <1>7, SMT DEF ReconcileCommit, ReadInv, EvidenceInv, EvidenceOf,
                     DispatchUnstarted
  <2> QED
    BY <1>7, <2>1, SMT DEF ReconcileCommit
<1>8. CASE FinishCommit(t)
  <2>1. state[t] = "Running" /\ state[t] \notin Terminal
    BY <1>8, SMT DEF FinishCommit, OwnerInv, Terminal
  <2>2. PICK c \in Choice(t) :
           /\ \E s \in FinishState(t, c) : state' = [state EXCEPT ![t] = s]
           /\ attempts' = [attempts EXCEPT ![t] = NextAttempts(t, c)]
           /\ retry' = [retry EXCEPT ![t] = NextRetry(t, c)]
    BY <1>8, <2>1, SMT DEF FinishCommit
  <2>3. PICK s \in FinishState(t, c) : state' = [state EXCEPT ![t] = s]
    BY <2>2
  <2>4. UNCHANGED <<sent, spent>>
    BY <1>8 DEF FinishCommit
  <2>5. s # "Running"
    BY <2>3, NeverRunning
  <2>6. CASE d # t
    BY <2>2, <2>3, <2>4, <2>6
  <2>7. CASE d = t /\ s # "Queued"
    BY <2>3, <2>4, <2>5, <2>7
  <2>8. CASE d = t /\ s = "Queued"
    <3>1. attempts[t] < MaxAttempts /\ retry[t] < MaxRecovery
          /\ spent[t] <= attempts[t] * MaxRecovery + retry[t] + 1
      BY <2>1, <2>8, SMT
    <3>2. /\ NextAttempts(t, c) < MaxAttempts
          /\ \/ NextAttempts(t, c) = attempts[t] /\ NextRetry(t, c) = retry[t] + 1
             \/ /\ NextAttempts(t, c) = attempts[t] + 1
                /\ NextRetry(t, c) \in {0, retry[t], retry[t] + 1}
      BY <2>3, <2>8, <3>1, RequeueCounts
    <3>3. state'[d] = "Queued" /\ spent'[d] = spent[t]
          /\ attempts'[d] = NextAttempts(t, c) /\ retry'[d] = NextRetry(t, c)
      BY <2>2, <2>3, <2>4, <2>8
    <3>4. CASE NextAttempts(t, c) = attempts[t] /\ NextRetry(t, c) = retry[t] + 1
      BY <2>8, <3>1, <3>2, <3>3, <3>4, SMT
    <3>5. CASE NextAttempts(t, c) = attempts[t] + 1
               /\ NextRetry(t, c) \in {0, retry[t], retry[t] + 1}
      <4>1. attempts'[d] * MaxRecovery = attempts[t] * MaxRecovery + MaxRecovery
        BY <2>8, <3>3, <3>5
      <4> QED
        BY <2>8, <3>1, <3>2, <3>3, <3>5, <4>1, SMT
    <3> QED
      BY <3>2, <3>4, <3>5
  <2> QED
    BY <2>6, <2>7, <2>8
<1> QED
  BY <1>1, <1>2, <1>3, <1>4, <1>5, <1>6, <1>7, <1>8 DEF Supervise

(* No step spends beyond the budget.                                       *)
LEMMA BudgetInductive ==
    ASSUME TypeOK, ~PrWatch, ReadInv, OwnerInv, EvidenceInv, BudgetInv, [Next]_vars
    PROVE  BudgetInv'
<1>1. ASSUME UNCHANGED <<rowVars, sent, spent>> PROVE BudgetInv'
  BY <1>1 DEF BudgetInv, BudgetOf, rowVars
<1>2. ASSUME \/ Crash \/ Interrupt \/ Drain \/ Exit \/ Start \/ ReconcileDone
             \/ UNCHANGED vars
      PROVE  BudgetInv'
  BY <1>1, <1>2
  DEF Crash, Interrupt, Drain, Exit, Start, ReconcileDone, Gone, vars, histVars
<1> QED
  BY <1>2, BudgetUser, BudgetWorker, BudgetSupervise DEF Next

(* For all constants: user input pays for a bounded number of prompts.     *)
THEOREM PromptsAreBounded == Spec => []TurnBudget
<1>1. CASE PrWatch
  <2>1. TurnBudget
    BY <1>1 DEF TurnBudget
  <2> QED
    BY <2>1, PTL
<1>2. CASE ~PrWatch
  <2>1. Init => BudgetInv
    BY LimitAssumption, Product, SMT DEF Init, BudgetInv, BudgetOf
  <2>2. /\ TypeOK /\ ReadInv /\ OwnerInv /\ EvidenceInv /\ BudgetInv /\ [Next]_vars
        => BudgetInv'
    BY <1>2, BudgetInductive
  <2>3. BudgetInv => TurnBudget
    BY DEF BudgetInv, BudgetOf, TurnBudget
  <2> QED
    BY <2>1, <2>2, <2>3, EvidenceInvariant, PTL DEF Spec
<1> QED
  BY <1>1, <1>2

=============================================================================
