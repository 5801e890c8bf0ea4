-------------------------- MODULE ManagedTask_proofs --------------------------
(***************************************************************************)
(* The life of a managed task, for any number of tasks and any limits: a   *)
(* provider never outlives the run that holds its workspace, no two        *)
(* overlapping workspaces are held at once, and under the revision check   *)
(* no writer revives a task that was stopped or loses a cancel.            *)
(***************************************************************************)
EXTENDS ManagedTask, TLAPS

(* The parts of TypeOK, so that a step names what its action disturbs.     *)
RowTypeOK ==
    /\ state \in [Tasks -> TaskState]
    /\ cancel \in [Tasks -> BOOLEAN]
    /\ attempts \in [Tasks -> 0..MaxAttempts]
    /\ retry \in [Tasks -> 0..MaxRecovery]
    /\ session \in [Tasks -> BOOLEAN]
    /\ appended \in [Tasks -> BOOLEAN]

RunTypeOK == run \in [Tasks -> Run] /\ proc \in [Tasks -> BOOLEAN]

WorkTypeOK ==
    /\ pc \in [Tasks -> Pc]
    /\ result \in [Tasks -> Result]
    /\ failures \in [Tasks -> Nat]
    /\ signal \in [Tasks -> BOOLEAN]

SupTypeOK ==
    /\ sup \in Sup
    /\ op \in [kind : OpKind, at : Tasks \cup {NoTask}, tries : 0..FinishTries]
    /\ stale \subseteq Tasks /\ todo \subseteq Tasks

HistTypeOK ==
    /\ sent \in [Tasks -> BOOLEAN]
    /\ spent \in [Tasks -> Nat]
    /\ wanted \in [Tasks -> BOOLEAN]
    /\ skipped \subseteq Tasks

EnvTypeOK ==
    users \in 0..MaxUsers /\ crashes \in 0..MaxCrashes /\ faults \in 0..MaxFaults

(* TypeOK is the conjunction of its parts, in this state ...               *)
LEMMA TypeParts ==
    TypeOK <=> /\ RowTypeOK /\ RunTypeOK /\ WorkTypeOK /\ SupTypeOK
               /\ HistTypeOK /\ EnvTypeOK
  BY Zenon DEF TypeOK, RowTypeOK, RunTypeOK, WorkTypeOK, SupTypeOK, HistTypeOK, EnvTypeOK

(* ... and for the next state.                                             *)
LEMMA TypePartsNext ==
    TypeOK' <=> /\ RowTypeOK' /\ RunTypeOK' /\ WorkTypeOK' /\ SupTypeOK'
                /\ HistTypeOK' /\ EnvTypeOK'
  BY Zenon DEF TypeOK, RowTypeOK, RunTypeOK, WorkTypeOK, SupTypeOK, HistTypeOK, EnvTypeOK

-----------------------------------------------------------------------------
(* What settlement may write stays within the types of the row.            *)

(* Whatever the completion and the choices, the next state is a state.     *)
LEMMA FinishStateType ==
    ASSUME NEW t, NEW c, NEW s \in FinishState(t, c)
    PROVE  s \in TaskState
<1>1. CASE result[t].custody = "error"
  BY <1>1, SMT DEF FinishState, ErrState, TaskState
<1>2. CASE result[t].custody # "error"
  <2>1. s \in OkState(t, c)
    BY <1>2 DEF FinishState
  <2>2. OutcomeState(result[t].class) \subseteq TaskState
    BY SMT DEF OutcomeState, TaskState
  <2> QED
    BY <2>1, <2>2, SMT DEF OkState, TaskState
<1> QED
  BY <1>1, <1>2

(* Attempts never pass max_attempts: the last one is counted at most once. *)
LEMMA NextAttemptsType ==
    ASSUME RowTypeOK, NEW t \in Tasks, NEW c
    PROVE  NextAttempts(t, c) \in 0..MaxAttempts
  BY LimitAssumption, SMT DEF RowTypeOK, NextAttempts, AtMost

(* A failure is counted only where retry.permits held, so the count stays  *)
(* within MAX_RECOVERY_FAILURES.                                           *)
LEMMA NextRetryType ==
    ASSUME RowTypeOK, NEW t \in Tasks, NEW c \in Choice(t)
    PROVE  NextRetry(t, c) \in 0..MaxRecovery
<1>1. UnstartedRetry(t, c) \/ TransientRetry(t, c) \/ FailoverRoute(t, c) => c.permits
  BY SMT DEF UnstartedRetry, TransientRetry, NoEffectRefusal, FailoverRoute
<1>2. c.permits => retry[t] < MaxRecovery
  BY SMT DEF Choice
<1>3. retry[t] \in 0..MaxRecovery
  BY DEF RowTypeOK
<1> QED
  BY <1>1, <1>2, <1>3, LimitAssumption, SMT DEF NextRetry

(* Flags of a run record may be cleared.                                   *)
LEMMA RunClears ==
    ASSUME NEW r \in Run
    PROVE  [r EXCEPT !.mine = FALSE] \in Run /\ [r EXCEPT !.live = FALSE] \in Run
<1>1. [r EXCEPT !.mine = FALSE] \in Run
  BY Zenon DEF Run
<1>2. [r EXCEPT !.live = FALSE] \in Run
  BY Zenon DEF Run
<1> QED
  BY <1>1, <1>2

(* Dropping a worker's slot keeps the types of the workers.               *)
LEMMA ForgetType ==
    ASSUME WorkTypeOK, NEW t \in Tasks, Forget(t)
    PROVE  WorkTypeOK'
  BY SMT DEF Forget, WorkTypeOK, Pc, Result, NoResult, None

(* So does counting a failed record.                                       *)
LEMMA RecordFailedType ==
    ASSUME WorkTypeOK, NEW t \in Tasks, RecordFailed(t)
    PROVE  WorkTypeOK'
<1>1. CASE sup = "reconciling"
  BY <1>1, ForgetType DEF RecordFailed
<1>2. CASE sup # "reconciling" /\ failures[t] + 1 < MaxRecordFailures
  BY <1>2, SMT DEF RecordFailed, WorkTypeOK, Pc
<1>3. CASE sup # "reconciling" /\ ~(failures[t] + 1 < MaxRecordFailures)
  BY <1>3, SMT DEF RecordFailed, WorkTypeOK
<1> QED
  BY <1>1, <1>2, <1>3

-----------------------------------------------------------------------------
(* Type correctness, one lemma per party.                                  *)

(* Writes of the user and the owner.                                       *)
LEMMA UserType ==
    ASSUME TypeOK, NEW t \in Tasks, User(t)
    PROVE  TypeOK'
<1>1. ASSUME Cancel(t) PROVE TypeOK'
  BY <1>1, LimitAssumption, SMTT(40)
  DEF Cancel, UserWrite, TypeOK, rowVars, workVars, supVars, histVars, envVars
<1>2. ASSUME Reply(t) PROVE TypeOK'
  BY <1>2, LimitAssumption, SMTT(40)
  DEF Reply, UserWrite, TypeOK, TaskState, rowVars, workVars, supVars,
      histVars, envVars
<1>3. ASSUME Recall(t) PROVE TypeOK'
  BY <1>3, LimitAssumption, SMTT(40)
  DEF Recall, UserWrite, TypeOK, TaskState, rowVars, workVars, supVars,
      histVars, envVars
<1>4. ASSUME DismissUncertain(t) PROVE TypeOK'
  BY <1>4, LimitAssumption, SMTT(40)
  DEF DismissUncertain, UserWrite, TypeOK, TaskState, rowVars, workVars,
      supVars, histVars, envVars
<1>5. ASSUME ReconcileUncertain(t) PROVE TypeOK'
  BY <1>5, LimitAssumption, SMTT(40)
  DEF ReconcileUncertain, UserWrite, ReconciledState, TypeOK, TaskState,
      rowVars, workVars, supVars, histVars, envVars
<1>6. ASSUME CloseUnanswered(t) PROVE TypeOK'
  BY <1>6, LimitAssumption, SMTT(40)
  DEF CloseUnanswered, UserWrite, TypeOK, TaskState, rowVars, workVars,
      supVars, histVars, envVars
<1>7. ASSUME RecoverRun(t) PROVE TypeOK'
  BY <1>7, LimitAssumption, SMTT(40)
  DEF RecoverRun, TypeOK, Run, Phase, rowVars, workVars, supVars, histVars,
      envVars
<1> QED
  BY <1>1, <1>2, <1>3, <1>4, <1>5, <1>6, <1>7 DEF User

(* Steps of a worker.                                                      *)
LEMMA WorkerType ==
    ASSUME TypeOK, NEW t \in Tasks, Worker(t)
    PROVE  TypeOK'
<1> RowTypeOK /\ RunTypeOK /\ WorkTypeOK /\ SupTypeOK /\ HistTypeOK /\ EnvTypeOK
  BY TypeParts
<1>1. ASSUME RefuseInput(t) PROVE TypeOK'
  BY <1>1, LimitAssumption, SMTT(40)
  DEF RefuseInput, WorkerStep, Ends, TypeOK, Pc, WorkerPc, Result, ErrorClass,
      rowVars, workVars, supVars, histVars, envVars
<1>2. ASSUME AppendInput(t) PROVE TypeOK'
  BY <1>2, LimitAssumption, SMTT(40)
  DEF AppendInput, WorkerStep, TypeOK, Pc, WorkerPc, rowVars, workVars,
      supVars, histVars, envVars
<1>3. ASSUME RefuseRun(t) PROVE TypeOK'
  BY <1>3, LimitAssumption, SMTT(40)
  DEF RefuseRun, WorkerStep, Ends, TypeOK, Pc, WorkerPc, Result, ErrorClass,
      rowVars, workVars, supVars, histVars, envVars
<1>4. ASSUME PrepareRun(t) PROVE TypeOK'
  BY <1>4, LimitAssumption, SMTT(40)
  DEF PrepareRun, WorkerStep, TypeOK, Pc, WorkerPc, Run, Phase, None, rowVars,
      workVars, supVars, histVars, envVars
<1>5. ASSUME PreparationFails(t) PROVE TypeOK'
  <2>1. RowTypeOK'
    BY <1>5, LimitAssumption, SMTT(40)
    DEF PreparationFails, WorkerStep, Ends, RowTypeOK, TaskState, rowVars,
        workVars, supVars, histVars, envVars
  <2>2. RunTypeOK'
    BY <1>5, LimitAssumption, SMTT(40)
    DEF PreparationFails, WorkerStep, Ends, RunTypeOK, Run, Phase,
        OutcomeClass, None, rowVars, workVars, supVars, histVars, envVars
  <2>3. WorkTypeOK'
    BY <1>5, LimitAssumption, SMTT(40)
    DEF PreparationFails, WorkerStep, Ends, WorkTypeOK, Pc, WorkerPc,
        Result, NoResult, ErrorClass, EndClass, OutcomeClass, UnsentClass,
        None, rowVars, workVars, supVars, histVars, envVars
  <2>4. SupTypeOK'
    BY <1>5, LimitAssumption, SMTT(40)
    DEF PreparationFails, WorkerStep, Ends, SupTypeOK, Sup, OpKind, Idle,
        None, rowVars, workVars, supVars, histVars, envVars
  <2>5. HistTypeOK'
    BY <1>5, LimitAssumption, SMTT(40)
    DEF PreparationFails, WorkerStep, Ends, HistTypeOK, rowVars, workVars,
        supVars, histVars, envVars
  <2>6. EnvTypeOK'
    BY <1>5, LimitAssumption, SMTT(40)
    DEF PreparationFails, WorkerStep, Ends, EnvTypeOK, rowVars, workVars,
        supVars, histVars, envVars
  <2> QED
    BY <2>1, <2>2, <2>3, <2>4, <2>5, <2>6, TypePartsNext
<1>6. ASSUME Spawn(t) PROVE TypeOK'
  BY <1>6, LimitAssumption, SMTT(40)
  DEF Spawn, WorkerStep, TypeOK, Pc, WorkerPc, rowVars, workVars, supVars,
      histVars, envVars
<1>7. ASSUME MarkSpawned(t) PROVE TypeOK'
  BY <1>7, LimitAssumption, SMTT(60)
  DEF MarkSpawned, WorkerStep, TypeOK, Pc, WorkerPc, Run, Phase, rowVars,
      workVars, supVars, histVars, envVars
<1>8. ASSUME Submit(t) PROVE TypeOK'
  BY <1>8, LimitAssumption, SMTT(40)
  DEF Submit, WorkerStep, TypeOK, Pc, WorkerPc, rowVars, workVars, supVars,
      histVars, envVars
<1>9. ASSUME JoinTurn(t) PROVE TypeOK'
  BY <1>9, LimitAssumption, SMTT(40)
  DEF JoinTurn, WorkerStep, Ends, TypeOK, Pc, WorkerPc, Result, EndClass,
      UnsentClass, OutcomeClass, rowVars, workVars, supVars, histVars, envVars
<1>10. ASSUME AbandonTurn(t) PROVE TypeOK'
  <2>1. RowTypeOK'
    BY <1>10, LimitAssumption, SMTT(40)
    DEF AbandonTurn, WorkerStep, Ends, RowTypeOK, TaskState, rowVars,
        workVars, supVars, histVars, envVars
  <2>2. RunTypeOK'
    <3>1. CASE proc' = proc
      BY <1>10, <3>1, SMT DEF AbandonTurn, WorkerStep, RunTypeOK
    <3>2. CASE proc' = [proc EXCEPT ![t] = FALSE]
      BY <1>10, <3>2, SMT DEF AbandonTurn, WorkerStep, RunTypeOK
    <3> QED
      BY <1>10, <3>1, <3>2 DEF AbandonTurn
  <2>3. WorkTypeOK'
    BY <1>10, LimitAssumption, SMTT(40)
    DEF AbandonTurn, WorkerStep, Ends, WorkTypeOK, Pc, WorkerPc, Result,
        NoResult, ErrorClass, EndClass, OutcomeClass, UnsentClass, None,
        rowVars, workVars, supVars, histVars, envVars
  <2>4. SupTypeOK'
    BY <1>10, LimitAssumption, SMTT(40)
    DEF AbandonTurn, WorkerStep, Ends, SupTypeOK, Sup, OpKind, Idle, None,
        rowVars, workVars, supVars, histVars, envVars
  <2>5. HistTypeOK'
    BY <1>10, LimitAssumption, SMTT(40)
    DEF AbandonTurn, WorkerStep, Ends, HistTypeOK, rowVars, workVars,
        supVars, histVars, envVars
  <2>6. EnvTypeOK'
    BY <1>10, LimitAssumption, SMTT(40)
    DEF AbandonTurn, WorkerStep, Ends, EnvTypeOK, rowVars, workVars,
        supVars, histVars, envVars
  <2> QED
    BY <2>1, <2>2, <2>3, <2>4, <2>5, <2>6, TypePartsNext
<1>11. ASSUME Settle(t) PROVE TypeOK'
  <2>1. RowTypeOK'
    BY <1>11, LimitAssumption, SMTT(40)
    DEF Settle, WorkerStep, RowTypeOK, TaskState, rowVars, workVars,
        supVars, histVars, envVars
  <2>2. RunTypeOK'
    BY <1>11, LimitAssumption, SMTT(40)
    DEF Settle, WorkerStep, RunTypeOK, Run, Phase, OutcomeClass, None,
        rowVars, workVars, supVars, histVars, envVars
  <2>3. WorkTypeOK'
    BY <1>11, LimitAssumption, SMTT(40)
    DEF Settle, WorkerStep, WorkTypeOK, Pc, WorkerPc, Result, NoResult,
        ErrorClass, EndClass, OutcomeClass, UnsentClass, None, rowVars,
        workVars, supVars, histVars, envVars
  <2>4. SupTypeOK'
    BY <1>11, LimitAssumption, SMTT(40)
    DEF Settle, WorkerStep, SupTypeOK, Sup, OpKind, Idle, None, rowVars,
        workVars, supVars, histVars, envVars
  <2>5. HistTypeOK'
    BY <1>11, LimitAssumption, SMTT(40)
    DEF Settle, WorkerStep, HistTypeOK, rowVars, workVars, supVars,
        histVars, envVars
  <2>6. EnvTypeOK'
    BY <1>11, LimitAssumption, SMTT(40)
    DEF Settle, WorkerStep, EnvTypeOK, rowVars, workVars, supVars,
        histVars, envVars
  <2> QED
    BY <2>1, <2>2, <2>3, <2>4, <2>5, <2>6, TypePartsNext
<1>12. ASSUME SettleFault(t) PROVE TypeOK'
  <2>1. RowTypeOK'
    BY <1>12, LimitAssumption, SMTT(40)
    DEF SettleFault, WorkerStep, Ends, RowTypeOK, TaskState, rowVars,
        workVars, supVars, histVars, envVars
  <2>2. RunTypeOK'
    BY <1>12, LimitAssumption, SMTT(40)
    DEF SettleFault, WorkerStep, Ends, RunTypeOK, Run, Phase, OutcomeClass,
        None, rowVars, workVars, supVars, histVars, envVars
  <2>3. WorkTypeOK'
    BY <1>12, LimitAssumption, SMTT(40)
    DEF SettleFault, WorkerStep, Ends, WorkTypeOK, Pc, WorkerPc, Result,
        NoResult, ErrorClass, EndClass, OutcomeClass, UnsentClass, None,
        rowVars, workVars, supVars, histVars, envVars
  <2>4. SupTypeOK'
    BY <1>12, LimitAssumption, SMTT(40)
    DEF SettleFault, WorkerStep, Ends, SupTypeOK, Sup, OpKind, Idle, None,
        rowVars, workVars, supVars, histVars, envVars
  <2>5. HistTypeOK'
    BY <1>12, LimitAssumption, SMTT(40)
    DEF SettleFault, WorkerStep, Ends, HistTypeOK, rowVars, workVars,
        supVars, histVars, envVars
  <2>6. EnvTypeOK'
    BY <1>12, LimitAssumption, SMTT(40)
    DEF SettleFault, WorkerStep, Ends, EnvTypeOK, rowVars, workVars,
        supVars, histVars, envVars
  <2> QED
    BY <2>1, <2>2, <2>3, <2>4, <2>5, <2>6, TypePartsNext
<1> QED
  BY <1>1, <1>2, <1>3, <1>4, <1>5, <1>6, <1>7, <1>8, <1>9, <1>10, <1>11, <1>12
  DEF Worker

(* Steps of the supervisor.                                                *)
LEMMA SuperviseType ==
    ASSUME TypeOK, NEW t \in Tasks, Supervise(t)
    PROVE  TypeOK'
<1> RowTypeOK /\ RunTypeOK /\ WorkTypeOK /\ SupTypeOK /\ HistTypeOK /\ EnvTypeOK
  BY TypeParts
<1>1. ASSUME LaunchBegin(t) PROVE TypeOK'
  BY <1>1, LimitAssumption, SMTT(40)
  DEF LaunchBegin, Begin, TypeOK, OpKind, rowVars, workVars, supVars,
      histVars, envVars
<1>2. ASSUME Prepare(t) PROVE TypeOK'
  <2>1. RowTypeOK'
    BY <1>2, LimitAssumption, SMTT(40)
    DEF Prepare, In, RowTypeOK, TaskState, rowVars, workVars, supVars,
        histVars, envVars
  <2>2. RunTypeOK'
    <3>1. run' = [run EXCEPT ![t] = [@ EXCEPT !.mine = FALSE]] /\ proc' = proc
      BY <1>2 DEF Prepare
    <3>2. [run[t] EXCEPT !.mine = FALSE] \in Run
      BY RunClears DEF RunTypeOK
    <3> QED
      BY <3>1, <3>2 DEF RunTypeOK
  <2>3. WorkTypeOK'
    BY <1>2, LimitAssumption, SMTT(40)
    DEF Prepare, In, WorkTypeOK, Pc, WorkerPc, Result, NoResult,
        ErrorClass, EndClass, OutcomeClass, UnsentClass, None, rowVars,
        workVars, supVars, histVars, envVars
  <2>4. SupTypeOK'
    BY <1>2, LimitAssumption, SMTT(40)
    DEF Prepare, In, SupTypeOK, Sup, OpKind, Idle, None, rowVars, workVars,
        supVars, histVars, envVars
  <2>5. HistTypeOK'
    BY <1>2, LimitAssumption, SMTT(40)
    DEF Prepare, In, HistTypeOK, rowVars, workVars, supVars, histVars,
        envVars
  <2>6. EnvTypeOK'
    BY <1>2, LimitAssumption, SMTT(40)
    DEF Prepare, In, EnvTypeOK, rowVars, workVars, supVars, histVars,
        envVars
  <2> QED
    BY <2>1, <2>2, <2>3, <2>4, <2>5, <2>6, TypePartsNext
<1>3. ASSUME FailUnstarted(t) PROVE TypeOK'
  BY <1>3, LimitAssumption, SMTT(40)
  DEF FailUnstarted, In, TypeOK, TaskState, Idle, OpKind, None, rowVars,
      workVars, supVars, histVars, envVars
<1>4. ASSUME LaunchAbandoned(t) PROVE TypeOK'
  BY <1>4, LimitAssumption, SMTT(40)
  DEF LaunchAbandoned, In, TypeOK, Idle, OpKind, None, rowVars, workVars,
      supVars, histVars, envVars
<1>5. ASSUME LaunchFault(t) PROVE TypeOK'
  BY <1>5, LimitAssumption, SMTT(40)
  DEF LaunchFault, In, Fault, RetryValid, TypeOK, Idle, OpKind, None, rowVars,
      workVars, supVars, histVars, envVars
<1>6. ASSUME SignalCancel(t) PROVE TypeOK'
  BY <1>6, LimitAssumption, SMTT(40)
  DEF SignalCancel, TypeOK, rowVars, workVars, supVars, histVars, envVars
<1>7. ASSUME CancelBegin(t) PROVE TypeOK'
  BY <1>7, LimitAssumption, SMTT(40)
  DEF CancelBegin, Begin, TypeOK, OpKind, rowVars, workVars, supVars,
      histVars, envVars
<1>8. ASSUME CancelCommit(t) PROVE TypeOK'
  BY <1>8, LimitAssumption, SMTT(40)
  DEF CancelCommit, In, TypeOK, TaskState, Idle, OpKind, None, rowVars,
      workVars, supVars, histVars, envVars
<1>9. ASSUME CancelConflict(t) PROVE TypeOK'
  BY <1>9, LimitAssumption, SMTT(40)
  DEF CancelConflict, In, TypeOK, Idle, OpKind, None, rowVars, workVars,
      supVars, histVars, envVars
<1>10. ASSUME RecordBegin(t) PROVE TypeOK'
  BY <1>10, LimitAssumption, SMTT(40)
  DEF RecordBegin, Begin, TypeOK, OpKind, rowVars, workVars, supVars,
      histVars, envVars
<1>11. ASSUME FinishCommit(t) PROVE TypeOK'
  <2>1. RowTypeOK'
    <3>1. CASE state[t] \in Terminal
      BY <1>11, <3>1, SMT DEF FinishCommit, RowTypeOK
    <3>2. CASE state[t] \notin Terminal
      <4>1. PICK c \in Choice(t) :
              /\ \E s \in FinishState(t, c) : state' = [state EXCEPT ![t] = s]
              /\ attempts' = [attempts EXCEPT ![t] = NextAttempts(t, c)]
              /\ retry' = [retry EXCEPT ![t] = NextRetry(t, c)]
        BY <1>11, <3>2 DEF FinishCommit
      <4>2. PICK s \in FinishState(t, c) : state' = [state EXCEPT ![t] = s]
        BY <4>1
      <4>3. s \in TaskState
        BY <4>2, FinishStateType
      <4>4. NextAttempts(t, c) \in 0..MaxAttempts
        BY NextAttemptsType
      <4>5. NextRetry(t, c) \in 0..MaxRecovery
        BY NextRetryType
      <4>6. UNCHANGED <<cancel, session, appended>>
        BY <1>11 DEF FinishCommit
      <4> QED
        BY <4>1, <4>2, <4>3, <4>4, <4>5, <4>6 DEF RowTypeOK
    <3> QED
      BY <3>1, <3>2
  <2>2. RunTypeOK'
    BY <1>11, LimitAssumption, SMTT(40)
    DEF FinishCommit, In, Forget, RunTypeOK, Run, Phase, OutcomeClass,
        None, rowVars, workVars, supVars, histVars, envVars
  <2>3. WorkTypeOK'
    BY <1>11, LimitAssumption, SMTT(40)
    DEF FinishCommit, In, Forget, WorkTypeOK, Pc, WorkerPc, Result,
        NoResult, ErrorClass, EndClass, OutcomeClass, UnsentClass, None,
        rowVars, workVars, supVars, histVars, envVars
  <2>4. SupTypeOK'
    BY <1>11, LimitAssumption, SMTT(40)
    DEF FinishCommit, In, Forget, SupTypeOK, Sup, OpKind, Idle, None,
        rowVars, workVars, supVars, histVars, envVars
  <2>5. HistTypeOK'
    BY <1>11, LimitAssumption, SMTT(40)
    DEF FinishCommit, In, Forget, HistTypeOK, rowVars, workVars, supVars,
        histVars, envVars
  <2>6. EnvTypeOK'
    BY <1>11, LimitAssumption, SMTT(40)
    DEF FinishCommit, In, Forget, EnvTypeOK, rowVars, workVars, supVars,
        histVars, envVars
  <2> QED
    BY <2>1, <2>2, <2>3, <2>4, <2>5, <2>6, TypePartsNext
<1>12. ASSUME FinishConflict(t) PROVE TypeOK'
  <2>1. RowTypeOK'
    BY <1>12, LimitAssumption, SMTT(40)
    DEF FinishConflict, In, RecordFailed, Forget, Begin, RowTypeOK,
        TaskState, rowVars, workVars, supVars, histVars, envVars
  <2>2. RunTypeOK'
    BY <1>12, LimitAssumption, SMTT(40)
    DEF FinishConflict, In, RecordFailed, Forget, Begin, RunTypeOK, Run,
        Phase, OutcomeClass, None, rowVars, workVars, supVars, histVars,
        envVars
  <2>3. WorkTypeOK'
    <3>1. RecordFailed(t) \/ UNCHANGED workVars
      BY <1>12 DEF FinishConflict
    <3> QED
      BY <3>1, RecordFailedType DEF WorkTypeOK, workVars
  <2>4. SupTypeOK'
    BY <1>12, LimitAssumption, SMTT(40)
    DEF FinishConflict, In, RecordFailed, Forget, Begin, SupTypeOK, Sup,
        OpKind, Idle, None, rowVars, workVars, supVars, histVars, envVars
  <2>5. HistTypeOK'
    BY <1>12, LimitAssumption, SMTT(40)
    DEF FinishConflict, In, RecordFailed, Forget, Begin, HistTypeOK,
        rowVars, workVars, supVars, histVars, envVars
  <2>6. EnvTypeOK'
    BY <1>12, LimitAssumption, SMTT(40)
    DEF FinishConflict, In, RecordFailed, Forget, Begin, EnvTypeOK,
        rowVars, workVars, supVars, histVars, envVars
  <2> QED
    BY <2>1, <2>2, <2>3, <2>4, <2>5, <2>6, TypePartsNext
<1>13. ASSUME FinishFault(t) PROVE TypeOK'
  <2>1. RowTypeOK'
    BY <1>13, LimitAssumption, SMTT(40)
    DEF FinishFault, In, Fault, RecordFailed, Forget, Begin, RowTypeOK,
        TaskState, rowVars, workVars, supVars, histVars, envVars
  <2>2. RunTypeOK'
    BY <1>13, LimitAssumption, SMTT(40)
    DEF FinishFault, In, Fault, RecordFailed, Forget, Begin, RunTypeOK,
        Run, Phase, OutcomeClass, None, rowVars, workVars, supVars,
        histVars, envVars
  <2>3. WorkTypeOK'
    BY <1>13, RecordFailedType DEF FinishFault
  <2>4. SupTypeOK'
    BY <1>13, LimitAssumption, SMTT(40)
    DEF FinishFault, In, Fault, RecordFailed, Forget, Begin, SupTypeOK,
        Sup, OpKind, Idle, None, rowVars, workVars, supVars, histVars,
        envVars
  <2>5. HistTypeOK'
    BY <1>13, LimitAssumption, SMTT(40)
    DEF FinishFault, In, Fault, RecordFailed, Forget, Begin, HistTypeOK,
        rowVars, workVars, supVars, histVars, envVars
  <2>6. EnvTypeOK'
    BY <1>13, LimitAssumption, SMTT(40)
    DEF FinishFault, In, Fault, RecordFailed, Forget, Begin, EnvTypeOK,
        rowVars, workVars, supVars, histVars, envVars
  <2> QED
    BY <2>1, <2>2, <2>3, <2>4, <2>5, <2>6, TypePartsNext
<1>14. ASSUME MarkBegin(t) PROVE TypeOK'
  BY <1>14, LimitAssumption, SMTT(40)
  DEF MarkBegin, Begin, TypeOK, OpKind, rowVars, workVars, supVars, histVars,
      envVars
<1>15. ASSUME MarkCommit(t) PROVE TypeOK'
  BY <1>15, LimitAssumption, SMTT(40)
  DEF MarkCommit, In, Forget, TypeOK, TaskState, Pc, Result, NoResult, Idle,
      OpKind, None, rowVars, workVars, supVars, histVars, envVars
<1>16. ASSUME MarkConflict(t) PROVE TypeOK'
  BY <1>16, LimitAssumption, SMTT(40)
  DEF MarkConflict, In, Forget, TypeOK, Pc, Result, NoResult, Idle, OpKind,
      None, rowVars, workVars, supVars, histVars, envVars
<1>17. ASSUME MarkFault(t) PROVE TypeOK'
  <2>1. RowTypeOK'
    BY <1>17, LimitAssumption, SMTT(40)
    DEF MarkFault, In, Forget, Fault, RowTypeOK, TaskState, rowVars,
        workVars, supVars, histVars, envVars
  <2>2. RunTypeOK'
    BY <1>17, LimitAssumption, SMTT(40)
    DEF MarkFault, In, Forget, Fault, RunTypeOK, Run, Phase, OutcomeClass,
        None, rowVars, workVars, supVars, histVars, envVars
  <2>3. WorkTypeOK'
    <3>1. CASE pc[t] # "pending" \/ failures[t] + 1 < MaxRecordFailures
      BY <1>17, <3>1, SMT DEF MarkFault, WorkTypeOK, Pc, WorkerPc
    <3>2. CASE ~(pc[t] # "pending" \/ failures[t] + 1 < MaxRecordFailures)
      BY <1>17, <3>2, ForgetType DEF MarkFault
    <3> QED
      BY <3>1, <3>2
  <2>4. SupTypeOK'
    BY <1>17, LimitAssumption, SMTT(40)
    DEF MarkFault, In, Forget, Fault, SupTypeOK, Sup, OpKind, Idle, None,
        rowVars, workVars, supVars, histVars, envVars
  <2>5. HistTypeOK'
    BY <1>17, LimitAssumption, SMTT(40)
    DEF MarkFault, In, Forget, Fault, HistTypeOK, rowVars, workVars,
        supVars, histVars, envVars
  <2>6. EnvTypeOK'
    BY <1>17, LimitAssumption, SMTT(40)
    DEF MarkFault, In, Forget, Fault, EnvTypeOK, rowVars, workVars,
        supVars, histVars, envVars
  <2> QED
    BY <2>1, <2>2, <2>3, <2>4, <2>5, <2>6, TypePartsNext
<1>18. ASSUME ReconcileCommit(t) PROVE TypeOK'
  BY <1>18, LimitAssumption, SMTT(40)
  DEF ReconcileCommit, TypeOK, TaskState, rowVars, workVars, supVars,
      histVars, envVars
<1>19. ASSUME ReconcileSkip(t) PROVE TypeOK'
  BY <1>19, LimitAssumption, SMTT(40)
  DEF ReconcileSkip, Fault, TypeOK, rowVars, workVars, supVars, histVars,
      envVars
<1>20. ASSUME ReconcileFinish(t) PROVE TypeOK'
  BY <1>20, LimitAssumption, SMTT(40)
  DEF ReconcileFinish, Begin, Evidence, TypeOK, OpKind, Result, Run, None,
      rowVars, workVars, supVars, histVars, envVars
<1> QED
  BY <1>1, <1>2, <1>3, <1>4, <1>5, <1>6, <1>7, <1>8, <1>9, <1>10, <1>11, <1>12, <1>13, <1>14, <1>15, <1>16, <1>17, <1>18, <1>19, <1>20
  DEF Supervise

(* The end of a supervisor process.                                        *)
LEMMA GoneType ==
    ASSUME TypeOK, Gone
    PROVE  RowTypeOK' /\ RunTypeOK' /\ WorkTypeOK' /\ SupTypeOK' /\ HistTypeOK'
<1>1. RowTypeOK' /\ HistTypeOK'
  BY SMT DEF Gone, TypeOK, RowTypeOK, HistTypeOK, rowVars, histVars
<1>2. RunTypeOK'
  <2>1. ASSUME NEW t \in Tasks PROVE [run[t] EXCEPT !.live = FALSE] \in Run
    BY RunClears DEF TypeOK
  <2> QED
    BY <2>1 DEF Gone, TypeOK, RunTypeOK
<1>3. WorkTypeOK'
  BY SMT DEF Gone, WorkTypeOK, Pc, Result, NoResult, None
<1>4. SupTypeOK'
  BY LimitAssumption, SMT DEF Gone, SupTypeOK, Sup, Idle, OpKind, None
<1> QED
  BY <1>1, <1>2, <1>3, <1>4

(* The types hold in every reachable state.                                *)
THEOREM TypeCorrect == Spec => []TypeOK
<1>1. Init => TypeOK
  BY LimitAssumption, NoTaskAssumption, SMT
  DEF Init, TypeOK, TaskState, Run, NoRun, Phase, Pc, Result, NoResult, None,
      Sup, OpKind, Idle
<1>2. ASSUME TypeOK, [Next]_vars PROVE TypeOK'
  <2>1. ASSUME Crash PROVE TypeOK'
    <3>1. crashes' \in 0..MaxCrashes /\ UNCHANGED <<users, faults>>
      BY <1>2, <2>1, LimitAssumption, SMT DEF Crash, TypeOK
    <3> QED
      BY <1>2, <2>1, <3>1, GoneType, TypeParts, TypePartsNext DEF Crash, EnvTypeOK
  <2>2. ASSUME Interrupt PROVE TypeOK'
    BY <2>2, LimitAssumption, <1>2, SMTT(40)
    DEF Interrupt, TypeOK, Sup, Active, rowVars, workVars, supVars, histVars,
        envVars
  <2>3. ASSUME Drain PROVE TypeOK'
    BY <2>3, LimitAssumption, <1>2, SMTT(40)
    DEF Drain, TypeOK, Sup, rowVars, workVars, supVars, histVars, envVars
  <2>4. ASSUME Exit PROVE TypeOK'
    BY <1>2, <2>4, GoneType, TypeParts, TypePartsNext DEF Exit, EnvTypeOK, envVars
  <2>5. ASSUME Start PROVE TypeOK'
    BY <2>5, LimitAssumption, <1>2, SMTT(40)
    DEF Start, LeftRunning, TypeOK, Sup, rowVars, workVars, supVars, histVars,
        envVars
  <2>6. ASSUME ReconcileDone PROVE TypeOK'
    <3>1. RunTypeOK'
      <4>1. run \in [Tasks -> Run] /\ proc \in [Tasks -> BOOLEAN] /\ proc' = proc
        BY <1>2, <2>6 DEF ReconcileDone, TypeOK
      <4>2. \A r \in Run : [r EXCEPT !.phase = "settled"] \in Run
        BY SMTT(60) DEF Run, Phase
      <4>3. PICK held : run' = [t \in Tasks |-> IF Recoverable(t) /\ t \notin held
                                               THEN [run[t] EXCEPT !.phase = "settled"]
                                               ELSE run[t]]
        BY <2>6 DEF ReconcileDone
      <4> QED
        BY <4>1, <4>2, <4>3 DEF RunTypeOK
    <3>2. SupTypeOK'
      BY <1>2, <2>6, SMT DEF ReconcileDone, TypeOK, SupTypeOK, Sup
    <3>3. RowTypeOK' /\ WorkTypeOK' /\ HistTypeOK' /\ EnvTypeOK'
      BY <1>2, <2>6, TypeParts, SMT
      DEF ReconcileDone, RowTypeOK, WorkTypeOK, HistTypeOK, EnvTypeOK, rowVars,
          workVars, histVars, envVars
    <3> QED
      BY <3>1, <3>2, <3>3, TypePartsNext
  <2>7. ASSUME NEW t \in Tasks, ProviderExits(t) PROVE TypeOK'
    BY <2>7, <1>2, SMT
    DEF ProviderExits, TypeOK, rowVars, workVars, supVars, histVars,
        envVars
  <2>8. CASE UNCHANGED vars
    BY <2>8, <1>2, SMT
    DEF TypeOK, vars, rowVars, workVars, supVars, histVars, envVars
  <2> QED
    BY <1>2, <2>1, <2>2, <2>3, <2>4, <2>5, <2>6, <2>7, <2>8, UserType, WorkerType,
       SuperviseType DEF Next
<1> QED
  BY <1>1, <1>2, PTL DEF Spec

-------------------------------------------------------------------------------

(* Where a worker holds a live unsettled run.                              *)
Holding == {"prepared", "spawned", "marked", "turn", "joined"}

(* A run stays unsettled as long as its provider may live.  That needs to  *)
(* be known of the places where a worker has no provider yet or no more,   *)
(* and that a worker's own run is live, so that nobody else recovers it.   *)
LeaseInv ==
    \A t \in Tasks :
        /\ proc[t] => Unsettled(t)
        /\ pc[t] \in {"appended", "prepared", "joined"} => ~proc[t]
        /\ pc[t] \in Holding => Unsettled(t) /\ run[t].live

(* The supervisor starts no worker beside an active one of an overlapping  *)
(* workspace, and a worker that found the workspace free keeps it.         *)
ExclusiveInv ==
    /\ op.kind = "launch" =>
          \A u \in Tasks : <<op.at, u>> \in Overlap => ~Active(u)
    /\ \A t, u \in Tasks : <<t, u>> \in Overlap =>
          /\ ~(Active(t) /\ Active(u))
          /\ ~(Unsettled(t) /\ Unsettled(u))
          /\ pc[t] = "appended" => ~Unsettled(u)

-----------------------------------------------------------------------------
(* What the steps of the user and the supervisor leave alone.              *)

(* Of the user's writes only a recovery touches a run.                     *)
LEMMA UserKeeps ==
    ASSUME NEW t \in Tasks, User(t)
    PROVE  RecoverRun(t) \/ UNCHANGED <<run, proc, pc, op>>
<1>1. ASSUME Cancel(t) \/ Reply(t) \/ Recall(t) \/ DismissUncertain(t)
             \/ ReconcileUncertain(t) \/ CloseUnanswered(t)
      PROVE  UNCHANGED <<run, proc, pc, op>>
  <2>1. UserWrite(t) /\ UNCHANGED run
    BY <1>1 DEF Cancel, Reply, Recall, DismissUncertain, ReconcileUncertain,
                CloseUnanswered
  <2> QED
    BY <2>1 DEF UserWrite, workVars
<1> QED
  BY <1>1 DEF User

(* The supervisor gives up slots; only `Prepare' takes one.                *)
Released(t) ==
    /\ UNCHANGED <<run, proc>>
    /\ pc' = pc \/ \E x \in {"off", "unrecorded", "pending"} :
                      pc' = [pc EXCEPT ![t] = x]
    /\ op'.kind = "launch" => op' = op

(* A supervisor's step takes one slot, begins a launch or gives slots up.  *)
LEMMA SuperviseKeeps ==
    ASSUME NEW t \in Tasks, Supervise(t)
    PROVE  Prepare(t) \/ Released(t) \/ (LaunchBegin(t) /\ UNCHANGED <<run, proc, pc>>)
<1>1. ASSUME LaunchBegin(t) PROVE UNCHANGED <<run, proc, pc>>
  BY <1>1 DEF LaunchBegin, workVars
<1>2. ASSUME FailUnstarted(t) \/ LaunchAbandoned(t) \/ LaunchFault(t)
             \/ CancelCommit(t) \/ CancelConflict(t)
      PROVE  Released(t)
  BY <1>2 DEF FailUnstarted, LaunchAbandoned, LaunchFault, CancelCommit,
              CancelConflict, Released, Idle, None, workVars
<1>3. ASSUME SignalCancel(t) \/ ReconcileCommit(t) \/ ReconcileSkip(t)
      PROVE  Released(t)
  BY <1>3 DEF SignalCancel, ReconcileCommit, ReconcileSkip, Released, supVars,
              workVars
<1>4. ASSUME CancelBegin(t) \/ RecordBegin(t) \/ MarkBegin(t) \/ ReconcileFinish(t)
      PROVE  Released(t)
  BY <1>4 DEF CancelBegin, RecordBegin, MarkBegin, ReconcileFinish, Released,
              Begin, workVars
<1>5. ASSUME RecordFailed(t), UNCHANGED <<run, proc>> PROVE Released(t)
  <2>1. CASE sup = "reconciling"
    BY <1>5, <2>1 DEF RecordFailed, Forget, Released, Idle, None
  <2>2. CASE sup # "reconciling" /\ failures[t] + 1 < MaxRecordFailures
    BY <1>5, <2>2 DEF RecordFailed, Released, Idle, None
  <2>3. CASE sup # "reconciling" /\ ~(failures[t] + 1 < MaxRecordFailures)
    BY <1>5, <2>3 DEF RecordFailed, Begin, Released
  <2> QED
    BY <2>1, <2>2, <2>3
<1>6. ASSUME FinishCommit(t) \/ MarkCommit(t) \/ MarkConflict(t)
      PROVE  Released(t)
  BY <1>6 DEF FinishCommit, MarkCommit, MarkConflict, Forget, Released, Idle, None
<1>7. ASSUME FinishConflict(t) PROVE Released(t)
  <2>1. CASE RecordFailed(t)
    BY <1>5, <1>7, <2>1 DEF FinishConflict
  <2>2. CASE UNCHANGED workVars /\ op' = [op EXCEPT !.tries = @ + 1]
    <3>1. op.kind = "finish" /\ op'.kind = op.kind
      BY <1>7, <2>2 DEF FinishConflict, In
    <3> QED
      BY <1>7, <2>2, <3>1 DEF FinishConflict, Released, workVars
  <2> QED
    BY <1>7, <2>1, <2>2 DEF FinishConflict
<1>8. ASSUME FinishFault(t) PROVE Released(t)
  BY <1>5, <1>8 DEF FinishFault
<1>9. ASSUME MarkFault(t) PROVE Released(t)
  BY <1>9 DEF MarkFault, Forget, Released, Idle, None
<1> QED
  BY <1>1, <1>2, <1>3, <1>4, <1>6, <1>7, <1>8, <1>9 DEF Supervise

-----------------------------------------------------------------------------
(* The lease.                                                              *)

(* Nothing that leaves runs, providers and workers alone matters.          *)
LEMMA LeaseKept ==
    ASSUME LeaseInv, UNCHANGED <<run, proc, pc>>
    PROVE  LeaseInv'
  BY DEF LeaseInv, Unsettled

(* Nor does giving up a slot.                                              *)
LEMMA LeaseReleased ==
    ASSUME TypeOK, LeaseInv, NEW t \in Tasks, Released(t)
    PROVE  LeaseInv'
<1>1. ASSUME NEW x \in {"off", "unrecorded", "pending"}, pc' = [pc EXCEPT ![t] = x]
      PROVE  LeaseInv'
  BY <1>1, SMT DEF TypeOK, Released, LeaseInv, Unsettled, Holding
<1> QED
  BY <1>1, LeaseKept DEF Released

(* A worker prepares a run only for a workspace it found free, and settles *)
(* it only once its provider was joined.                                   *)
LEMMA LeaseWorker ==
    ASSUME TypeOK, LeaseInv, NEW t \in Tasks, Worker(t)
    PROVE  LeaseInv'
<1> USE DEF WorkerStep, TypeOK, LeaseInv, Unsettled, Holding
<1>1. ASSUME RefuseInput(t) \/ RefuseRun(t) PROVE LeaseInv'
  BY <1>1, SMT DEF RefuseInput, RefuseRun
<1>2. ASSUME AppendInput(t) PROVE LeaseInv'
  <2>1. ~Unsettled(t)
    BY <1>2 DEF AppendInput, WorkspaceFree
  <2>2. UNCHANGED <<run, proc>> /\ pc' = [pc EXCEPT ![t] = "appended"]
    BY <1>2 DEF AppendInput
  <2> QED
    BY <2>1, <2>2, SMT
<1>3. ASSUME PrepareRun(t) PROVE LeaseInv'
  BY <1>3, SMT DEF PrepareRun
<1>4. ASSUME PreparationFails(t) PROVE LeaseInv'
  BY <1>4, SMT DEF PreparationFails
<1>5. ASSUME Spawn(t) PROVE LeaseInv'
  BY <1>5, SMT DEF Spawn
<1>6. ASSUME MarkSpawned(t) PROVE LeaseInv'
  BY <1>6, SMT DEF MarkSpawned, Run
<1>7. ASSUME Submit(t) PROVE LeaseInv'
  BY <1>7, SMT DEF Submit
<1>8. ASSUME JoinTurn(t) PROVE LeaseInv'
  BY <1>8, SMT DEF JoinTurn
<1>9. ASSUME AbandonTurn(t) PROVE LeaseInv'
  BY <1>9, SMT DEF AbandonTurn
<1>10. ASSUME Settle(t) PROVE LeaseInv'
  BY <1>10, SMT DEF Settle
<1>11. ASSUME SettleFault(t) PROVE LeaseInv'
  BY <1>11, SMT DEF SettleFault
<1> QED
  BY <1>1, <1>2, <1>3, <1>4, <1>5, <1>6, <1>7, <1>8, <1>9, <1>10, <1>11 DEF Worker

(* Recovery settles runs whose owner and provider are both gone.           *)
LEMMA LeaseInductive ==
    ASSUME TypeOK, LeaseInv, [Next]_vars
    PROVE  LeaseInv'
<1>1. ASSUME NEW t \in Tasks, RecoverRun(t) PROVE LeaseInv'
  BY <1>1, SMT
  DEF RecoverRun, Recoverable, TypeOK, LeaseInv, Unsettled, Holding, workVars
<1>2. ASSUME NEW t \in Tasks, User(t) PROVE LeaseInv'
  BY <1>1, <1>2, UserKeeps, LeaseKept
<1>3. ASSUME NEW t \in Tasks, ProviderExits(t) PROVE LeaseInv'
  BY <1>3, SMT DEF ProviderExits, TypeOK, LeaseInv, Unsettled, workVars
<1>4. ASSUME NEW t \in Tasks, Prepare(t) PROVE LeaseInv'
  BY <1>4, SMT DEF Prepare, TypeOK, LeaseInv, Unsettled, Holding, Run
<1>5. ASSUME NEW t \in Tasks, Supervise(t) PROVE LeaseInv'
  BY <1>4, <1>5, SuperviseKeeps, LeaseReleased, LeaseKept
<1>6. ASSUME Crash \/ Exit PROVE LeaseInv'
  <2>1. Gone
    BY <1>6 DEF Crash, Exit
  <2> QED
    BY <2>1, SMT DEF Gone, TypeOK, LeaseInv, Unsettled, Holding, Run
<1>7. ASSUME Interrupt \/ Drain \/ Start PROVE LeaseInv'
  BY <1>7, LeaseKept DEF Interrupt, Drain, Start, workVars
<1>8. ASSUME ReconcileDone PROVE LeaseInv'
  BY <1>8, SMT
  DEF ReconcileDone, Recoverable, TypeOK, LeaseInv, Unsettled, Holding, workVars
<1>9. CASE UNCHANGED vars
  BY <1>9, LeaseKept DEF vars, workVars
<1> QED
  BY <1>2, <1>3, <1>5, <1>6, <1>7, <1>8, <1>9, LeaseWorker DEF Next

(* For all constants: a provider process never outlives the run that holds *)
(* its account and workspace.                                              *)
THEOREM LeaseHolds == Spec => []LeaseCoversProvider
<1>1. Init => LeaseInv
  BY SMT DEF Init, LeaseInv, Holding
<1>2. TypeOK /\ LeaseInv /\ [Next]_vars => LeaseInv'
  BY LeaseInductive
<1>3. LeaseInv => LeaseCoversProvider
  BY DEF LeaseInv, LeaseCoversProvider
<1> QED
  BY <1>1, <1>2, <1>3, TypeCorrect, PTL DEF Spec

-----------------------------------------------------------------------------
(* Exclusive workspaces.                                                   *)

(* Leaving runs, workers and launches alone does so too.                   *)
LEMMA ExclusiveKept ==
    ASSUME ExclusiveInv, UNCHANGED <<run, pc>>, op'.kind = "launch" => op' = op
    PROVE  ExclusiveInv'
  BY DEF ExclusiveInv, Active, Unsettled

(* Giving up a slot keeps overlapping workspaces apart.                    *)
LEMMA ExclusiveReleased ==
    ASSUME TypeOK, ExclusiveInv, NEW t \in Tasks, Released(t)
    PROVE  ExclusiveInv'
<1>1. ASSUME NEW x \in {"off", "unrecorded", "pending"}, pc' = [pc EXCEPT ![t] = x]
      PROVE  ExclusiveInv'
  <2>1. \A u \in Tasks : /\ Active(u)' => Active(u)
                         /\ Unsettled(u)' <=> Unsettled(u)
                         /\ pc'[u] = "appended" => pc[u] = "appended"
    BY <1>1, SMT DEF TypeOK, Released, Active, WorkerPc, Unsettled
  <2> QED
    BY <2>1 DEF ExclusiveInv, Released
<1> QED
  BY <1>1, ExclusiveKept DEF Released

(* A worker of an idle workspace finds all overlapping ones idle too, and  *)
(* no other can start beside it before its run is prepared.                *)
LEMMA ExclusiveWorker ==
    ASSUME TypeOK, LeaseInv, ExclusiveInv, NEW t \in Tasks, Worker(t)
    PROVE  ExclusiveInv'
<1>1. op' = op /\ \A u \in Tasks : Active(u)' <=> Active(u)
  <2>1. \E from, to \in WorkerPc : WorkerStep(t, from, to)
    BY DEF Worker, WorkerPc, RefuseInput, AppendInput, RefuseRun, PrepareRun,
           PreparationFails, Spawn, MarkSpawned, Submit, JoinTurn, AbandonTurn,
           Settle, SettleFault
  <2> QED
    BY <2>1, SMT DEF WorkerStep, TypeOK, Active, supVars
<1>2. ASSUME AppendInput(t) PROVE ExclusiveInv'
  <2>1. \A u \in Tasks : <<t, u>> \in Overlap => ~Unsettled(u)
    BY <1>2 DEF AppendInput, WorkspaceFree
  <2>2. UNCHANGED run /\ pc' = [pc EXCEPT ![t] = "appended"]
    BY <1>2 DEF AppendInput, WorkerStep
  <2>3. \A u \in Tasks : Unsettled(u)' <=> Unsettled(u)
    BY <2>2 DEF Unsettled
  <2>4. \A u \in Tasks \ {t} : pc'[u] = pc[u]
    BY <2>2 DEF TypeOK
  <2> QED
    BY <1>1, <2>1, <2>3, <2>4 DEF ExclusiveInv
<1>3. ASSUME PrepareRun(t) PROVE ExclusiveInv'
  <2>1. pc[t] = "appended" /\ pc' = [pc EXCEPT ![t] = "prepared"]
    BY <1>3 DEF PrepareRun, WorkerStep
  <2>2. \A u \in Tasks : <<t, u>> \in Overlap =>
           ~Unsettled(u) /\ ~Active(u) /\ <<u, t>> \in Overlap
    BY <2>1, OverlapAssumption, SMT DEF ExclusiveInv, Active, WorkerPc
  <2>3. \A u \in Tasks : <<u, t>> \in Overlap => <<t, u>> \in Overlap /\ u # t
    BY OverlapAssumption, SMT
  <2>4. \A u \in Tasks \ {t} : pc'[u] = pc[u] /\ (Unsettled(u)' <=> Unsettled(u))
    BY <1>3, <2>1 DEF TypeOK, PrepareRun, Unsettled
  <2>5. pc'[t] = "prepared"
    BY <2>1 DEF TypeOK
  <2>6. \A u \in Tasks : pc[u] = "appended" => Active(u)
    BY DEF Active, WorkerPc
  <2> QED
    BY <1>1, <2>2, <2>3, <2>4, <2>5, <2>6 DEF ExclusiveInv
<1>4. ASSUME \/ RefuseInput(t) \/ RefuseRun(t) \/ PreparationFails(t) \/ Spawn(t)
             \/ MarkSpawned(t) \/ Submit(t) \/ JoinTurn(t) \/ AbandonTurn(t)
             \/ Settle(t) \/ SettleFault(t)
      PROVE  ExclusiveInv'
  <2>1. \A u \in Tasks : Unsettled(u)' => Unsettled(u)
    BY <1>4, SMT
    DEF TypeOK, LeaseInv, Holding, Unsettled, WorkerStep, RefuseInput, RefuseRun,
        PreparationFails, Spawn, MarkSpawned, Submit, JoinTurn, AbandonTurn,
        Settle, SettleFault
  <2>2. \A u \in Tasks : pc'[u] = "appended" => pc[u] = "appended"
    BY <1>4, SMT
    DEF TypeOK, WorkerStep, RefuseInput, RefuseRun, PreparationFails, Spawn,
        MarkSpawned, Submit, JoinTurn, AbandonTurn, Settle, SettleFault
  <2> QED
    BY <1>1, <2>1, <2>2 DEF ExclusiveInv
<1> QED
  BY <1>2, <1>3, <1>4 DEF Worker

(* Every step keeps overlapping workspaces apart.                          *)
LEMMA ExclusiveInductive ==
    ASSUME TypeOK, LeaseInv, ExclusiveInv, [Next]_vars
    PROVE  ExclusiveInv'
<1>1. ASSUME UNCHANGED <<pc, op>>, \A u \in Tasks : Unsettled(u)' => Unsettled(u)
      PROVE  ExclusiveInv'
  BY <1>1 DEF ExclusiveInv, Active
<1>2. ASSUME NEW t \in Tasks, User(t) PROVE ExclusiveInv'
  <2>1. CASE RecoverRun(t)
    <3>1. \A u \in Tasks : Unsettled(u)' => Unsettled(u)
      BY <2>1, SMT DEF RecoverRun, TypeOK, Unsettled
    <3> QED
      BY <1>1, <2>1, <3>1 DEF RecoverRun, workVars, supVars
  <2> QED
    BY <1>2, <2>1, UserKeeps, ExclusiveKept
<1>3. ASSUME NEW t \in Tasks, ProviderExits(t) PROVE ExclusiveInv'
  BY <1>3, ExclusiveKept DEF ProviderExits, workVars, supVars
<1>4. ASSUME NEW t \in Tasks, LaunchBegin(t) PROVE ExclusiveInv'
  <2>1. UNCHANGED <<run, pc>> /\ op'.at = t
    BY <1>4 DEF LaunchBegin, Begin, workVars
  <2>2. \A u \in Tasks : <<t, u>> \in Overlap => ~Active(u)
    BY <1>4 DEF LaunchBegin
  <2> QED
    BY <2>1, <2>2 DEF ExclusiveInv, Active, Unsettled
<1>5. ASSUME NEW t \in Tasks, Prepare(t) PROVE ExclusiveInv'
  <2>1. \A u \in Tasks : <<t, u>> \in Overlap => ~Active(u)
    BY <1>5 DEF Prepare, In, ExclusiveInv
  <2>2. \A u \in Tasks : <<u, t>> \in Overlap => <<t, u>> \in Overlap /\ u # t
    BY OverlapAssumption, SMT
  <2>3. op'.kind # "launch" /\ pc' = [pc EXCEPT ![t] = "starting"]
    BY <1>5 DEF Prepare, Idle, None
  <2>4. \A u \in Tasks : Unsettled(u)' <=> Unsettled(u)
    BY <1>5, SMT DEF Prepare, TypeOK, Run, Unsettled
  <2>5. pc'[t] = "starting" /\ \A u \in Tasks \ {t} : pc'[u] = pc[u]
    BY <2>3 DEF TypeOK
  <2> QED
    BY <2>1, <2>2, <2>3, <2>4, <2>5 DEF ExclusiveInv, Active
<1>6. ASSUME NEW t \in Tasks, Supervise(t) PROVE ExclusiveInv'
  BY <1>4, <1>5, <1>6, SuperviseKeeps, ExclusiveReleased
<1>7. ASSUME Crash \/ Exit PROVE ExclusiveInv'
  <2>1. Gone
    BY <1>7 DEF Crash, Exit
  <2>2. op'.kind # "launch" /\ \A u \in Tasks : pc'[u] = "off"
    BY <2>1 DEF Gone, Idle, None
  <2>3. \A u \in Tasks : Unsettled(u)' <=> Unsettled(u)
    BY <2>1, SMT DEF Gone, TypeOK, Run, Unsettled
  <2> QED
    BY <2>2, <2>3 DEF ExclusiveInv, Active, WorkerPc
<1>8. ASSUME Interrupt \/ Drain \/ Start PROVE ExclusiveInv'
  BY <1>8, ExclusiveKept DEF Interrupt, Drain, Start, workVars
<1>9. ASSUME ReconcileDone PROVE ExclusiveInv'
  <2>1. \A u \in Tasks : Unsettled(u)' => Unsettled(u)
    BY <1>9, SMT DEF ReconcileDone, Recoverable, TypeOK, Unsettled
  <2> QED
    BY <1>1, <1>9, <2>1 DEF ReconcileDone, workVars
<1>10. CASE UNCHANGED vars
  BY <1>10, ExclusiveKept DEF vars, workVars, supVars
<1> QED
  BY <1>2, <1>3, <1>6, <1>7, <1>8, <1>9, <1>10, ExclusiveWorker DEF Next

(* For all constants: no two providers ever write overlapping workspaces.  *)
THEOREM ExclusiveHolds == Spec => []WorkspaceExclusive
<1>1. Init => LeaseInv /\ ExclusiveInv
  BY SMT DEF Init, LeaseInv, Holding, ExclusiveInv, Idle, None, NoRun, Active,
             WorkerPc, Unsettled
<1>2. TypeOK /\ LeaseInv /\ ExclusiveInv /\ [Next]_vars => (LeaseInv /\ ExclusiveInv)'
  BY LeaseInductive, ExclusiveInductive
<1>3. LeaseInv /\ ExclusiveInv => WorkspaceExclusive
  BY OverlapAssumption DEF LeaseInv, ExclusiveInv, WorkspaceExclusive
<1> QED
  BY <1>1, <1>2, <1>3, TypeCorrect, PTL DEF Spec

-----------------------------------------------------------------------------
(* The row discipline.                                                     *)

(* What the supervisor knows of the row it has read: unless another writer *)
(* came in between, the row still is as the operation needs it.            *)
ReadInv ==
    /\ sup = "down" => op.kind = None
    /\ op.kind # None => op.at \in Tasks
    /\ op.kind = "launch" /\ op.at \notin stale =>
          state[op.at] = "Queued" /\ ~cancel[op.at]
    /\ op.kind = "cancel" /\ op.at \notin stale =>
          state[op.at] \in {"Queued", "NeedsInput"}
    /\ op.kind \in {"launch", "cancel", "mark"} => todo = {}
    /\ todo # {} => sup = "reconciling"
    /\ \A t \in todo : state[t] = "Running"

(* A requested cancel stands until the user withdraws it or the task is    *)
(* stopped.                                                                *)
CancelInv ==
    \A t \in Tasks : wanted[t] => cancel[t] \/ state[t] \in {"Cancelled", "Failed"}

(* One step keeps a stopped task stopped.                                  *)
KeepsStopped ==
    \A t \in Tasks : state[t] \in {"Cancelled", "Failed"} => state'[t] = state[t]

(* What each step has to show.                                             *)
RowStep == ReadInv' /\ CancelInv' /\ KeepsStopped

-----------------------------------------------------------------------------

(* Steps that neither write a row nor read one.                            *)
LEMMA RowKept ==
    ASSUME ReadInv, CancelInv, UNCHANGED <<rowVars, supVars, wanted>>
    PROVE  RowStep
  BY DEF ReadInv, CancelInv, KeepsStopped, RowStep, rowVars, supVars

(* Giving up an operation, whatever else the step does to slots.           *)
LEMMA RowIdle ==
    ASSUME ReadInv, CancelInv, UNCHANGED <<state, cancel, sup, wanted>>,
           op' = Idle, todo' \subseteq todo
    PROVE  RowStep
  BY DEF ReadInv, CancelInv, KeepsStopped, RowStep, Idle, None

(* Beginning an operation that reads its row afresh.                       *)
LEMMA RowBegin ==
    ASSUME ReadInv, CancelInv, UNCHANGED <<rowVars, sup, wanted, todo>>,
           NEW t \in Tasks, sup # "down",
           NEW kind \in {"finish", "mark"}, Begin(kind, t),
           kind = "mark" => todo = {}
    PROVE  RowStep
<1>1. op'.kind = kind /\ op'.at = t
  BY DEF Begin
<1>2. ReadInv'
  BY <1>1 DEF ReadInv, rowVars, None
<1>3. CancelInv' /\ KeepsStopped
  BY DEF CancelInv, KeepsStopped, rowVars
<1> QED
  BY <1>2, <1>3 DEF RowStep

(* The user's writes.                                                      *)
LEMMA UserRows ==
    ASSUME TypeOK, ReadInv, CancelInv, NEW t \in Tasks, User(t)
    PROVE  RowStep
<1>1. CASE RecoverRun(t)
  BY <1>1, RowKept DEF RecoverRun, histVars
<1>2. ASSUME UserWrite(t),
             \A u \in Tasks \ {t} : /\ state'[u] = state[u] /\ cancel'[u] = cancel[u]
                                    /\ wanted'[u] = wanted[u],
             state[t] = "Running" => state'[t] = "Running",
             state[t] \in {"Cancelled", "Failed"} => state'[t] = state[t],
             wanted'[t] => cancel'[t] \/ state'[t] \in {"Cancelled", "Failed"}
      PROVE  RowStep
  <2>1. UNCHANGED <<sup, op, todo>> /\ stale \subseteq stale'
        /\ (op.at = t => t \in stale')
    BY <1>2 DEF UserWrite
  <2>2. ReadInv'
    <3>1. op.at \in Tasks /\ op.at \notin stale' =>
             op.at \notin stale /\ state'[op.at] = state[op.at] /\ cancel'[op.at] = cancel[op.at]
      BY <1>2, <2>1
    <3>2. \A u \in todo : state'[u] = "Running"
      BY <1>2 DEF ReadInv, TypeOK
    <3>3. op.kind \in {"launch", "cancel"} => op.at \in Tasks
      BY DEF ReadInv, None
    <3> QED
      BY <2>1, <3>1, <3>2, <3>3 DEF ReadInv
  <2>3. CancelInv'
    BY <1>2 DEF CancelInv
  <2>4. KeepsStopped
    BY <1>2 DEF KeepsStopped
  <2> QED
    BY <2>2, <2>3, <2>4 DEF RowStep
<1>3. CASE Cancel(t)
  BY <1>2, <1>3 DEF Cancel, TypeOK
<1>4. CASE Reply(t)
  BY <1>2, <1>4 DEF Reply, TypeOK
<1>5. CASE Recall(t)
  BY <1>2, <1>5 DEF Recall, TypeOK
<1>6. CASE DismissUncertain(t)
  BY <1>2, <1>6 DEF DismissUncertain, TypeOK
<1>7. CASE ReconcileUncertain(t)
  BY <1>2, <1>7 DEF ReconcileUncertain, CancelInv, TypeOK
<1>8. CASE CloseUnanswered(t)
  BY <1>2, <1>8 DEF CloseUnanswered, TypeOK
<1> QED
  BY <1>1, <1>3, <1>4, <1>5, <1>6, <1>7, <1>8 DEF User

(* The workers write no row.                                               *)
LEMMA WorkerRows ==
    ASSUME ReadInv, CancelInv, NEW t \in Tasks, Worker(t) \/ ProviderExits(t)
    PROVE  RowStep
<1>1. CASE Worker(t)
  <2>1. \E from, to \in WorkerPc : WorkerStep(t, from, to)
    BY <1>1
    DEF Worker, WorkerPc, RefuseInput, AppendInput, RefuseRun, PrepareRun,
        PreparationFails, Spawn, MarkSpawned, Submit, JoinTurn, AbandonTurn,
        Settle, SettleFault
  <2> QED
    BY <2>1, RowKept DEF WorkerStep
<1>2. CASE ProviderExits(t)
  BY <1>2, RowKept DEF ProviderExits, histVars
<1> QED
  BY <1>1, <1>2

(* A write of the supervisor to one row, which ends the operation.         *)
LEMMA RowWrite ==
    ASSUME TypeOK, ReadInv, CancelInv, NEW t \in Tasks,
           UNCHANGED <<sup, wanted>>, op' = Idle, todo' \subseteq todo \ {t},
           \A u \in Tasks \ {t} : state'[u] = state[u] /\ cancel'[u] = cancel[u],
           state[t] \in {"Cancelled", "Failed"} => state'[t] = state[t],
           wanted[t] => cancel'[t] \/ state'[t] \in {"Cancelled", "Failed"}
    PROVE  RowStep
<1>1. ReadInv'
  BY DEF ReadInv, TypeOK, Idle, None
<1>2. CancelInv' /\ KeepsStopped
  BY DEF CancelInv, KeepsStopped
<1> QED
  BY <1>1, <1>2 DEF RowStep

(* The writes of a launch or cancellation: the row is as it was read.      *)
LEMMA LaunchRows ==
    ASSUME TypeOK, ReadInv, CancelInv, NEW t \in Tasks,
           Prepare(t) \/ FailUnstarted(t) \/ CancelCommit(t)
    PROVE  RowStep
<1>1. todo = {} /\ t \notin stale
  BY DEF Prepare, FailUnstarted, CancelCommit, In, Current, ReadInv
<1>2. CASE Prepare(t)
  <2>1. state[t] = "Queued" /\ ~cancel[t]
    BY <1>1, <1>2 DEF Prepare, In, ReadInv
  <2>2. ~wanted[t]
    BY <2>1 DEF CancelInv
  <2> QED
    BY <1>1, <1>2, <2>1, <2>2, RowWrite DEF Prepare, TypeOK
<1>3. CASE FailUnstarted(t)
  <2>1. state[t] = "Queued"
    BY <1>1, <1>3 DEF FailUnstarted, In, ReadInv
  <2> QED
    BY <1>1, <1>3, <2>1, RowWrite DEF FailUnstarted, TypeOK, histVars
<1>4. CASE CancelCommit(t)
  <2>1. state[t] \in {"Queued", "NeedsInput"}
    BY <1>1, <1>4 DEF CancelCommit, In, ReadInv
  <2> QED
    BY <1>1, <1>4, <2>1, RowWrite DEF CancelCommit, TypeOK, histVars
<1> QED
  BY <1>2, <1>3, <1>4

(* The writes of a settlement.                                             *)
LEMMA SettleRows ==
    ASSUME TypeOK, ReadInv, CancelInv, NEW t \in Tasks,
           FinishCommit(t) \/ MarkCommit(t) \/ ReconcileCommit(t)
    PROVE  RowStep
<1>1. UNCHANGED <<sup, cancel, wanted>>
  BY DEF FinishCommit, MarkCommit, ReconcileCommit, histVars
<1>2. wanted[t] => cancel[t] \/ state[t] \in {"Cancelled", "Failed"}
  BY DEF CancelInv
<1>3. CASE FinishCommit(t)
  <2>1. op' = Idle /\ todo' = todo \ {t}
    BY <1>3 DEF FinishCommit
  <2>2. CASE state[t] \in Terminal
    BY <1>1, <1>2, <1>3, <2>1, <2>2, RowWrite DEF FinishCommit
  <2>3. CASE state[t] \notin Terminal
    <3>1. \A u \in Tasks \ {t} : state'[u] = state[u]
      BY <1>3, <2>3 DEF FinishCommit, TypeOK
    <3> QED
      BY <1>1, <1>2, <2>1, <2>3, <3>1, RowWrite DEF Terminal
  <2> QED
    BY <2>2, <2>3
<1>4. CASE MarkCommit(t)
  <2>1. state' = [state EXCEPT ![t] = IF @ \in Terminal THEN @ ELSE "Uncertain"]
        /\ op' = Idle /\ todo' = todo /\ op.kind = "mark" /\ op.at = t
    BY <1>4 DEF MarkCommit, In
  <2>2. \A u \in Tasks \ {t} : state'[u] = state[u]
    BY <2>1 DEF TypeOK
  <2>3. state[t] \in Terminal => state'[t] = state[t]
    BY <2>1 DEF TypeOK
  <2>4. t \notin todo
    BY <2>1 DEF ReadInv
  <2> QED
    BY <1>1, <1>2, <2>1, <2>2, <2>3, <2>4, RowWrite DEF Terminal
<1>5. CASE ReconcileCommit(t)
  <2>1. state[t] = "Running"
    BY <1>5 DEF ReconcileCommit, ReadInv
  <2>2. op' = Idle /\ todo' = todo \ {t}
    BY <1>5 DEF ReconcileCommit
  <2>3. \A u \in Tasks \ {t} : state'[u] = state[u]
    BY <1>5 DEF ReconcileCommit, TypeOK
  <2> QED
    BY <1>1, <1>2, <2>1, <2>2, <2>3, RowWrite
<1> QED
  BY <1>3, <1>4, <1>5

(* The other operations of the supervisor write no state.                  *)
LEMMA SuperviseRows ==
    ASSUME TypeOK, ReadInv, CancelInv, NEW t \in Tasks, Supervise(t)
    PROVE  RowStep
<1>1. ASSUME LaunchBegin(t) \/ CancelBegin(t) PROVE RowStep
  <2>1. /\ todo = {} /\ sup # "down" /\ op'.at = t
        /\ UNCHANGED <<rowVars, sup, todo, wanted>>
    BY <1>1 DEF LaunchBegin, CancelBegin, Begin, ReadInv, histVars
  <2>2. \/ op'.kind = "launch" /\ state[t] = "Queued" /\ ~cancel[t]
        \/ op'.kind = "cancel" /\ state[t] \in {"Queued", "NeedsInput"}
    BY <1>1 DEF LaunchBegin, CancelBegin, Cancellable, Begin
  <2> QED
    BY <2>1, <2>2 DEF ReadInv, CancelInv, KeepsStopped, RowStep, rowVars, None
<1>2. ASSUME LaunchAbandoned(t) \/ LaunchFault(t) \/ CancelConflict(t)
             \/ MarkConflict(t) \/ MarkFault(t)
      PROVE  RowStep
  BY <1>2, RowIdle DEF LaunchAbandoned, LaunchFault, CancelConflict,
                       MarkConflict, MarkFault, rowVars, histVars
<1>3. CASE SignalCancel(t)
  BY <1>3, RowKept DEF SignalCancel, histVars
<1>4. CASE RecordBegin(t)
  BY <1>4, RowBegin DEF RecordBegin, Serving, histVars
<1>5. CASE MarkBegin(t)
  <2>1. todo = {} /\ sup # "down"
    BY <1>5 DEF MarkBegin, ReadInv
  <2> QED
    BY <1>5, <2>1, RowBegin DEF MarkBegin, histVars
<1>6. CASE ReconcileFinish(t)
  BY <1>6, RowBegin DEF ReconcileFinish, histVars
<1>7. ASSUME RecordFailed(t), UNCHANGED <<rowVars, sup, wanted>>, op.kind = "finish"
      PROVE  RowStep
  <2>1. CASE sup = "reconciling"
    BY <1>7, <2>1, RowIdle DEF RecordFailed, rowVars
  <2>2. CASE sup # "reconciling" /\ failures[t] + 1 < MaxRecordFailures
    BY <1>7, <2>2, RowIdle DEF RecordFailed, rowVars
  <2>3. CASE sup # "reconciling" /\ ~(failures[t] + 1 < MaxRecordFailures)
    <3>1. todo = {} /\ sup # "down"
      BY <1>7, <2>3 DEF ReadInv, None
    <3> QED
      BY <1>7, <2>3, <3>1, RowBegin DEF RecordFailed
  <2> QED
    BY <2>1, <2>2, <2>3
<1>8. CASE FinishConflict(t)
  <2>1. CASE RecordFailed(t)
    BY <1>7, <1>8, <2>1 DEF FinishConflict, In
  <2>2. CASE UNCHANGED workVars /\ op' = [op EXCEPT !.tries = @ + 1] /\ todo' = todo
    <3>1. op.kind = "finish" /\ op.at = t
      BY <1>8 DEF FinishConflict, In
    <3>2. op'.kind = "finish" /\ op'.at = t
      BY <2>2, <3>1, SMT DEF TypeOK
    <3> QED
      BY <1>8, <2>2, <3>1, <3>2
      DEF FinishConflict, ReadInv, CancelInv, KeepsStopped, RowStep, rowVars, None
  <2> QED
    BY <1>8, <2>1, <2>2 DEF FinishConflict
<1>9. CASE FinishFault(t)
  BY <1>7, <1>9 DEF FinishFault, In
<1>10. CASE ReconcileSkip(t)
  <2>1. UNCHANGED <<rowVars, sup, op, stale, wanted>> /\ todo' \subseteq todo
    BY <1>10 DEF ReconcileSkip
  <2> QED
    BY <2>1 DEF ReadInv, CancelInv, KeepsStopped, RowStep, rowVars
<1> QED
  BY <1>1, <1>2, <1>3, <1>4, <1>5, <1>6, <1>8, <1>9, <1>10, LaunchRows, SettleRows
  DEF Supervise

(* Every step keeps what was read, owed cancels and final states.          *)
LEMMA RowInductive ==
    ASSUME TypeOK, ReadInv, CancelInv, [Next]_vars
    PROVE  RowStep
<1>1. CASE Crash \/ Exit
  <2>1. Gone
    BY <1>1 DEF Crash, Exit
  <2> QED
    BY <2>1 DEF Gone, ReadInv, CancelInv, KeepsStopped, RowStep, rowVars,
                histVars, Idle, None
<1>2. CASE Interrupt \/ Drain
  <2>1. op = Idle /\ todo = {} /\ sup' # "down"
        /\ UNCHANGED <<rowVars, op, todo, wanted>>
    BY <1>2 DEF Interrupt, Drain, ReadInv, histVars
  <2> QED
    BY <2>1 DEF ReadInv, CancelInv, KeepsStopped, RowStep, rowVars, Idle, None
<1>3. CASE Start
  <2>1. op.kind = None /\ op' = op /\ UNCHANGED <<rowVars, wanted>>
    BY <1>3 DEF Start, ReadInv
  <2>2. sup' = "reconciling" /\ \A t \in todo' : state[t] = "Running"
    BY <1>3 DEF Start, LeftRunning
  <2> QED
    BY <2>1, <2>2 DEF ReadInv, CancelInv, KeepsStopped, RowStep, rowVars, None
<1>4. CASE ReconcileDone
  BY <1>4 DEF ReconcileDone, ReadInv, CancelInv, KeepsStopped, RowStep, rowVars,
              histVars
<1>5. CASE UNCHANGED vars
  BY <1>5, RowKept DEF vars, histVars
<1> QED
  BY <1>1, <1>2, <1>3, <1>4, <1>5, UserRows, WorkerRows, SuperviseRows DEF Next

(* What an operation read is still its row, and an owed cancel stands.     *)
LEMMA RowInvariant == Spec => [](TypeOK /\ ReadInv /\ CancelInv)
<1>1. Init => ReadInv /\ CancelInv
  BY DEF Init, ReadInv, CancelInv, Idle, None
<1>2. TypeOK /\ ReadInv /\ CancelInv /\ [Next]_vars => (ReadInv /\ CancelInv)'
  BY RowInductive DEF RowStep
<1> QED
  BY <1>1, <1>2, TypeCorrect, PTL DEF Spec

(* For all constants: a requested cancel is not lost.                      *)
THEOREM CancelIsKept == Spec => []CancelKept
<1>1. CancelInv => CancelKept
  BY DEF CancelInv, CancelKept, Terminal
<1> QED
  BY <1>1, RowInvariant, PTL

(* For all constants: no writer revives a cancelled or failed task.        *)
THEOREM StoppedIsKept == Spec => StoppedStaysStopped
<1>1. /\ TypeOK /\ ReadInv /\ CancelInv /\ [Next]_vars
      => [\A t \in Tasks : state[t] \in {"Cancelled", "Failed"} =>
            state'[t] = state[t]]_vars
  BY RowInductive DEF RowStep, KeepsStopped
<1> QED
  BY <1>1, RowInvariant, PTL DEF Spec, StoppedStaysStopped

=============================================================================
