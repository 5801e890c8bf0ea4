----------------------------- MODULE ManagedTask -----------------------------
(***************************************************************************)
(* Lifecycle of managed tasks under one supervisor process                 *)
(* (crates/xcb-runtime/src/managed.rs), with the worker turn it spawns     *)
(* (kernel.rs, runner.rs) and the durable run record that turn leaves      *)
(* (store.rs).  Three parties interleave: the user and owner commands of   *)
(* other processes, the supervisor loop, and one worker per running task;  *)
(* provider processes outlive the supervisor when it crashes.              *)
(*                                                                         *)
(* Every task row is written under a revision check.  The supervisor is    *)
(* the only reader that holds a row across other steps, so instead of a    *)
(* counter, `stale' holds the tasks another process has written since the  *)
(* supervisor last read them.                                              *)
(*                                                                         *)
(* Inbox batches, programs, session lineage, account capacity and routes   *)
(* belong to other components; here they appear only as the refusals and   *)
(* deferrals they cause.                                                   *)
(***************************************************************************)
EXTENDS Naturals, FiniteSets

CONSTANTS
    Tasks,              \* managed tasks
    NoTask,             \* no task: the supervisor is between operations
    Overlap,            \* pairs of distinct tasks whose workspaces overlap
    MaxAttempts,        \* ManagedTask::max_attempts (at most 9)
    MaxRecovery,        \* retry::MAX_RECOVERY_FAILURES (4096)
    MaxRecordFailures,  \* MAX_RECORD_FAILURES (6)
    FinishTries,        \* tries of finish_ref on a revision conflict (4)
    AutoFailover,       \* config.auto_failover
    AutoContinue,       \* extensions.auto_continue.enabled
    PrWatch,            \* a GitHub grant lets a review wait for a PR
    MaxUsers,           \* bound: user and owner writes
    MaxCrashes,         \* bound: supervisor crashes and stops
    MaxFaults           \* bound: store errors

ASSUME NoTaskAssumption == NoTask \notin Tasks
ASSUME OverlapAssumption ==
    /\ Overlap \subseteq Tasks \X Tasks
    /\ \A p \in Overlap : p[1] # p[2] /\ <<p[2], p[1]>> \in Overlap
ASSUME LimitAssumption ==
    /\ MaxAttempts \in Nat \ {0}
    /\ MaxRecovery \in Nat \ {0}
    /\ MaxRecordFailures \in Nat \ {0}
    /\ FinishTries \in Nat \ {0}
    /\ MaxUsers \in Nat /\ MaxCrashes \in Nat /\ MaxFaults \in Nat
ASSUME SwitchAssumption ==
    /\ AutoFailover \in BOOLEAN /\ AutoContinue \in BOOLEAN /\ PrWatch \in BOOLEAN

VARIABLES
    state, cancel, attempts, retry,  \* the task row; retry 0 is `None'
    session,       \* some worker session was bound to the task
    appended,      \* its message_count # message_count_before
    run,           \* the latest run record of the task's session
    proc,          \* a provider process group of the task exists
    pc, result, failures, signal,    \* worker, its completion, cancel channel
    sup, op, stale, todo,            \* the supervisor and the write it is in
    sent, spent, wanted,             \* history: prompt sent by this dispatch,
                                     \* prompts since user input, cancel owed
    skipped,       \* history: tasks whose reconciliation failed at startup
    users, crashes, faults           \* budgets used

rowVars  == <<state, cancel, attempts, retry>>
workVars == <<pc, result, failures, signal>>
supVars  == <<sup, op, stale, todo>>
histVars == <<sent, spent, wanted, skipped>>
envVars  == <<users, crashes, faults>>
vars == <<rowVars, session, appended, run, proc, workVars, supVars, histVars, envVars>>

TaskState == {"Queued", "Running", "NeedsInput", "Completed", "Cancelled",
              "Failed", "Uncertain"}
Terminal == {"Completed", "Cancelled", "Failed", "Uncertain"}

(* What a turn ended as: runner::Outcome, as far as `finish_once' tells    *)
(* outcomes apart.  "silent" is a completed turn with no reply and no      *)
(* changes; "limit" a turn or token limit; "quotaRefused" and              *)
(* "unavailable" are refusals without a tool call or effect; "quota" is a  *)
(* limit hit after work; "stale" the model or catalog check before the     *)
(* prompt; "denied" a refused approval or sign-in.                         *)
OutcomeClass == {"completed", "silent", "question", "denied", "limit",
                 "quotaRefused", "quota", "unavailable", "stale", "failed",
                 "cancelled"}
UnsentClass == {"denied", "unavailable", "stale", "failed", "cancelled"}
(* An `Err' instead of an outcome: "transport" when Error::failure() is    *)
(* Transport or ProviderUnavailable, "error" otherwise.                    *)
ErrorClass == {"transport", "error"}
None == "none"

(* "settled": joined and effects certain; "uncertain": joined, effects     *)
(* uncertain; "unjoined": some process group was not proven stopped.       *)
Result == [class : OutcomeClass, custody : {"settled", "uncertain", "unjoined"}]
          \cup [class : ErrorClass, custody : {"error"}]
          \cup [class : {None}, custody : {None}]
NoResult == [class |-> None, custody |-> None]

Phase == {None, "prepared", "running", "settled"}
Run == [phase : Phase, outcome : OutcomeClass \cup {None},
        live : BOOLEAN, mine : BOOLEAN]
NoRun == [phase |-> None, outcome |-> None, live |-> FALSE, mine |-> FALSE]

WorkerPc == {"starting", "appended", "prepared", "spawned", "marked", "turn",
             "joined", "done"}
Pc == WorkerPc \cup {"off", "unrecorded", "pending"}
Sup == {"down", "reconciling", "up", "draining", "stopping"}
OpKind == {None, "launch", "cancel", "finish", "mark"}
Idle == [kind |-> None, at |-> NoTask, tries |-> 0]

Init ==
    /\ state = [t \in Tasks |-> "Queued"]
    /\ cancel = [t \in Tasks |-> FALSE]
    /\ attempts = [t \in Tasks |-> 0]
    /\ retry = [t \in Tasks |-> 0]
    /\ session = [t \in Tasks |-> FALSE]
    /\ appended = [t \in Tasks |-> FALSE]
    /\ run = [t \in Tasks |-> NoRun]
    /\ proc = [t \in Tasks |-> FALSE]
    /\ pc = [t \in Tasks |-> "off"]
    /\ result = [t \in Tasks |-> NoResult]
    /\ failures = [t \in Tasks |-> 0]
    /\ signal = [t \in Tasks |-> FALSE]
    /\ sup = "down" /\ op = Idle /\ stale = {} /\ todo = {}
    /\ sent = [t \in Tasks |-> FALSE]
    /\ spent = [t \in Tasks |-> 0]
    /\ wanted = [t \in Tasks |-> FALSE]
    /\ skipped = {}
    /\ users = 0 /\ crashes = 0 /\ faults = 0

-----------------------------------------------------------------------------
(* Conditions on the current state.                                        *)

Unsettled(t) == run[t].phase \in {"prepared", "running"}

(* Mutated forms, named Bad..., stand before the definitions they replace; *)
(* no action uses them.  Here: exact paths only.                           *)
BadWorkspaceFree(t) == ~Unsettled(t)

(* workspace_busy, and the check of kernel::workspace_lease.               *)
WorkspaceFree(t) == \A u \in Tasks :
    (u = t \/ <<t, u>> \in Overlap) => ~Unsettled(u)

(* Supervisor::active.                                                     *)
Active(t) == pc[t] \in WorkerPc

(* Store::settled_outcome at message_count_before.                         *)
Evidence(t) == run[t].mine /\ run[t].phase = "settled" /\ run[t].outcome # None

BadCurrent(t) == TRUE

(* The revision check of transition_ui.                                    *)
Current(t) == t \notin stale

AtMost(n, m) == IF n < m THEN n ELSE m

-----------------------------------------------------------------------------
(* Writes by the user, the owner and standing owner instructions.  Each    *)
(* reads and commits one row; a conflict is reported to the caller.        *)

UserWrite(t) ==
    /\ users < MaxUsers
    /\ users' = users + 1
    /\ stale' = IF op.at = t \/ t \in todo THEN stale \cup {t} ELSE stale
    /\ UNCHANGED <<session, appended, proc, workVars, sup, op, todo, sent,
                   skipped, crashes, faults>>

(* cancel_task; the `cancel' of submit.                                    *)
Cancel(t) ==
    /\ state[t] \notin Terminal
    /\ UserWrite(t)
    /\ cancel' = [cancel EXCEPT ![t] = TRUE]
    /\ wanted' = [wanted EXCEPT ![t] = TRUE]
    /\ UNCHANGED <<state, attempts, retry, run, spent>>

(* reply_inner: an answer to a question, or a follow-up that reopens a     *)
(* completed task with a session.                                          *)
Reply(t) ==
    /\ state[t] \in {"NeedsInput", "Completed"}
    /\ UserWrite(t)
    /\ state' = [state EXCEPT ![t] = "Queued"]
    /\ attempts' = [attempts EXCEPT ![t] = 0]
    /\ retry' = [retry EXCEPT ![t] = 0]
    /\ cancel' = [cancel EXCEPT ![t] = FALSE]
    /\ wanted' = [wanted EXCEPT ![t] = FALSE]
    /\ spent' = [spent EXCEPT ![t] = 0]
    /\ UNCHANGED run

(* recall_queued: work that has never been prepared goes back to the user. *)
Recall(t) ==
    /\ state[t] = "Queued" /\ ~cancel[t] /\ attempts[t] = 0
    /\ ~session[t]
    /\ UserWrite(t)
    /\ state' = [state EXCEPT ![t] = "Cancelled"]
    /\ UNCHANGED <<cancel, attempts, retry, run, spent, wanted>>

(* dismiss_uncertain_as, by the owner or a schedule's standing dismissal.  *)
DismissUncertain(t) ==
    /\ state[t] = "Uncertain" /\ ~Unsettled(t)
    /\ UserWrite(t)
    /\ state' = [state EXCEPT ![t] = "Failed"]
    /\ cancel' = [cancel EXCEPT ![t] = FALSE]
    /\ UNCHANGED <<attempts, retry, run, spent, wanted>>

(* The state reconcile_uncertain derives from the retained outcome.        *)
ReconciledState(class) ==
    CASE class \in {"completed", "silent"} -> "Completed"
      [] class \in {"question", "denied"} -> "NeedsInput"
      [] class = "cancelled" -> "Cancelled"
      [] OTHER -> "Failed"

Inconclusive == {"limit", "quota", "quotaRefused"}

(* The latest outcome of the session, whatever input it answered.          *)
BadConclusive(t) ==
    run[t].phase = "settled" /\ run[t].outcome \notin Inconclusive \cup {None}

(* Only the exact settled outcome closes uncertainty, and a limit or quota *)
(* outcome does not.                                                       *)
Conclusive(t) == Evidence(t) /\ run[t].outcome \notin Inconclusive

(* reconcile_uncertain.                                                    *)
ReconcileUncertain(t) ==
    /\ state[t] = "Uncertain" /\ ~Unsettled(t) /\ Conclusive(t)
    /\ UserWrite(t)
    /\ state' = [state EXCEPT ![t] = ReconciledState(run[t].outcome)]
    /\ UNCHANGED <<cancel, attempts, retry, run, spent, wanted>>

(* settle_unanswered_task: a schedule's timeout closes an unanswered       *)
(* question.                                                               *)
CloseUnanswered(t) ==
    /\ state[t] = "NeedsInput" /\ ~cancel[t] /\ ~Unsettled(t) /\ Evidence(t)
    /\ UserWrite(t)
    /\ state' = [state EXCEPT ![t] = "Failed"]
    /\ UNCHANGED <<cancel, attempts, retry, run, spent, wanted>>

BadRecoverable(t) == run[t].phase = "running" /\ ~run[t].live

(* Store::recover_run on the proof of verify_recovery_stop: the owner and  *)
(* the provider group of a run past `mark_spawned' are gone.               *)
Recoverable(t) == run[t].phase = "running" /\ ~run[t].live /\ ~proc[t]

RecoverRun(t) ==
    /\ Recoverable(t)
    /\ users < MaxUsers /\ users' = users + 1
    /\ run' = [run EXCEPT ![t].phase = "settled"]
    /\ UNCHANGED <<rowVars, session, appended, proc, workVars, supVars,
                   histVars, crashes, faults>>

User(t) == \/ Cancel(t) \/ Reply(t) \/ Recall(t) \/ DismissUncertain(t)
           \/ ReconcileUncertain(t) \/ CloseUnanswered(t) \/ RecoverRun(t)

-----------------------------------------------------------------------------
(* One worker: kernel::execute_once in its own task of the supervisor.     *)

WorkerStep(t, from, to) ==
    /\ pc[t] = from
    /\ pc' = [pc EXCEPT ![t] = to]
    /\ UNCHANGED <<rowVars, session, failures, signal, supVars, wanted,
                   skipped, users, crashes>>

Ends(t, class, custody) ==
    result' = [result EXCEPT ![t] = [class |-> class, custody |-> custody]]

(* Errors before anything is written: the cancel check, `ready', a held    *)
(* workspace, a session or account that is gone.                           *)
RefuseInput(t) ==
    /\ WorkerStep(t, "starting", "done")
    /\ \E class \in ErrorClass : Ends(t, class, "error")
    /\ UNCHANGED <<appended, run, proc, sent, spent, faults>>

(* append_input, once workspace_lease holds.                               *)
AppendInput(t) ==
    /\ ~signal[t]
    /\ WorkspaceFree(t)
    /\ WorkerStep(t, "starting", "appended")
    /\ appended' = [appended EXCEPT ![t] = TRUE]
    /\ UNCHANGED <<result, run, proc, sent, spent, faults>>

(* run_with_pin refuses after the input was appended: a cancel that landed *)
(* during the TurnStart hooks, a requirement, or prepare_run's own checks. *)
RefuseRun(t) ==
    /\ WorkerStep(t, "appended", "done")
    /\ \E class \in ErrorClass : Ends(t, class, "error")
    /\ UNCHANGED <<appended, run, proc, sent, spent, faults>>

(* Store::prepare_run.                                                     *)
PrepareRun(t) ==
    /\ ~signal[t]
    /\ WorkerStep(t, "appended", "prepared")
    /\ run' = [run EXCEPT ![t] = [phase |-> "prepared", outcome |-> None,
                                  live |-> TRUE, mine |-> TRUE]]
    /\ UNCHANGED <<appended, result, proc, sent, spent, faults>>

(* Preparation or launch fails before any provider process.  The run is    *)
(* settled without an outcome unless clean-up of the artifacts, broker or  *)
(* credentials is unproven.                                                *)
PreparationFails(t) ==
    /\ WorkerStep(t, "prepared", "done")
    /\ \E class \in ErrorClass : Ends(t, class, "error")
    /\ \/ run' = [run EXCEPT ![t].phase = "settled"]
       \/ run' = run
    /\ UNCHANGED <<appended, proc, sent, spent, faults>>

(* StreamProcess::spawn.                                                   *)
Spawn(t) ==
    /\ WorkerStep(t, "prepared", "spawned")
    /\ proc' = [proc EXCEPT ![t] = TRUE]
    /\ UNCHANGED <<appended, result, run, sent, spent, faults>>

(* Store::mark_spawned.                                                    *)
MarkSpawned(t) ==
    /\ WorkerStep(t, "spawned", "marked")
    /\ run' = [run EXCEPT ![t].phase = "running"]
    /\ UNCHANGED <<appended, result, proc, sent, spent, faults>>

(* The prompt crosses to the provider.                                     *)
Submit(t) ==
    /\ WorkerStep(t, "marked", "turn")
    /\ sent' = [sent EXCEPT ![t] = TRUE]
    /\ spent' = [spent EXCEPT ![t] = @ + 1]
    /\ UNCHANGED <<appended, result, run, proc, faults>>

(* What execution can end as from where it stands.                         *)
EndClass(t) ==
    (IF pc[t] = "turn" THEN OutcomeClass \ {"stale"} ELSE UnsentClass)
        \ (IF signal[t] THEN {} ELSE {"cancelled"})

(* Execution ends by itself, by the turn deadline or by cancellation, and  *)
(* every process and listener is joined.                                   *)
JoinTurn(t) ==
    /\ \E from \in {"spawned", "marked", "turn"} : WorkerStep(t, from, "joined")
    /\ \E class \in EndClass(t) :
           \E custody \in {"settled"} \cup (IF pc[t] = "turn" THEN {"uncertain"}
                                           ELSE {}) :
               Ends(t, class, custody)
    /\ proc' = [proc EXCEPT ![t] = FALSE]
    /\ UNCHANGED <<appended, run, sent, spent, faults>>

(* ... or some group could not be proven stopped: the run stays unsettled. *)
AbandonTurn(t) ==
    /\ \E from \in {"spawned", "marked", "turn"} : WorkerStep(t, from, "done")
    /\ \E class \in EndClass(t) : Ends(t, class, "unjoined")
    /\ proc' \in {proc, [proc EXCEPT ![t] = FALSE]}
    /\ UNCHANGED <<appended, run, sent, spent, faults>>

(* settle_outcome_submitted for certain effects; for uncertain ones settle *)
(* without an outcome, refused while a credential receipt is pending.      *)
Settle(t) ==
    /\ WorkerStep(t, "joined", "done")
    /\ IF result[t].custody = "settled"
         THEN run' = [run EXCEPT ![t].phase = "settled",
                                 ![t].outcome = result[t].class]
         ELSE run' \in {run, [run EXCEPT ![t].phase = "settled"]}
    /\ UNCHANGED <<appended, result, proc, sent, spent, faults>>

(* A store error around settlement turns the completion into an `Err',     *)
(* before the settlement committed or after.                               *)
SettleFault(t) ==
    /\ faults < MaxFaults /\ faults' = faults + 1
    /\ WorkerStep(t, "joined", "done")
    /\ Ends(t, "error", "error")
    /\ \/ run' = run
       \/ /\ result[t].custody = "settled"
          /\ run' = [run EXCEPT ![t].phase = "settled",
                                ![t].outcome = result[t].class]
    /\ UNCHANGED <<appended, proc, sent, spent>>

(* A provider whose worker is gone exits on its own.                       *)
ProviderExits(t) ==
    /\ proc[t] /\ pc[t] \notin {"spawned", "marked", "turn"}
    /\ proc' = [proc EXCEPT ![t] = FALSE]
    /\ UNCHANGED <<rowVars, session, appended, run, workVars, supVars,
                   histVars, envVars>>

Worker(t) ==
    \/ RefuseInput(t) \/ AppendInput(t) \/ RefuseRun(t) \/ PrepareRun(t)
    \/ PreparationFails(t) \/ Spawn(t) \/ MarkSpawned(t) \/ Submit(t)
    \/ JoinTurn(t) \/ AbandonTurn(t) \/ Settle(t) \/ SettleFault(t)

-----------------------------------------------------------------------------
(* finish_once: the next row as a function of the completion.  `permits'   *)
(* is retry.permits(now); `review' the completion review; `go' the         *)
(* automatic continuation, which the judge and the settle heads decide.    *)

DispatchUnstarted(t) == ~Unsettled(t) /\ ~appended[t]

CancellationSettled(t) ==
    ~Unsettled(t) /\ (~appended[t] \/ run[t].outcome = "cancelled")

MayContinue(t) == ~cancel[t] /\ attempts[t] + 1 < MaxAttempts

Continuable == {"completed", "silent", "question", "limit"}

(* The choices config, clock, review and judge leave open.                 *)
Choice(t) ==
    {c \in [permits : BOOLEAN, review : {None, "hold", "continue"}, go : BOOLEAN] :
        /\ retry[t] = 0 => c.permits
        /\ c.permits => retry[t] < MaxRecovery
        /\ c.review # None => /\ ~cancel[t] /\ AutoContinue
                              /\ result[t].class \in Continuable \ {"limit"}
        /\ c.review = "continue" => PrWatch \/ MayContinue(t)
        /\ c.go => /\ MayContinue(t) /\ AutoContinue
                   /\ result[t].class \in Continuable}

NoEffectRefusal(t, c) ==
    /\ ~cancel[t] /\ ~Unsettled(t) /\ c.permits
    /\ result[t] \in [class : {"quotaRefused", "unavailable"}, custody : {"settled"}]

TransientRetry(t, c) == NoEffectRefusal(t, c) /\ result[t].class = "unavailable"

UnstartedRetry(t, c) ==
    /\ ~cancel[t] /\ DispatchUnstarted(t) /\ c.permits
    /\ result[t].class = "transport"

FailoverRoute(t, c) ==
    /\ AutoFailover /\ c.permits /\ ~cancel[t] /\ ~Unsettled(t)
    /\ NoEffectRefusal(t, c) \/ attempts[t] + 1 < MaxAttempts
    /\ result[t] \in [class : {"quotaRefused", "quota"}, custody : {"settled"}]

StaleModel(t) ==
    /\ MayContinue(t) /\ ~Unsettled(t)
    /\ result[t] = [class |-> "stale", custody |-> "settled"]

SettledCompletion(t) ==
    result[t] \in [class : {"completed", "silent"}, custody : {"settled"}]

NextAttempts(t, c) ==
    IF \/ UnstartedRetry(t, c) \/ TransientRetry(t, c)
       \/ FailoverRoute(t, c) /\ NoEffectRefusal(t, c)
    THEN attempts[t]
    ELSE AtMost(attempts[t] + 1, MaxAttempts)

BadNextRetry(t, c) ==
    IF UnstartedRetry(t, c) \/ TransientRetry(t, c) THEN retry[t] + 1
    ELSE IF SettledCompletion(t) THEN 0 ELSE retry[t]

NextRetry(t, c) ==
    IF UnstartedRetry(t, c) \/ TransientRetry(t, c) \/ FailoverRoute(t, c)
    THEN retry[t] + 1
    ELSE IF SettledCompletion(t) THEN 0 ELSE retry[t]

(* The arms for an outcome without any of the rules before it; a limit     *)
(* whose budget ran out asks, one that was vetoed or repeated fails.       *)
OutcomeState(class) ==
    CASE class = "completed" -> {"Completed"}
      [] class \in {"silent", "question", "denied"} -> {"NeedsInput"}
      [] class = "limit" -> {"NeedsInput", "Failed"}
      [] class = "cancelled" -> {"Cancelled"}
      [] OTHER -> {"Failed"}

BadSettlementUncertain(t) == Unsettled(t)

SettlementUncertain(t) == Unsettled(t) \/ result[t].custody # "settled"

OkState(t, c) ==
    IF SettlementUncertain(t) THEN {"Uncertain"}
    ELSE IF cancel[t] /\ result[t].class # "completed" THEN {"Cancelled"}
    ELSE IF TransientRetry(t, c) \/ FailoverRoute(t, c) \/ StaleModel(t)
         THEN {"Queued"}
    ELSE IF c.review = "hold" THEN {"NeedsInput"}
    ELSE IF c.review = "continue" \/ c.go THEN {"Queued"}
    ELSE OutcomeState(result[t].class)

BadErrState(t, c) ==
    IF DispatchUnstarted(t)
    THEN {IF NextAttempts(t, c) < MaxAttempts THEN "Queued" ELSE "NeedsInput"}
    ELSE IF cancel[t] /\ CancellationSettled(t) THEN {"Cancelled"}
    ELSE {"Uncertain"}

ErrState(t, c) ==
    IF cancel[t] /\ CancellationSettled(t) THEN {"Cancelled"}
    ELSE IF UnstartedRetry(t, c) THEN {"Queued"}
    ELSE IF DispatchUnstarted(t)
         THEN {IF NextAttempts(t, c) < MaxAttempts THEN "Queued" ELSE "NeedsInput"}
    ELSE {"Uncertain"}

FinishState(t, c) ==
    IF result[t].custody = "error" THEN ErrState(t, c) ELSE OkState(t, c)

-----------------------------------------------------------------------------
(* The supervisor.  It runs one operation at a time; an operation that     *)
(* awaits between reading a row and writing it is `op' until it commits,   *)
(* conflicts or fails.                                                     *)

Serving == sup \in {"up", "draining", "stopping"}

(* Begin reads the row: from here on `stale' tells whether it changed.     *)
Begin(kind, t) ==
    /\ op' = [kind |-> kind, at |-> t, tries |-> 0]
    /\ stale' = stale \ {t}

In(kind, t) == op.kind = kind /\ op.at = t

Fault == faults < MaxFaults /\ faults' = faults + 1

(* tick: a queued task that is due, with a free slot and workspace.        *)
LaunchBegin(t) ==
    /\ sup = "up" /\ op = Idle
    /\ state[t] = "Queued" /\ ~cancel[t] /\ ~Active(t)
    /\ \A u \in Tasks : <<t, u>> \in Overlap => ~Active(u)
    /\ WorkspaceFree(t)
    /\ Begin("launch", t)
    /\ UNCHANGED <<rowVars, session, appended, run, proc, workVars, sup, todo,
                   histVars, envVars>>

(* prepare_inbox, then spawning the worker.                                *)
Prepare(t) ==
    /\ In("launch", t) /\ Current(t)
    /\ retry[t] < MaxRecovery
    /\ state' = [state EXCEPT ![t] = "Running"]
    /\ cancel' = [cancel EXCEPT ![t] = FALSE]
    /\ session' = [session EXCEPT ![t] = TRUE]
    /\ appended' = [appended EXCEPT ![t] = FALSE]
    /\ run' = [run EXCEPT ![t].mine = FALSE]
    /\ pc' = [pc EXCEPT ![t] = "starting"]
    /\ signal' = [signal EXCEPT ![t] = FALSE]
    /\ sent' = [sent EXCEPT ![t] = FALSE]
    /\ op' = Idle
    /\ UNCHANGED <<attempts, retry, proc, result, failures, sup, stale, todo,
                   spent, wanted, skipped, envVars>>

(* fail_unstarted and its siblings: recovery budget spent, workspace gone  *)
(* or replaced, no admissible route, prompt too large.                     *)
FailUnstarted(t) ==
    /\ In("launch", t) /\ Current(t)
    /\ state' = [state EXCEPT ![t] = "Failed"]
    /\ op' = Idle
    /\ UNCHANGED <<cancel, attempts, retry, session, appended, run, proc,
                   workVars, sup, stale, todo, histVars, envVars>>

(* A deferral while routing, or a row that changed: nothing is launched.   *)
LaunchAbandoned(t) ==
    /\ In("launch", t)
    /\ op' = Idle
    /\ UNCHANGED <<rowVars, session, appended, run, proc, workVars, sup, stale,
                   todo, histVars, envVars>>

BadRetryValid(t) == TRUE

(* TaskRetry::valid after one more failure.                                *)
RetryValid(t) == retry[t] < MaxRecovery

(* task_fault after a store error: back off, if the row may still be       *)
(* written and its retry stays valid.                                      *)
LaunchFault(t) ==
    /\ In("launch", t) /\ Fault
    /\ retry' = IF Current(t) /\ RetryValid(t)
                THEN [retry EXCEPT ![t] = @ + 1] ELSE retry
    /\ op' = Idle
    /\ UNCHANGED <<state, cancel, attempts, session, appended, run, proc,
                   workVars, sup, stale, todo, histVars, users, crashes>>

(* tick: a cancel request reaches the worker of an active task.            *)
SignalCancel(t) ==
    /\ sup \in {"up", "draining"} /\ op = Idle
    /\ cancel[t] /\ Active(t) /\ ~signal[t]
    /\ signal' = [signal EXCEPT ![t] = TRUE]
    /\ UNCHANGED <<rowVars, session, appended, run, proc, pc, result, failures,
                   supVars, histVars, envVars>>

BadCancellable(t) == ~Active(t) /\ state[t] = "Queued"

Cancellable(t) == ~Active(t) /\ state[t] \in {"Queued", "NeedsInput"}

(* tick, settle_unstarted_cancel: a task that is not running is cancelled  *)
(* at once.                                                                *)
CancelBegin(t) ==
    /\ sup \in {"up", "draining"} /\ op = Idle
    /\ cancel[t] /\ Cancellable(t)
    /\ Begin("cancel", t)
    /\ UNCHANGED <<rowVars, session, appended, run, proc, workVars, sup, todo,
                   histVars, envVars>>

CancelCommit(t) ==
    /\ In("cancel", t) /\ Current(t)
    /\ state' = [state EXCEPT ![t] = "Cancelled"]
    /\ cancel' = [cancel EXCEPT ![t] = FALSE]
    /\ op' = Idle
    /\ UNCHANGED <<attempts, retry, session, appended, run, proc, workVars, sup,
                   stale, todo, histVars, envVars>>

CancelConflict(t) ==
    /\ In("cancel", t) /\ ~Current(t)
    /\ op' = Idle
    /\ UNCHANGED <<rowVars, session, appended, run, proc, workVars, sup, stale,
                   todo, histVars, envVars>>

(* record: a joined worker, or a completion whose record failed before.    *)
(* Shutdown allows the latter one last try.                                *)
RecordBegin(t) ==
    /\ Serving /\ op = Idle
    /\ pc[t] \in {"done", "unrecorded"}
    /\ failures' = IF sup = "stopping" /\ pc[t] = "unrecorded"
                   THEN [failures EXCEPT ![t] = MaxRecordFailures] ELSE failures
    /\ Begin("finish", t)
    /\ UNCHANGED <<rowVars, session, appended, run, proc, pc, result, signal,
                   sup, todo, histVars, envVars>>

(* The worker's slot, completion and retries are gone.                     *)
Forget(t) ==
    /\ pc' = [pc EXCEPT ![t] = "off"]
    /\ result' = [result EXCEPT ![t] = NoResult]
    /\ failures' = [failures EXCEPT ![t] = 0]
    /\ signal' = [signal EXCEPT ![t] = FALSE]

FinishCommit(t) ==
    /\ In("finish", t) /\ Current(t)
    /\ IF state[t] \in Terminal THEN UNCHANGED <<state, attempts, retry>>
       ELSE \E c \in Choice(t) :
              /\ \E s \in FinishState(t, c) : state' = [state EXCEPT ![t] = s]
              /\ attempts' = [attempts EXCEPT ![t] = NextAttempts(t, c)]
              /\ retry' = [retry EXCEPT ![t] = NextRetry(t, c)]
    /\ Forget(t)
    /\ op' = Idle
    /\ todo' = todo \ {t}
    /\ UNCHANGED <<cancel, session, appended, run, proc, sup, stale, histVars,
                   envVars>>

(* record after a failed finish: retry later, or mark the task uncertain.  *)
(* Startup reconciliation only skips the task.                             *)
RecordFailed(t) ==
    IF sup = "reconciling"
    THEN /\ Forget(t) /\ op' = Idle /\ todo' = todo \ {t} /\ UNCHANGED stale
         /\ skipped' = IF Current(t) THEN skipped \cup {t} ELSE skipped
    ELSE /\ UNCHANGED <<result, signal, todo, skipped>>
         /\ IF failures[t] + 1 < MaxRecordFailures
              THEN /\ failures' = [failures EXCEPT ![t] = @ + 1]
                   /\ pc' = [pc EXCEPT ![t] = "unrecorded"]
                   /\ op' = Idle /\ UNCHANGED stale
              ELSE Begin("mark", t) /\ UNCHANGED <<failures, pc>>

(* finish_ref re-reads a changed row a bounded number of times.            *)
FinishConflict(t) ==
    /\ In("finish", t) /\ ~Current(t)
    /\ IF op.tries + 1 < FinishTries
         THEN /\ op' = [op EXCEPT !.tries = @ + 1]
              /\ stale' = stale \ {t}
              /\ UNCHANGED <<workVars, todo, skipped>>
         ELSE RecordFailed(t)
    /\ UNCHANGED <<rowVars, session, appended, run, proc, sup, sent, spent,
                   wanted, envVars>>

FinishFault(t) ==
    /\ In("finish", t) /\ Fault
    /\ RecordFailed(t)
    /\ UNCHANGED <<rowVars, session, appended, run, proc, sup, sent, spent,
                   wanted, users, crashes>>

(* mark_uncertain: a terminal task is left alone.                          *)
MarkCommit(t) ==
    /\ In("mark", t) /\ Current(t)
    /\ state' = [state EXCEPT ![t] = IF @ \in Terminal THEN @ ELSE "Uncertain"]
    /\ Forget(t)
    /\ op' = Idle
    /\ UNCHANGED <<cancel, attempts, retry, session, appended, run, proc, sup,
                   stale, todo, histVars, envVars>>

MarkConflict(t) ==
    /\ In("mark", t) /\ ~Current(t)
    /\ Forget(t)
    /\ op' = Idle
    /\ UNCHANGED <<rowVars, session, appended, run, proc, sup, stale, todo,
                   histVars, envVars>>

(* A failed mark becomes pending_uncertain, which is retried a bounded     *)
(* number of times and then dropped.                                       *)
MarkFault(t) ==
    /\ In("mark", t) /\ Fault
    /\ IF pc[t] # "pending" \/ failures[t] + 1 < MaxRecordFailures
         THEN /\ pc' = [pc EXCEPT ![t] = "pending"]
              /\ failures' = [failures EXCEPT ![t] =
                                 IF pc[t] # "pending" THEN 0 ELSE @ + 1]
              /\ UNCHANGED <<result, signal>>
         ELSE Forget(t)
    /\ op' = Idle
    /\ UNCHANGED <<rowVars, session, appended, run, proc, sup, stale, todo,
                   histVars, users, crashes>>

MarkBegin(t) ==
    /\ sup \in {"up", "draining"} /\ op = Idle /\ pc[t] = "pending"
    /\ Begin("mark", t)
    /\ UNCHANGED <<rowVars, session, appended, run, proc, workVars, sup, todo,
                   histVars, envVars>>

-----------------------------------------------------------------------------
(* Supervisor processes come and go.                                       *)

(* The process ends with everything it held in memory.  Provider groups    *)
(* and rows remain; no run has a live owner any more.                      *)
Gone ==
    /\ sup' = "down" /\ op' = Idle /\ stale' = {} /\ todo' = {}
    /\ pc' = [t \in Tasks |-> "off"]
    /\ result' = [t \in Tasks |-> NoResult]
    /\ failures' = [t \in Tasks |-> 0]
    /\ signal' = [t \in Tasks |-> FALSE]
    /\ run' = [t \in Tasks |-> [run[t] EXCEPT !.live = FALSE]]
    /\ UNCHANGED <<rowVars, session, appended, proc, histVars>>

Crash ==
    /\ sup # "down"
    /\ crashes < MaxCrashes /\ crashes' = crashes + 1
    /\ Gone
    /\ UNCHANGED <<users, faults>>

(* shutdown_within: every worker is cancelled; completions are recorded    *)
(* until all have stopped or the grace is over.                            *)
Interrupt ==
    /\ sup \in {"up", "draining"} /\ op = Idle
    /\ crashes < MaxCrashes /\ crashes' = crashes + 1
    /\ sup' = "stopping"
    /\ signal' = [t \in Tasks |-> Active(t)]
    /\ UNCHANGED <<rowVars, session, appended, run, proc, pc, result, failures,
                   op, stale, todo, histVars, users, faults>>

(* identity.binary_replaced: launch nothing more.                          *)
Drain ==
    /\ sup = "up" /\ op = Idle
    /\ crashes < MaxCrashes /\ crashes' = crashes + 1
    /\ sup' = "draining"
    /\ UNCHANGED <<rowVars, session, appended, run, proc, workVars, op, stale,
                   todo, histVars, users, faults>>

Exit ==
    /\ op = Idle
    /\ \/ sup = "draining" /\ \A t \in Tasks : ~Active(t)
       \/ sup = "stopping" /\ \A t \in Tasks : pc[t] # "unrecorded"
    /\ Gone
    /\ UNCHANGED envVars

BadLeftRunning == {t \in Tasks : state[t] = "Running" /\ Unsettled(t)}

LeftRunning == {t \in Tasks : state[t] = "Running"}

(* start_supervisor took the lock; reconcile_startup reads the running     *)
(* tasks once.                                                             *)
Start ==
    /\ sup = "down"
    /\ sup' = "reconciling"
    /\ todo' = LeftRunning
    /\ skipped' = {}
    /\ UNCHANGED <<rowVars, session, appended, run, proc, workVars, op, stale,
                   sent, spent, wanted, envVars>>

(* reconcile_task on a row that did not change and holds no exact outcome. *)
(* A run that was unsettled when startup listed the runs still has an      *)
(* appended input and no outcome if it is recovered meanwhile, so both     *)
(* readings end in the same state.                                         *)
ReconcileCommit(t) ==
    /\ sup = "reconciling" /\ op = Idle /\ t \in todo /\ Current(t)
    /\ Unsettled(t) \/ ~appended[t] \/ ~Evidence(t)
    /\ state' = [state EXCEPT ![t] =
                    IF DispatchUnstarted(t) THEN "Queued" ELSE "Uncertain"]
    /\ todo' = todo \ {t}
    /\ UNCHANGED <<cancel, attempts, retry, session, appended, run, proc,
                   workVars, sup, op, stale, histVars, envVars>>

(* A conflicting row is skipped and stays running; so is one whose write   *)
(* fails.                                                                  *)
ReconcileSkip(t) ==
    /\ sup = "reconciling" /\ op = Idle /\ t \in todo
    /\ \/ ~Current(t) /\ UNCHANGED <<skipped, faults>>
       \/ Fault /\ skipped' = skipped \cup {t}
    /\ todo' = todo \ {t}
    /\ UNCHANGED <<rowVars, session, appended, run, proc, workVars, sup, op,
                   stale, sent, spent, wanted, users, crashes>>

(* The exact settled outcome is recorded as if its worker had just joined. *)
ReconcileFinish(t) ==
    /\ sup = "reconciling" /\ op = Idle /\ t \in todo
    /\ ~Unsettled(t) /\ appended[t] /\ Evidence(t)
    /\ result' = [result EXCEPT ![t] =
                     [class |-> run[t].outcome, custody |-> "settled"]]
    /\ Begin("finish", t)
    /\ UNCHANGED <<rowVars, session, appended, run, proc, pc, failures, signal,
                   sup, todo, histVars, envVars>>

(* Every task was visited: runs of dead owners whose processes are gone    *)
(* are recovered where the stop proof holds, and the loop begins.          *)
ReconcileDone ==
    /\ sup = "reconciling" /\ op = Idle /\ todo = {}
    /\ \E held \in SUBSET {t \in Tasks : Recoverable(t)} :
          run' = [t \in Tasks |-> IF Recoverable(t) /\ t \notin held
                                  THEN [run[t] EXCEPT !.phase = "settled"]
                                  ELSE run[t]]
    /\ sup' = "up"
    /\ UNCHANGED <<rowVars, session, appended, proc, workVars, op, stale, todo,
                   histVars, envVars>>

Supervise(t) ==
    \/ LaunchBegin(t) \/ Prepare(t) \/ FailUnstarted(t) \/ LaunchAbandoned(t)
    \/ LaunchFault(t) \/ SignalCancel(t)
    \/ CancelBegin(t) \/ CancelCommit(t) \/ CancelConflict(t)
    \/ RecordBegin(t) \/ FinishCommit(t) \/ FinishConflict(t) \/ FinishFault(t)
    \/ MarkBegin(t) \/ MarkCommit(t) \/ MarkConflict(t) \/ MarkFault(t)
    \/ ReconcileCommit(t) \/ ReconcileSkip(t) \/ ReconcileFinish(t)

Next ==
    \/ \E t \in Tasks : User(t) \/ Worker(t) \/ ProviderExits(t) \/ Supervise(t)
    \/ Crash \/ Interrupt \/ Drain \/ Exit \/ Start \/ ReconcileDone

Spec == Init /\ [][Next]_vars

(* Worker steps end by the turn deadline and the join bounds; the loop     *)
(* visits every task in each pass, so an operation that is possible again  *)
(* and again is taken (strong fairness); the service manager restarts a    *)
(* supervisor that is gone.  Users, faults and crashes owe nothing.        *)
Fairness ==
    /\ \A t \in Tasks :
         /\ WF_vars(Worker(t))
         /\ SF_vars(RecordBegin(t)) /\ SF_vars(MarkBegin(t))
         /\ SF_vars(SignalCancel(t)) /\ SF_vars(CancelBegin(t))
         /\ WF_vars(FinishCommit(t) \/ FinishConflict(t))
         /\ WF_vars(MarkCommit(t) \/ MarkConflict(t))
         /\ WF_vars(CancelCommit(t) \/ CancelConflict(t))
         /\ WF_vars(Prepare(t) \/ FailUnstarted(t) \/ LaunchAbandoned(t))
         /\ WF_vars(ReconcileCommit(t) \/ ReconcileFinish(t) \/ ReconcileSkip(t))
    /\ WF_vars(Start) /\ WF_vars(ReconcileDone) /\ WF_vars(Exit)

FairSpec == Spec /\ Fairness

-----------------------------------------------------------------------------
(* Properties.                                                             *)

(* The type invariant of the task rows, runs, workers and supervisor.      *)
TypeOK ==
    /\ state \in [Tasks -> TaskState]
    /\ cancel \in [Tasks -> BOOLEAN]
    /\ attempts \in [Tasks -> 0..MaxAttempts]
    /\ retry \in [Tasks -> 0..MaxRecovery]
    /\ session \in [Tasks -> BOOLEAN]
    /\ appended \in [Tasks -> BOOLEAN]
    /\ run \in [Tasks -> Run]
    /\ proc \in [Tasks -> BOOLEAN]
    /\ pc \in [Tasks -> Pc]
    /\ result \in [Tasks -> Result]
    /\ failures \in [Tasks -> Nat]
    /\ signal \in [Tasks -> BOOLEAN]
    /\ sup \in Sup
    /\ op \in [kind : OpKind, at : Tasks \cup {NoTask}, tries : 0..FinishTries]
    /\ stale \subseteq Tasks /\ todo \subseteq Tasks
    /\ sent \in [Tasks -> BOOLEAN]
    /\ spent \in [Tasks -> Nat]
    /\ wanted \in [Tasks -> BOOLEAN]
    /\ skipped \subseteq Tasks
    /\ users \in 0..MaxUsers /\ crashes \in 0..MaxCrashes /\ faults \in 0..MaxFaults

(* A provider process never outlives the run that holds its account and    *)
(* workspace, through crashes, failed settlements and recoveries.          *)
LeaseCoversProvider == \A t \in Tasks : proc[t] => Unsettled(t)

(* No two providers ever write overlapping workspaces.                     *)
WorkspaceExclusive ==
    \A t, u \in Tasks : <<t, u>> \in Overlap => ~(proc[t] /\ proc[u])

(* A task that may be dispatched again, asks the user or is completed has  *)
(* exact settled evidence of the prompt it last sent: nothing is replayed  *)
(* over an ambiguous effect.                                               *)
NoReplayOverAmbiguity ==
    \A t \in Tasks :
        sent[t] /\ state[t] \in {"Queued", "NeedsInput", "Completed"} =>
            Evidence(t) /\ ~proc[t]

(* A completed task rests on a retained, settled, completed turn.          *)
CompletedHasEvidence ==
    \A t \in Tasks : state[t] = "Completed" =>
        Evidence(t) /\ run[t].outcome \in {"completed", "silent"}

(* A requested cancel is neither lost to a concurrent launch, settlement,  *)
(* restart or reply race, nor forgotten while the task goes on.            *)
CancelKept == \A t \in Tasks : wanted[t] => cancel[t] \/ state[t] \in Terminal

(* While the supervisor serves, a running task has a worker, a completion  *)
(* to record or a pending mark; the exceptions are a task whose row a      *)
(* cancel changed at the wrong moment, one that startup could not          *)
(* reconcile, and a store that failed every bounded try.                   *)
RunningIsOwned ==
    \A t \in Tasks :
        /\ state[t] = "Running" /\ sup \in {"up", "draining"} /\ pc[t] = "off"
        => cancel[t] \/ t \in skipped \/ faults > 2 * MaxRecordFailures

(* Without a PR watch, user input pays for a bounded number of prompts.    *)
TurnBudget ==
    ~PrWatch => \A t \in Tasks : spent[t] <= MaxAttempts * MaxRecovery

(* Cancelled and failed tasks never run again, whatever a stale writer     *)
(* still holds.                                                            *)
StoppedStaysStopped ==
    [][\A t \in Tasks : state[t] \in {"Cancelled", "Failed"} =>
          state'[t] = state[t]]_vars

(* A settlement never re-queues a task whose cancellation is requested.    *)
CancelNotRequeued ==
    [][\A t \in Tasks : state[t] = "Running" /\ cancel[t] /\ state'[t] = "Queued" =>
          sup = "reconciling"]_vars

(* Every running task settles, whatever crashes and store errors happen,   *)
(* unless a cancel touched its row or startup could not reconcile it.      *)
RunningSettles ==
    \A t \in Tasks :
        state[t] = "Running" ~>
            (state[t] # "Running" \/ cancel[t] \/ t \in skipped)

(* A cancel of a task that is not running takes effect or is withdrawn.    *)
CancelTakesEffect ==
    \A t \in Tasks :
        (wanted[t] /\ state[t] \in {"Queued", "NeedsInput"}) ~>
            (~wanted[t] \/ state[t] \in Terminal)
=============================================================================
