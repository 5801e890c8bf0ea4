-------------------------------- MODULE Inbox --------------------------------
(***************************************************************************)
(* The durable inbox of managed tasks (crates/xcb-runtime/src/             *)
(* managed_inbox.rs): guidance, messages between agents and reports of     *)
(* watched tasks, and how they move with the transitions of the task rows  *)
(* (managed.rs, managed_project.rs).  Every transition of a row regrades   *)
(* the pending events of that task in the same transaction; a dispatch     *)
(* binds a batch of them to one turn, and the settlement of that turn      *)
(* decides what became of the batch from the evidence the turn left.       *)
(*                                                                         *)
(* The row is that of ManagedTask, reduced to what the inbox reads; the    *)
(* attempt budget, routes and reviews only widen what a settlement may     *)
(* choose.  One supervisor operation is in progress at a time (`op'): what *)
(* it read may be stale when it writes.                                    *)
(***************************************************************************)
EXTENDS Naturals, Sequences, FiniteSets

CONSTANTS
    Tasks,          \* managed tasks of one workspace
    Ids,            \* event identities
    None,           \* no task
    MaxBatch,       \* MAX_BATCH_EVENTS (16)
    MaxTaskEvents,  \* MAX_TASK_EVENTS (256)
    MaxUsers,       \* bound: writes by users, owners and other agents
    MaxTurns,       \* bound: dispatches
    MaxCrashes      \* bound: supervisor crashes

ASSUME NoneAssumption == None \notin Tasks
ASSUME LimitAssumption ==
    /\ MaxBatch \in Nat \ {0} /\ MaxTaskEvents \in Nat \ {0}
    /\ MaxUsers \in Nat /\ MaxTurns \in Nat /\ MaxCrashes \in Nat

VARIABLES
    state, cancel, deferred,  \* the task row
    inputs,                   \* its user_inputs: a batch, or {} for a reply
    ev, status,               \* inbox_events, and where each one stands
    batch,                    \* inbox_batches, {} for no row
    worker,                   \* how far the dispatched turn has come
    appended, run, record,    \* its transcript entry, run and receipt
    lost,                     \* its worker returned an error, not an outcome
    op,                       \* the operation of the supervisor, what it read
    stale, stamped,           \* ... and whether its row, its events changed
    sent,                     \* history: events whose text was submitted
    users, turns, crashes     \* budgets used

rowVars  == <<state, cancel, deferred, inputs>>
turnVars == <<worker, appended, run, record, lost>>
envVars  == <<users, turns, crashes>>
mailVars == <<ev, status, batch>>
opVars   == <<op, stale, stamped>>
vars == <<rowVars, mailVars, turnVars, opVars, sent, envVars>>

Closed   == {"Completed", "Cancelled", "Failed"}
Terminal == Closed \cup {"Uncertain"}
TaskState == Terminal \cup {"Queued", "Running", "NeedsInput"}

Kind == {"steering", "message", "completion"}
Status == {"waiting", "queued", "prepared", "delivered", "held", "closed"}
Event == [task : Tasks, kind : Kind, seq : Nat, source : Tasks \cup {None}]
NoEvent == [task |-> None, kind |-> "none", seq |-> 0, source |-> None]

Worker == {"off", "ready", "appended", "open", "sending", "sent", "ended"}
Class == {"completed", "silent", "question", "limit", "failed", "cancelled"}
(* SettledOutcome: `sub' is prompt_submission, `sure' says that effects    *)
(* are not uncertain.                                                      *)
Receipt == [sub : {"no", "yes", "unknown"}, sure : BOOLEAN, class : Class]
NoReceipt == [sub |-> "none", sure |-> FALSE, class |-> "none"]

Idle == [kind |-> "none", t |-> None, events |-> {}, state |-> "none",
         delivered |-> FALSE, unstarted |-> FALSE]

Init ==
    /\ state = [t \in Tasks |-> "Queued"]
    /\ cancel = [t \in Tasks |-> FALSE]
    /\ deferred \in [Tasks -> BOOLEAN]
    /\ inputs = [t \in Tasks |-> <<>>]
    /\ ev = [i \in Ids |-> NoEvent] /\ status = [i \in Ids |-> "none"]
    /\ batch = [t \in Tasks |-> {}]
    /\ worker = [t \in Tasks |-> "off"]
    /\ appended = [t \in Tasks |-> FALSE]
    /\ run = [t \in Tasks |-> "none"]
    /\ record = [t \in Tasks |-> NoReceipt]
    /\ lost = [t \in Tasks |-> FALSE]
    /\ op = Idle /\ stale = FALSE /\ stamped = FALSE
    /\ sent = {}
    /\ users = 0 /\ turns = 0 /\ crashes = 0

-----------------------------------------------------------------------------
(* Events.                                                                 *)

Known == {i \in Ids : ev[i] # NoEvent}
Inserted(t) == {i \in Ids : ev[i].task = t}
Waiting(e, t) == {i \in Inserted(t) : e[i] \in {"queued", "held"}}

(* pending: queued or held, and not a member of an unsettled batch.        *)
Pending(t) == Waiting(status, t) \ batch[t]

(* held_reason, and the status a pending event gets from it.               *)
Grade(st, canc, def) ==
    IF st \in Closed THEN "closed"
    ELSE IF st = "Uncertain" \/ canc \/ st = "NeedsInput" \/ def THEN "held"
    ELSE "queued"

GradeOf(t) == Grade(state[t], cancel[t], deferred[t])

Mark(e, S, mark) == [i \in Ids |-> IF i \in S THEN mark ELSE e[i]]

(* insert_event, in the order of sequence numbers.                         *)
Insert(i, t, kind, source, mark) ==
    /\ i \notin Known
    /\ Cardinality(Inserted(t)) < MaxTaskEvents
    /\ ev' = [ev EXCEPT ![i] = [task |-> t, kind |-> kind, source |-> source,
                                seq |-> 1 + Cardinality(Known)]]
    /\ status' = [status EXCEPT ![i] = mark]

(* complete_watch for every watch on a source that now stands at `st'.     *)
BadReported(e, t, st) == e

Reported(e, t, st) ==
    IF st \notin Closed THEN e
    ELSE [i \in Ids |->
            IF ev[i].kind = "completion" /\ ev[i].source = t /\ e[i] = "waiting"
            THEN GradeOf(ev[i].task)
            ELSE e[i]]

BadRegraded(e, t, b, grade) == e

(* The last part of `transition': pending events follow their task.        *)
Regraded(e, t, b, grade) == Mark(e, Waiting(e, t) \ b, grade)

(* A committed row of t: `e' tells where the events stand, and `b' is the  *)
(* batch, after the change that the caller asked for.                      *)
Transition(t, st, canc, def, b, e) ==
    /\ state' = [state EXCEPT ![t] = st]
    /\ cancel' = [cancel EXCEPT ![t] = canc]
    /\ deferred' = [deferred EXCEPT ![t] = def]
    /\ batch' = [batch EXCEPT ![t] = b]
    /\ status' = Regraded(Reported(e, t, st), t, b, Grade(st, canc, def))
    /\ UNCHANGED ev

(* No change asked for: what was prepared for a turn that became uncertain *)
(* is held.                                                                *)
Unchanged(t, st) ==
    IF st = "Uncertain" THEN Mark(status, batch[t], "held") ELSE status

(* Change::Finish.                                                         *)
BadFinished(t, delivered, unstarted) ==
    Mark(status, batch[t], IF delivered THEN "delivered" ELSE "queued")

Finished(t, delivered, unstarted) ==
    Mark(status, batch[t], IF delivered THEN "delivered"
                           ELSE IF unstarted THEN "queued" ELSE "held")

BadPopped(t, delivered, unstarted) == inputs[t]

(* An undelivered batch leaves the inputs it was staged in.                *)
Popped(t, delivered, unstarted) ==
    IF unstarted /\ ~delivered /\ batch[t] # {} /\ inputs[t] # <<>>
       /\ inputs[t][Len(inputs[t])] = batch[t]
    THEN SubSeq(inputs[t], 1, Len(inputs[t]) - 1)
    ELSE inputs[t]

(* The row and the events of the batch after a settlement.                 *)
Settle(t, st, delivered, unstarted) ==
    /\ Transition(t, st, cancel[t], deferred[t],
                  IF delivered \/ unstarted THEN {} ELSE batch[t],
                  Finished(t, delivered, unstarted))
    /\ inputs' = [inputs EXCEPT ![t] = Popped(t, delivered, unstarted)]

-----------------------------------------------------------------------------
(* Users, owners and other agents.  What they write makes an operation of  *)
(* the supervisor stale, its row or the stamp of its events.               *)

Write ==
    /\ stale' = (stale \/ \E t \in Tasks : op.t = t /\
           <<state'[t], cancel'[t], deferred'[t]>> # <<state[t], cancel[t], deferred[t]>>)
    /\ stamped' = (stamped \/ \E i \in Ids : ev'[i].task = op.t /\
           <<ev'[i], status'[i]>> # <<ev[i], status[i]>>)
    /\ UNCHANGED <<op, turnVars, sent, turns, crashes>>

Others == Write /\ users < MaxUsers /\ users' = users + 1
Owner == Write /\ UNCHANGED users

Open(t) == state[t] \notin Terminal /\ ~cancel[t]

(* steer_task.                                                             *)
Steer(t, i) ==
    /\ Open(t)
    /\ Insert(i, t, "steering", None, GradeOf(t))
    /\ UNCHANGED <<rowVars, batch>>
    /\ Others

(* send_message: from the worker of a running task to another task.        *)
Send(s, t, i) ==
    /\ s # t /\ state[s] = "Running" /\ ~cancel[s] /\ worker[s] = "sent"
    /\ Open(t)
    /\ Insert(i, t, "message", None, GradeOf(t))
    /\ UNCHANGED <<rowVars, batch>>
    /\ Others

(* watch_task: reserves the report, and completes it at once if the source *)
(* has already settled.                                                    *)
Watch(t, s, i) ==
    /\ s # t /\ Open(t)
    /\ Insert(i, t, "completion", s,
              IF state[s] \in Closed THEN GradeOf(t) ELSE "waiting")
    /\ UNCHANGED <<rowVars, batch>>
    /\ Others

(* cancel_task.                                                            *)
CancelTask(t) ==
    /\ Open(t)
    /\ Transition(t, state[t], TRUE, deferred[t], batch[t], Unchanged(t, state[t]))
    /\ UNCHANGED inputs
    /\ Others

(* release_backlog.                                                        *)
Release(t) ==
    /\ deferred[t] /\ state[t] = "Queued" /\ ~cancel[t]
    /\ Transition(t, "Queued", FALSE, FALSE, batch[t], status)
    /\ UNCHANGED inputs
    /\ Others

(* reply_inner: an answer, or a follow-up to a completed task.             *)
Reply(t) ==
    /\ state[t] \in {"NeedsInput", "Completed"}
    /\ Transition(t, "Queued", FALSE, deferred[t], batch[t], status)
    /\ inputs' = [inputs EXCEPT ![t] = Append(@, {})]
    /\ Others

Unsettled(t) == run[t] = "open"

(* dismiss_uncertain_as; with a batch only by Change::AcceptUnreconciled.  *)
Dismiss(t) ==
    /\ state[t] = "Uncertain" /\ ~Unsettled(t)
    /\ Transition(t, "Failed", FALSE, deferred[t], {}, Mark(status, batch[t], "closed"))
    /\ UNCHANGED inputs
    /\ Owner

(* reconcile_uncertain: only from the exact receipt of the turn.           *)
Reconcile(t) ==
    LET r == record[t]
        unstarted == batch[t] # {} /\ r.sub = "no"
        delivered == batch[t] # {} /\ appended[t] /\ r.sub = "yes"
        st == IF unstarted THEN IF cancel[t] THEN "Cancelled" ELSE "NeedsInput"
              ELSE CASE r.class \in {"completed", "silent"} -> "Completed"
                     [] r.class = "question" -> "NeedsInput"
                     [] r.class = "cancelled" -> "Cancelled"
                     [] OTHER -> "Failed"
    IN /\ state[t] = "Uncertain" /\ ~Unsettled(t)
       /\ r # NoReceipt /\ r.sure /\ r.class # "limit"
       /\ batch[t] # {} => unstarted \/ delivered
       /\ Settle(t, st, delivered, unstarted)
       /\ Owner

(* recover_run: the owner and the provider of a run are gone.              *)
RecoverRun(t) ==
    /\ Unsettled(t) /\ worker[t] = "off"
    /\ run' = [run EXCEPT ![t] = "settled"]
    /\ UNCHANGED <<rowVars, mailVars, worker, appended, record, lost, opVars, sent,
                   envVars>>

-----------------------------------------------------------------------------
(* The supervisor dispatches.                                              *)

Supervisor == UNCHANGED <<users, crashes>>

Finish == op' = Idle /\ stale' = FALSE /\ stamped' = FALSE

Before(e, S, i) == {j \in S : e[j].seq < e[i].seq}

BadPrefix(t) ==
    {S \in SUBSET Pending(t) : \A i \in S : Before(ev, Pending(t), i) \subseteq S}

(* batch_candidates and `fit': a whole prefix in the order of acceptance.  *)
Prefix(t) ==
    {S \in SUBSET Pending(t) :
        /\ Cardinality(S) <= MaxBatch
        /\ \A i \in S : Before(ev, Pending(t), i) \subseteq S}

Dispatchable(t) == state[t] = "Queued" /\ ~cancel[t] /\ ~deferred[t] /\ ~Unsettled(t)

(* launch: the batch is read, then routed and rendered across awaits.      *)
LaunchRead(t) ==
    /\ op = Idle /\ worker[t] = "off" /\ turns < MaxTurns
    /\ Dispatchable(t)
    /\ \E S \in Prefix(t) :
           /\ S = {} => Pending(t) = {}
           /\ op' = [kind |-> "launch", t |-> t, events |-> S, state |-> "none",
                     delivered |-> FALSE, unstarted |-> FALSE]
    /\ UNCHANGED <<rowVars, mailVars, turnVars, stale, stamped, sent, turns>> /\ Supervisor

(* No prefix fits: accepted guidance is held, the task asks its user.      *)
LaunchFull(t) ==
    /\ op = Idle /\ worker[t] = "off" /\ Dispatchable(t) /\ Pending(t) # {}
    /\ Transition(t, "NeedsInput", cancel[t], deferred[t], batch[t], status)
    /\ UNCHANGED <<inputs, turnVars, opVars, sent, turns>> /\ Supervisor

(* prepare_inbox with Change::Prepare.                                     *)
Prepare(t) ==
    /\ op.kind = "launch" /\ op.t = t /\ ~stale
    /\ op.events # {} => batch[t] = {}
    /\ \A i \in op.events : status[i] \in {"queued", "held"}
    /\ Transition(t, "Running", FALSE, deferred[t], IF op.events = {} THEN batch[t] ELSE op.events,
                  Mark(status, op.events, "prepared"))
    /\ inputs' = [inputs EXCEPT ![t] =
           IF op.events = {} THEN @ ELSE Append(@, op.events)]
    /\ worker' = [worker EXCEPT ![t] = "ready"]
    /\ appended' = [appended EXCEPT ![t] = FALSE]
    /\ run' = [run EXCEPT ![t] = "none"]
    /\ record' = [record EXCEPT ![t] = NoReceipt]
    /\ lost' = [lost EXCEPT ![t] = FALSE]
    /\ Finish /\ turns' = turns + 1
    /\ UNCHANGED sent /\ Supervisor

LaunchConflict(t) ==
    /\ op.kind = "launch" /\ op.t = t
    /\ stale \/ (op.events # {} /\ batch[t] # {})
    /\ Finish
    /\ UNCHANGED <<rowVars, mailVars, turnVars, sent, turns>> /\ Supervisor

(* settle_unstarted_cancel.                                                *)
CancelIdle(t) ==
    /\ op = Idle /\ worker[t] = "off"
    /\ state[t] \in {"Queued", "NeedsInput"} /\ cancel[t]
    /\ Transition(t, "Cancelled", FALSE, FALSE, batch[t], Unchanged(t, "Cancelled"))
    /\ UNCHANGED <<inputs, turnVars, opVars, sent, turns>> /\ Supervisor

-----------------------------------------------------------------------------
(* The turn of a worker, as far as its traces tell what became of a batch. *)

WorkerStep(t, from, to) ==
    /\ worker[t] \in from
    /\ worker' = [worker EXCEPT ![t] = to]
    /\ UNCHANGED <<rowVars, mailVars, opVars, envVars>>

AppendInput(t) ==
    /\ WorkerStep(t, {"ready"}, "appended")
    /\ appended' = [appended EXCEPT ![t] = TRUE]
    /\ UNCHANGED <<run, record, lost, sent>>

PrepareRun(t) ==
    /\ WorkerStep(t, {"appended"}, "open")
    /\ run' = [run EXCEPT ![t] = "open"]
    /\ UNCHANGED <<appended, record, lost, sent>>

(* protocol.start: until it returns nobody knows what the provider got.    *)
StartPrompt(t) ==
    /\ WorkerStep(t, {"open"}, "sending")
    /\ sent' \in {sent, sent \cup batch[t]}
    /\ UNCHANGED <<appended, run, record, lost>>

PromptStarted(t) ==
    /\ WorkerStep(t, {"sending"}, "sent")
    /\ sent' = sent \cup batch[t]
    /\ UNCHANGED <<appended, run, record, lost>>

BadSubmission(t) == IF worker[t] \in {"sending", "sent"} THEN "yes" ELSE "no"

(* prompt_submission.                                                      *)
Submission(t) == CASE worker[t] = "open" -> "no"
                   [] worker[t] = "sending" -> "unknown"
                   [] OTHER -> "yes"

(* What a turn can end as from where it stands.                            *)
EndsAs(t) == IF worker[t] = "sent" THEN Class
             ELSE {"failed"} \cup (IF cancel[t] THEN {"cancelled"} ELSE {})

(* Joined and settled with its receipt; an error may still follow.         *)
SettleTurn(t) ==
    /\ \E class \in EndsAs(t), sure \in {TRUE, worker[t] # "sent"} :
           record' = [record EXCEPT ![t] =
               [sub |-> Submission(t), sure |-> sure, class |-> class]]
    /\ WorkerStep(t, {"open", "sending", "sent"}, "ended")
    /\ run' = [run EXCEPT ![t] = "settled"]
    /\ lost' \in {lost, [lost EXCEPT ![t] = TRUE]}
    /\ UNCHANGED <<appended, sent>>

(* Not joined: the run keeps its lease.                                    *)
AbandonTurn(t) ==
    /\ WorkerStep(t, {"open", "sending", "sent"}, "ended")
    /\ lost' \in {lost, [lost EXCEPT ![t] = TRUE]}
    /\ UNCHANGED <<appended, run, record, sent>>

(* A refusal or an error without an outcome; before the prompt the run, if *)
(* there is one, is settled without a receipt.                             *)
FailTurn(t) ==
    /\ run' = IF worker[t] = "open" THEN [run EXCEPT ![t] = "settled"] ELSE run
    /\ WorkerStep(t, {"ready", "appended", "open"}, "ended")
    /\ lost' = [lost EXCEPT ![t] = TRUE]
    /\ UNCHANGED <<appended, record, sent>>

-----------------------------------------------------------------------------
(* The settlement of a turn: what its traces prove about its batch.        *)

(* dispatch_unstarted: no transcript entry, or a receipt that says that    *)
(* the prompt was not submitted and that the outcome is at hand.           *)
Unstarted(t) ==
    /\ ~Unsettled(t)
    /\ ~appended[t] \/ (batch[t] # {} /\ record[t].sub = "no" /\ record[t].sure /\ ~lost[t])

(* inbox_delivered.                                                        *)
Delivered(t) ==
    /\ batch[t] # {} /\ ~Unsettled(t) /\ ~lost[t]
    /\ appended[t] /\ record[t].sub = "yes" /\ record[t].sure

(* The states that finish_once may choose for an outcome (continuations,   *)
(* retries, failover and reviews widen the choice) ...                     *)
Outcomes(t) ==
    LET r == record[t]
    IN IF Unsettled(t) \/ ~r.sure \/ (batch[t] # {} /\ ~Delivered(t) /\ ~Unstarted(t))
       THEN {"Uncertain"}
       ELSE IF cancel[t] /\ r.class # "completed" THEN {"Cancelled"}
       ELSE IF r.class = "completed" /\ Pending(t) # {} /\ ~cancel[t]
       THEN {"Queued", "NeedsInput"}
       ELSE IF r.class # "completed" /\ batch[t] # {} /\ Unstarted(t)
       THEN {"Queued", "NeedsInput"}
       ELSE CASE r.class = "completed" -> {"Completed"} \cup
                                          (IF cancel[t] THEN {} ELSE {"Queued", "NeedsInput"})
              [] r.class = "silent" -> {"Queued", "NeedsInput"}
              [] r.class = "question" -> {"NeedsInput"}
              [] r.class = "cancelled" -> {"Cancelled"}
              [] r.class = "limit" -> {"Queued", "NeedsInput", "Failed"}
              [] OTHER -> {"Queued", "Failed"}

(* ... and for an error.                                                   *)
Errors(t) ==
    IF cancel[t] /\ ~Unsettled(t) /\ (Unstarted(t) \/ record[t].class = "cancelled")
    THEN {"Cancelled"}
    ELSE IF Unstarted(t) THEN {"Queued", "NeedsInput"}
    ELSE {"Uncertain"}

(* finish_once decides from what it reads, then waits for a judge.         *)
FinishRead(t) ==
    /\ op = Idle /\ state[t] = "Running"
    /\ \/ worker[t] = "ended"
       \/ worker[t] = "off" /\ ~Unsettled(t) /\ appended[t] /\ record[t] # NoReceipt
    /\ \E st \in (IF lost[t] THEN Errors(t) ELSE Outcomes(t)) :
           op' = [kind |-> "finish", t |-> t, events |-> {}, state |-> st,
                  delivered |-> Delivered(t), unstarted |-> Unstarted(t)]
    /\ UNCHANGED <<rowVars, mailVars, turnVars, stale, stamped, sent, turns>> /\ Supervisor

BadStampCurrent(t) == ~stale

(* The row by its revision, the events by the stamp of Change::Finish.     *)
StampCurrent(t) == ~stale /\ ~stamped

FinishCommit(t) ==
    /\ op.kind = "finish" /\ op.t = t /\ StampCurrent(t)
    /\ Settle(t, op.state, op.delivered, op.unstarted)
    /\ worker' = [worker EXCEPT ![t] = "off"]
    /\ Finish
    /\ UNCHANGED <<appended, run, record, lost, sent, turns>> /\ Supervisor

(* finish_ref reads again.                                                 *)
FinishConflict(t) ==
    /\ op.kind = "finish" /\ op.t = t /\ ~StampCurrent(t)
    /\ Finish
    /\ UNCHANGED <<rowVars, mailVars, turnVars, sent, turns>> /\ Supervisor

-----------------------------------------------------------------------------
(* The supervisor and its workers die; runs and rows stay as they are.     *)
Crash ==
    /\ crashes < MaxCrashes /\ crashes' = crashes + 1
    /\ \E t \in Tasks : worker[t] # "off"
    /\ worker' = [t \in Tasks |-> "off"]
    /\ lost' = [t \in Tasks |-> FALSE]
    /\ Finish
    /\ UNCHANGED <<rowVars, mailVars, appended, run, record, sent, users, turns>>

(* reconcile_task for a row left Running, where it does not call finish.   *)
Orphan(t) == op = Idle /\ state[t] = "Running" /\ worker[t] = "off"

StartupRequeue(t) ==
    /\ Orphan(t) /\ ~Unsettled(t) /\ ~appended[t]
    /\ Settle(t, "Queued", FALSE, TRUE)
    /\ UNCHANGED <<turnVars, opVars, sent, turns>> /\ Supervisor

StartupUncertain(t) ==
    /\ Orphan(t)
    /\ Unsettled(t) \/ (appended[t] /\ record[t] = NoReceipt)
    /\ Transition(t, "Uncertain", cancel[t], deferred[t], batch[t], Unchanged(t, "Uncertain"))
    /\ UNCHANGED <<inputs, turnVars, opVars, sent, turns>> /\ Supervisor

-----------------------------------------------------------------------------
Command(t) ==
    \/ \E i \in Ids : Steer(t, i) \/ \E s \in Tasks : Send(s, t, i) \/ Watch(t, s, i)
    \/ CancelTask(t) \/ Release(t) \/ Reply(t) \/ Dismiss(t) \/ Reconcile(t) \/ RecoverRun(t)

Supervise(t) ==
    \/ LaunchRead(t) \/ LaunchFull(t) \/ Prepare(t) \/ LaunchConflict(t) \/ CancelIdle(t)
    \/ FinishRead(t) \/ FinishCommit(t) \/ FinishConflict(t)
    \/ StartupRequeue(t) \/ StartupUncertain(t)

Work(t) ==
    \/ AppendInput(t) \/ PrepareRun(t) \/ StartPrompt(t) \/ PromptStarted(t)
    \/ SettleTurn(t) \/ AbandonTurn(t) \/ FailTurn(t)

Next == Crash \/ \E t \in Tasks : Command(t) \/ Supervise(t) \/ Work(t)

Spec == Init /\ [][Next]_vars

-----------------------------------------------------------------------------
(* What the tables hold, and that a batch keeps its limit.                 *)
TypeOK ==
    /\ state \in [Tasks -> TaskState]
    /\ cancel \in [Tasks -> BOOLEAN] /\ deferred \in [Tasks -> BOOLEAN]
    /\ inputs \in [Tasks -> Seq(SUBSET Ids)]
    /\ ev \in [Ids -> Event \cup {NoEvent}]
    /\ status \in [Ids -> Status \cup {"none"}]
    /\ batch \in [Tasks -> SUBSET Ids]
    /\ worker \in [Tasks -> Worker]
    /\ appended \in [Tasks -> BOOLEAN] /\ lost \in [Tasks -> BOOLEAN]
    /\ run \in [Tasks -> {"none", "open", "settled"}]
    /\ record \in [Tasks -> Receipt \cup {NoReceipt}]
    /\ sent \subseteq Ids
    /\ \A t \in Tasks : Cardinality(batch[t]) <= MaxBatch

(* A batch belongs to one turn.  Its events are prepared exactly while the *)
(* row runs and held once the outcome is unknown, no other event is in an   *)
(* unknown state, and no guidance or message that still waits was accepted *)
(* before them.  A batch outlives its turn only in an uncertain row, where *)
(* a receipt or the owner can still settle it, and in a row whose          *)
(* cancellation settled although its worker returned an error.             *)
BatchCustody ==
    /\ \A t \in Tasks, i \in Ids :
           i \in batch[t] =>
               /\ ev[i].task = t
               /\ state[t] \in {"Running", "Uncertain", "Cancelled"}
               /\ state[t] = "Cancelled" => record[t].class = "cancelled"
               /\ status[i] = IF state[t] = "Running" THEN "prepared" ELSE "held"
    /\ \A t \in Tasks : \A i \in batch[t], j \in Pending(t) :
           ev[j].kind = "completion" \/ ev[i].seq < ev[j].seq
    /\ \A i \in Ids : status[i] = "prepared" => \E t \in Tasks : i \in batch[t]

(* Pending events stand as their task stands, whichever of the writers of  *)
(* the row moved it last, and no report waits for a source that closed.    *)
EventsFollowTasks ==
    /\ \A t \in Tasks : \A i \in Pending(t) : status[i] = GradeOf(t)
    /\ \A i \in Ids : status[i] = "waiting" => state[ev[i].source] \notin Closed

(* The text of an event enters the inputs of a task once, and leaves them  *)
(* whenever the event goes back to the queue: no later prompt repeats it.  *)
StagedOnce ==
    \A t \in Tasks : \A i \in Inserted(t) :
        LET at == {n \in DOMAIN inputs[t] : i \in inputs[t][n]}
        IN /\ Cardinality(at) <= 1
           /\ i \in Pending(t) \/ status[i] = "waiting" => at = {}

(* A turn that completes its task by itself closes no accepted guidance:   *)
(* what arrived while the settlement was judged sends it round again.      *)
GuidanceNotDropped ==
    [][\A t \in Tasks :
          state[t] = "Running" /\ state'[t] = "Completed" /\ ~cancel[t]
              => Pending(t) = {}]_vars

(* To its senders the inbox is a mailbox: an event goes into one turn, it  *)
(* comes back only if that turn did not submit it, and it is receipted     *)
(* only if it did.                                                         *)
Place(i) ==
    IF status[i] \in {"none", "closed"} THEN status[i]
    ELSE IF status[i] = "delivered" THEN "acked"
    ELSE IF i \in batch[ev[i].task] THEN "out"
    ELSE "pending"

Mail == INSTANCE Mailbox WITH box <- [i \in Ids |-> Place(i)], handed <- sent

MailSpec == Mail!Spec
=============================================================================
