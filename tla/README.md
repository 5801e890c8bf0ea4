# Verification of the xcb native runtime

xcb runs coding agents (Claude, Codex) as supervised child processes for a
user, a background supervisor of "managed tasks" and host applications. This
directory holds TLA+ models of the parts of the native runtime
(`src/crates/xcb-runtime/src`, file names below are relative to it) whose
correctness depends on the order of things: who may run, who holds what, and
what is still true after a crash. TLC checks them on small instances, and
TLAPS proves the main safety properties for instances of any size.

| Module | What it is |
| --- | --- |
| `ManagedTask` | managed task rows, one supervisor, its workers, the run records they leave |
| `ManagedTask_proofs`, `_evidence` | theorems about it: types, leases, workspaces, cancels and final states; evidence, owners, budgets |
| `MCManagedTask` | its instances for TLC |
| `AccountCustody` | one provider account: leases, credential receipts, processes, recovery, availability circuit |
| `SharedAccount` | what custody promises: a lock shared up to a capacity, or taken alone |
| `AccountCustody_proofs` | theorems: types, custody, sharing and the refinement, the circuit |
| `MCAccountCustody` | its instances for TLC |
| `WorkspaceLease` | the launches of all processes on workspaces: lock files and unsettled runs |
| `WorkspaceLease_proofs` | theorems: types, one writer per workspace |
| `MCWorkspaceLease` | its instances for TLC |
| `Inbox`, `Mailbox`, `MCInbox` | messages of managed tasks through the turns that carry them; what the inbox promises; instances |
| `Inbox_proofs` | theorems: types, batches, events, staging, guidance, the refinement of `Mailbox` |
| `Project`, `Calls`, `MCProject` | programs, daemons and proposals under a project grant; the ledger of their calls; instances |
| `Project_proofs` | theorems: types, the grant's count, children, resumptions, the refinement of `Calls` |
| `CommandJobs`, `GuestJobs`, `MCCommandJobs` | offline commands of a turn in the guest, recovery, archiving; what an account owner is promised; instances |
| `CommandJobs_proofs` | theorems: types, edits, the pinned boot, the refinement of `GuestJobs` |
| `RelaySession`, `Handover`, `MCRelaySession` | the relay sign-in of a machine, its refresh and renewal; what the renewal promises; instances |
| `RelaySession_proofs` | theorems: types, the kept pair, tokens spent once, the refinement of `Handover` |

## 1. Inventory

`PROJECT.json` lists every component with its sources and says whether it is
modelled. The ones with state worth protecting:

**Managed tasks** (`managed.rs`, `managed_project.rs`, `managed_habitat.rs`,
`managed_completion.rs`, `retry.rs`). State: one SQLite row per task (`TaskState`,
`cancel_requested`, `attempts`, `retry`, session binding, `revision`) and, in the
supervisor's memory, active workers, completions not yet recorded and pending
uncertain marks. Operations: submit, cancel, reply, recall, dismiss, reconcile,
launch, finish, mark uncertain, startup reconciliation, drain. Every write is
guarded by the revision. Interactions: other processes write the same rows; each
launch starts a worker that runs one call of the kernel and leaves a run record in
the session store. Hard: a row is judged over several awaits and may change;
a crash separates the row, the transcript, the run record and the provider.
Correct means: an ambiguous effect is never replayed, a cancel is never lost, a
finished task has evidence, a running task always has somebody to settle it.

**A worker's turn** (`kernel.rs`, `runner.rs`, `process.rs`). Steps: workspace lease,
`ready`, `append_input`, `prepare_run`, spawn, `mark_spawned`, prompt, joins,
settlement. Each can fail and each can be the last one before a crash.

**Account custody** (`store.rs`, `store_recovery.rs`, `store_claude_recovery.rs`).
State: `runs`, `leases`, `tool_effects`, `account_auth_failures`,
`account_recovery`, `run_recovery_generation`, and inside a run record its owner,
pid, capability processes with boot witnesses and the guest command. Operations:
`prepare_run`, `prepare_probe`, `mark_spawned`, the capability and guest markers,
settlement with and without an outcome, `recover_run`, `recover_claude_auth`,
`reconcile_command_custody`, `set_account_enabled`. Interactions: any number of xcb
processes through one database; the processes they start die or survive on their
own. Correct means: nothing of a run outlives its lease, a probe is alone, the
credential does not change under a turn, a refusal is not cleared by old news.

**Credentials** (`auth.rs`, `auth/claude_oauth.rs`, `application_qualification.rs`).
State: credential files, the generation, receipts. They enter `AccountCustody` as
the receipts and generation changes that custody must fence.

**Workspace lease** (`kernel.rs`, `workspace_infer.rs`). State: one lock file per
workspace path; unsettled runs. Used by every launch of every process.

**Inbox** (`managed_inbox.rs`). State: `inbox_events` (guidance, messages between agents,
reports of watched tasks, each with a status), `inbox_batches` (the events one turn
carries), and the `user_inputs` of the row. Operations: steer, send, watch, stamp a
batch at launch, deliver, hold or return it at the settlement. Every transition of a
row regrades its pending events in the same transaction. Hard: the settlement is
judged from traces a crash has cut short, while new events arrive. Correct means: an
event reaches at most one prompt, comes back only from a turn that never sent it, and
guidance accepted before the end of a turn is not swallowed by that end.

**Programs, daemons and project grants** (`managed_program.rs`,
`managed_program_state.rs`, `managed_daemon.rs`, `managed_project.rs`). State: the grant
row (budget, used, generation, enabled), a program's execution checkpoint, daemon
metadata, its mailboxes and intents, the rows of the children. Operations: configure
and expire a grant, admit a proposal, publish a call's child, resume the caller with
the child's result, request and answer a daemon's call, nudge, tick, stop. Hard: the
supervisor reads, waits and commits, while owners write the same rows; a result and
its nudge are two writes. Correct means: the grant counts exactly what it admitted, a
child works for a caller that waits for it, calls are answered once and in order.

**Offline command jobs** (`command_tool.rs`, `command.rs`, `command/guest.py`). State: a
job directory per command with its receipts, `jobs/pending`, the admission lock, the
guest's unit and result, the run's guest marker, the manifest that names the guest's boot. Operations: prepare, admit, send,
run, answer, save, acknowledge, publish edits, recover, discard, prune, refresh. Hard: five
processes on two machines, each of which may die between any two writes, and a
request that arrives after its sender gave up. Correct means: an account is let go
only when nothing of the command can still run, recovery can still ask about one whose end is
unknown, and the worker is told the truth about its edits.

**Relay sign-in** (`cloud/reauth.rs`, `cloud/link.rs`, `cloud/custody.rs`,
`cloud/relay_gate.rs`). State: `session.json`, a token pair whose refresh token is good once; the
journal `reauth.json` of a renewal; three lock files (the relay's gate, the refresh lock held over a
request, the short mutation lock). Operations: refresh when due or after a failure, `link
--reauth` (intent, code, prepared pair, signed challenge, `finishReauth`, publication), its
resumption by any later process, logout, linking again. Hard: the pair exists in two files and
in several processes; the request that moves the device may be handled although its sender is
gone; logout waits for nobody. Correct means: no token is spent twice, the sign-in that the
relay goes by is never forgotten, and the old one is not used while a renewal is unresolved.

**Schedules** (`managed_habitat.rs`), **coordination** (`coordination.rs`), **remote commands over the
relay** (the rest of `cloud/`), **tool servers** (`capabilities.rs`), **provider protocols**
(`claude_protocol.rs`, `codex.rs`), **routing and judge**, **application API**,
**workspace broker and sandbox**, **checkpoints** (`managed_workspace.rs`), **native
execution**, the **command line**, the **TypeScript library** and the **hosted relay
functions** are not modelled; section 7 says why and which come next.

Hazards are listed in `PROJECT.json` with the line where each bites and the
properties that would catch it.

## 2. How the modules correspond to the code

Conventions. One database transaction is one action; a process spawn, exit or
join is an action of its own; a sequence of transactions in one function is a
sequence of actions with everybody else in between. `Bad...` definitions are
mutated forms used to show that each property can fail; no action uses them.
`map` in `PROJECT.json` gives the lines of every definition.

### ManagedTask

| Variables | Code |
| --- | --- |
| `state`, `cancel`, `attempts`, `retry` | the task row |
| `session`, `appended` | a session is bound; `message_count` differs from `message_count_before` |
| `run`, `proc` | the latest run record of the task's session; its provider group |
| `pc`, `result`, `failures`, `signal` | the worker, its completion, record failures, the cancel channel |
| `sup`, `op`, `stale`, `todo` | the supervisor: phase, the row it read and will write, rows others have written since, tasks to reconcile |
| `sent`, `spent`, `wanted`, `skipped` | history: prompt sent by this dispatch, prompts since user input, cancel owed, reconciliation failed |
| `users`, `crashes`, `faults` | bounds |

The revision check appears as `stale`: the supervisor holds one row at a time
across other steps, and a commit needs the row not to have been written since.
`User` are the commands of other processes (`Cancel`, `Reply`, `Recall`,
`DismissUncertain`, `ReconcileUncertain`, `CloseUnanswered`, `RecoverRun`), `Worker`
the steps of a turn with every refusal and error exit, `Supervise` the loop
(launch, cancel, record with `finish_once`'s decision table, retries of a conflict,
mark uncertain) and startup reconciliation, and `Crash`, `Interrupt`, `Drain`,
`Exit`, `Start` the life of the process. Review verdicts, routes and provider
outcomes are nondeterministic within what `finish_once` distinguishes.

### AccountCustody

One account with its runs. `phase` is `RunRecord.phase`; `lease` the rows of `leases`;
`custody`, `pids`, `witness` the markers of processes other than the provider ("tool":
a tool server, announced with a boot identity; "helper": the Claude sign-in helper,
announced without one; "guest": a host command); `receipt` the unsettled credential
entry of `tool_effects`; `rotated` whether the run replaced the generation under it;
`alive`, `launched`, `up` the processes that really exist, which no row can see;
`gen`, `auth`, `circuit`, `enabled` the account; `clock` the wall clock.

Admission is `PrepareRun` (a turn, one transaction), and `CheckProbe` then `PrepareProbe` (the
account row is read before the transaction). `BeginSnapshot` to `PersistSnapshot` is the Codex
copy of the credential, `BeginImport`, `RotateGeneration`, `FinishImport` a replaced
credential, `BeginGeneration`, `FinishGeneration` the first generation of an account,
`StartHelper` to `FinishSignIn` a Claude sign-in or refresh. `SettleOutcome` grades the circuit and
the authentication gate in the settling transaction. `StopProof` is
`verify_recovery_stop`; `Recover`, `RecoverClaude` and `ReconcileGuest` need it.
`OwnerDies`, `ProcessExits` and `Reboot` strike at any moment.

`SharedAccount` is the abstract promise. The refinement mapping takes `holders` to the
leases, `sole` to the leased probes and `busy` to the runs that have a process; the
processes are real, the leases are rows, so the mapping says that the rows tell the
truth.

### WorkspaceLease

Every call of `execute_mode` is a launch with a `pc`: `TryLock` and `Check` are the two
halves of `workspace_lease`, `PrepareRun` to `Settle` one turn, after which the call may take
another without checking again, `Abandon` the error exit that keeps the run. `run`
says "launched" for a run whose provider has started and whose row still says
prepared. `OwnerDies` releases the lock and nothing else. `ManagedTask` uses the lease as
one condition inside one supervisor; here direct sessions and other terminals compete.

### Inbox

The row of `ManagedTask` reduced to what the inbox reads (`state`, `cancel`, `deferred`), with
`inputs` the texts a dispatch will submit. `ev` are the immutable event records (task, kind,
sequence number, source), `status` says where each stands, `batch` are the batch rows;
`worker`, `appended`, `run`, `record`, `lost` are the traces of the turn, and `sent` is history.
`op` is what the supervisor has read, `stale` and `stamped` whether the row, or the events it
stamps, have changed since. `Transition` is the one writer of a
row: it regrades the task's pending events (`held_reason`) and completes the watches on a
closed one. `Steer`, `Send`, `Watch`, `CancelTask`, `Release`, `Reply`, `Dismiss`, `Reconcile`,
`RecoverRun` are commands of other processes; `LaunchRead`, `Prepare`, `LaunchConflict` and
`LaunchFull` a dispatch that stamps a batch; `FinishRead`, `FinishCommit`, `FinishConflict` a
settlement, which judges `Delivered` and `Unstarted` from the traces at the read and
commits only if neither the row nor the stamp has moved; `Crash`, `StartupRequeue`,
`StartupUncertain` a restart. `Mailbox` is the promise to senders: none, pending, out, then
acked, closed or, if it was not handed to a provider, pending again. The mapping puts an
event "out" while a batch holds it and takes `handed` to the events whose text was sent.

### Project

One workspace with its grant: `gen`, `enabled`, `live`, `used` are the policy row. `prog`, `cancel`,
`waits`, `hold`, `pinned` are a program's task row, `calls` and `awaits` its checkpoint, `slice` the worker
of its current slice; `daemon`, `stopped`, `on` a daemon's metadata and the head of its process
record, `intents` its recorded requests, `nudges` and `mail` its two mailboxes. `child`, `revoked`,
`session`, `tried`, `run`, `dismissed`, `born` are the children's rows, one for each call, and `results`
those that have a result; `prop`, `offered`, `admitted` the proposals, `other` whether other
work of the workspace is open. `op` is what the supervisor is in the middle of and `dirty` the
rows written since it read them: `...Begin` reads, `...Commit` writes if its rows are clean. `Configure`,
`SetEnabled`, `Expire` are the owner's; `AdmitBegin/Commit` admit a proposal;
`PublishBegin/Commit` and `ResumeBegin/Commit` ask and answer a program's call,
`RequestBegin/Commit` and `ResultBegin/Commit` a daemon's; `Nudge`, `TickBegin`, `Execute`,
`Suspend`, `TickEnds` are the daemon's tick over its mailboxes; `Dispatch`, `RunSettles`,
`Record`, `CancelTask`, `Reply`, `Continue`, `Dismiss` the life of a child. `Calls` is a ledger of
asked and answered calls; the mapping counts the rows that exist and have results.

### CommandJobs

`phase`, `held`, `tool`, `cancelled`, `said` are the turn: the run row with its guest marker (`held`), the
receipt of the tool call and what was told to the worker; `host` is the place of the owning
process in `execute_owned`. `dir`, `jobBoot`, `owner`, `started`, `raw`, `discarded`, `acked`, `outcome`, `recovered`
are the job directory, one variable per file, and `marked` its file in `jobs/pending`; `lock` is the admission
lock; `wire` what the host sees of the transport and `flying` the requests that still travel;
`unit`, `recv`, `alive`, `told`, `ok`, `result` the guest's side of the job; `ws` the edits in
the worktree; `rec` a recovery in another process; `boot` and `pinned` the guest's boot and the one
the backend manifest names; `jobBoot` is the one it named when the command was prepared. An
acknowledgement only notes `acked`: the guest drops files that nothing reads again and keeps its result.
`HostDies`, `WireBreaks`, `UnitDies`, `ReceiveDies`, `RecoverDies` and `Reboot` strike at any
step. `GuestJobs` promises that one command is out at a time and a turn lets go only of
what cannot run; the mapping takes `live` to the commands of which a process, a unit or a
request that the current boot would accept exists.

### RelaySession

`session` and `journal` are the two files, `pump` and `fresh` the holders of the relay gate and of
the refresh lock, `pc` what each process is doing and `opened`, `snap`, `pair`, `chal` what it has in
memory (the sign-in it opened, the journal it loaded, a pair, a challenge), `flying` the requests on their way and `answer` what came
back. `bound`, `chals`, `issued`, `toks`, `expired` are the relay: the sign-in of the device, its
challenges, the sign-ins it has issued, the refresh token it accepts of each, those that have ended.
`lost` is history: sign-ins of which a crash or a logout kept the newest pair from every file.

`StartPass` to `EndPass` is a pass of the relay under its gate, `Permit`, `Unspent`, `Spend`, `Refreshed`,
`Rejected` a refresh (`refresh_custody`). `Prepare` or `Rejoin`, `Verify`, `Complete` bring the journal
to a prepared pair; `Lock`, `Begin`, `Begun`, `Continue`, `Finish`, `Renounced`, `ServerCommitted`,
`PublishSession`, `PublishJournal` are `commit_with` and `publish`, one action between any two awaits or
file writes; `Rerun`, `Renew`, `Unrenewed`, `Renewed`, `RenewalRequired` are `resume` and
`refresh_pending_with`. `Changed` is every check that fails after an await. `Dies` ends a process
that holds a lock and leaves its request on the way; a late `ServeFinish` still moves the device.

`Handover` promises that the device moves only while nobody works with the stored sign-in and
work is paused (or the machine is signed out), that only what the relay has accepted is adopted,
that the pause ends only when both agree, and that a removed sign-in comes back by linking
alone. The mapping takes `cur` to the stored sign-in, `paused` to `Blocks(journal)` and `busy` to the
passes and refreshes that are running.

## 3. Runs

All bounds are constants of the modules and appear in guards. "States" are
distinct states; symmetry is used only among interchangeable tasks, runs or
launches, and in no run with liveness.

| Run | Instance | Properties | States |
| --- | --- | --- | --- |
| `one` | one task, 2 attempts, 3 user writes, 2 crashes or stops, 2 store errors | TypeOK, LeaseCoversProvider, NoReplayOverAmbiguity, CompletedHasEvidence, CancelKept, RunningIsOwned, TurnBudget, StoppedStaysStopped, CancelNotRequeued | 2 274 151 |
| `two` | two tasks in overlapping workspaces, one crash, one error | WorkspaceExclusive | 1 063 484 |
| `live` | one task under `FairSpec`, one crash, one error, 2 user writes | RunningSettles, CancelTakesEffect | 35 953 |
| `custody` | 2 runs of a Claude account, capacity 2, tool server, helper, guest, crashes, reboots | TypeOK, CustodyHeld, GenerationStable, DisabledIdle, SharedSpec | 126 971 |
| `circuit` | 3 runs of a Codex account, capacity 2, all outcomes, clock to 2 | TrialAlone, NoStaleClear | 2 630 282 |
| `lease` | 3 launches in 2 nested directories, 2 turns each | WriterAlone, TurnUncontested | 11 726 |
| `inbox` | 2 tasks that steer, message and watch each other, 2 events, batches of 1, 2 turns, one crash | TypeOK, BatchCustody, EventsFollowTasks, StagedOnce, GuidanceNotDropped, MailSpec | 3 113 494 |
| `project` | a program and a daemon with 2 calls each, a proposal, 2 grants of 2 tasks, 4 owner writes, one crash | TypeOK, GrantCount, ChildUnderCaller, ResumedByEvidence, CallSpec | 1 971 827 |
| `jobs` | 2 commands of 2 turns, one guest restart and refresh, one cancellation, every process may die | TypeOK, EditsAccounted, OutIsPinned, JobSpec | 2 396 583 |
| `relay` | 2 processes, 3 sign-ins, one refresh each, 2 renewals, 2 challenges, one crash or lost reply, one ended sign-in or logout | TypeOK, BoundPairKept, HandoverSpec, TokenSpentOnce | 3 400 107 |
| `orphan`, `strand` | one call each, one crash | a sentence each, refuted | |

Why the bounds are enough to be interesting: `one` fits a dispatch, a crash in it, a
restart, a second dispatch and a user write between any two steps; two store errors
exhaust a retry bound of two; `two` fits a provider that outlives the supervisor
while the other task is dispatched. `custody` fits two turns, or a turn and a probe,
with every process alive at once and the owner of either dead; the generation can be
replaced once. `circuit` needs three runs for two trials after a refusal, and for
one run more than the capacity, and two ticks for a refusal, a backoff and a
trial. `lease` fits two launches that compete for one lock and a third that shares
only the files; the second turn is the one that checks nothing. `inbox` fits a batch
in a turn, a second event that waits behind it or travels to the other task, and a
dispatch after a crash; a batch of one makes the prefix a real choice. `project` fits a
call answered and the next one asked, a grant replaced while its admissions are under
way, and one that is full. `jobs` fits a command that is out while the other waits for the
lock, is refused by it, or is admitted beside a request that still travels, and a restart and a refresh
between any two of its steps. `relay` fits a renewal that dies
with its `finishReauth` on the way while the other process resumes, refreshes or signs a new
challenge, a second renewal after the first, and a logout with a new link in the middle; three sign-ins are
the old one, the new one and one more that replaces either.

`CHECK_DEADLOCK FALSE` is set because the behaviours are finite: users, crashes,
runs and turns are bounded, and when they are used up the system rests.

### What the passing runs show

* *Tasks*: a task that may be dispatched again, asks its user or is completed has
  settled evidence of the prompt it sent last (`NoReplayOverAmbiguity`), so no crash
  or conflict replays a prompt with unknown effects; a completed task rests on a
  retained outcome; a cancel survives launches, settlements and restarts; a running
  task has a worker, a completion or a mark to settle it, except where a cancel changed
  its row between the read and the write of a mark, or startup failed to write it; user
  input pays for a bounded number of prompts; cancelled and failed are final.
* *Accounts*: no process and no unfinished credential write outlives its lease, in
  spite of crashes between an intent and a pid, reboots and three recoveries; a
  probe is alone; the generation never changes under a turn; after a refusal one
  trial enters at a time and only younger success closes the circuit.
* *Workspaces*: one writer per path although locks die with processes, and the check
  at the beginning of a call stays good for its later turns.
* *Inbox*: a batch belongs to one turn until a receipt, the owner or a cancellation says
  what became of it; pending events stand as their task stands, whoever wrote the row
  last; no text is staged twice; a turn does not complete its task over guidance that
  arrived while it was judged; and all of that is a mailbox in which what was handed to a
  provider never comes back to the queue.
* *Projects*: what a grant has used is what exists under it, although the owner
  replaces or pauses it between a read and a commit; a provider runs for a child only
  while its caller waits for that call; a program is resumed only by a child that is
  complete at that moment; calls are asked and answered one at a time.
* *Commands*: through late requests, dead hosts, units and guests, an account is let go only
  when nothing of its command can run; a settled turn has told the truth about its edits;
  and while the end of a command is unknown the backend manifest names the boot of the guest it was sent to
  (`OutIsPinned`): a command is prepared under a manifest it has read before it has the admission lock, another program
  replaces the manifest after a restart of the guest, and `xcb recover` asks only the guest its manifest names.
* *Relay sign-in*: whoever dies, and however late a request is handled, the machine keeps the newest pair
  of the sign-in its device is bound to, in one file or the other; a refresh token goes out once
  and only while it is good; and the renewal is a handover: nobody works with the old sign-in
  between the moment it may have been given up and the moment the new one is adopted.

### Where the code and its text differ

Each of these runs checks one sentence of the repository and TLC refutes it.

* `orphan` (`CancelledChildSettles`): the comment at `managed_program_state.rs:1501` says a child
  cancelled while queued settles from its own record once no run holds it. Without a session
  the code asks for no attempts, but a failover drops the session and keeps the attempts: such
  a child never settles and its program waits for good, cancelled or not.
* `strand` (`NudgeFollowsResult`): `docs/plans/effectful-daemons.md:40-42` says that the supervisor
  "records the result row first, then sends the nudge" and that "re-settlement replays the same
  delivery". The result is committed first and the nudge posted after it, but only in the pass that
  recorded the result: a crash between them leaves the daemon without a message, and nothing replays it.

Smaller disagreements met while modelling; the models follow the code, and no run is spent
on them:

* `managed.rs:5693` takes every revision conflict of `mark_uncertain` for a moved task; a cancel
  only sets a flag, and the task stays running until the next start.
* `xcb-core/src/policy.rs:61-63` wants no turn without answer presented as finished;
  `reconcile_uncertain` records one as completed.
* `xcb recover` never frees a run whose owner died before `mark_spawned`, one with a helper or
  tool intent without pid or witness, or one with an import receipt: the safe side.
* `auth/claude_oauth.rs:1019` wants an exclusive run for a refresh; session runs refresh before
  their launch, so with `max_runs_per_account` above one two can spend one refresh token.
* `store.rs:1639-1642` says a routine refresh keeps the authentication failure; `publish` clears it
  for refresh and login alike.
* `docs/managed-harness.md:151-157` extends workspace exclusion to nested directories of direct
  sessions; the lock is per exact path, and the check is made before either launch has a run.
* `recently_completed` (`managed.rs:3451`) lets a follow-up continue a daemon's child whose result is
  recorded already; `ChildUnderCaller` therefore speaks of calls without a result.
* `xcb-cli/src/main.rs:3882` says `xcb recover` frees the account of a run whose processes are gone. Prune
  (`command.rs:815`) looks at the files of the job only: when the recovery died between its receipt
  and the custody change, the job is archived and no recovery finds it.

## 4. Fairness

Only run `live` assumes any. Worker steps are weakly fair: a turn ends by its deadline
and the join bounds of `runner.rs`. The supervisor loop visits every task in each
pass, so an operation that becomes possible again and again is taken (strong
fairness on beginning to record, mark or cancel), and the operation it has begun ends
(weak fairness). The service manager starts a supervisor that is gone. Crashes, store
errors, users and providers owe nothing. `RunningSettles` excludes tasks with a cancel
(a cancel may leave it running until then) and tasks startup could not write, which wait
for the next start.

## 5. What is proved

For every set of tasks, launches, commands, callers, proposals and processes, finite or not, every finite
set of runs, every capacity, overlap relation and bound, from the named assumptions on constants
(bounds are natural numbers, the identifiers that mean "nobody" name nobody, programs and daemons
are different things):

| Theorem | Says |
| --- | --- |
| `ManagedTask_proofs!TypeCorrect` | `Spec => []TypeOK` |
| `ManagedTask_proofs!LeaseHolds` | a live provider has an unsettled run |
| `ManagedTask_proofs!ExclusiveHolds` | no two providers in overlapping workspaces |
| `ManagedTask_proofs!CancelIsKept` | a requested cancel stands |
| `ManagedTask_proofs!StoppedIsKept` | cancelled and failed are final |
| `ManagedTask_evidence!NothingIsReplayed` | no dispatch over an ambiguous prompt |
| `ManagedTask_evidence!CompletionIsEvident` | a completed task rests on a retained outcome |
| `ManagedTask_evidence!CancelIsHonoured` | a settlement never requeues a task whose cancel is requested |
| `ManagedTask_evidence!RunningIsOwnedAlways` | a running task has somebody to settle it |
| `ManagedTask_evidence!PromptsAreBounded` | user input pays for a bounded number of prompts |
| `AccountCustody_proofs!TypeCorrect` | `Spec => []TypeOK` |
| `AccountCustody_proofs!CustodyIsHeld` | nothing outlives the lease |
| `AccountCustody_proofs!ProbeIsAlone`, `GenerationIsStable`, `CapacityIsHeld`, `DisabledIsIdle` | sharing |
| `AccountCustody_proofs!ImplementsLock` | `Spec => Shared!Spec` |
| `AccountCustody_proofs!ClearsAreFresh`, `TrialIsAlone` | the circuit |
| `WorkspaceLease_proofs!TypeCorrect`, `WriterIsAlone`, `TurnIsUncontested` | the lease |
| `Inbox_proofs!TypeCorrect` | `Spec => []TypeOK` |
| `Inbox_proofs!BatchesAreKept` | a batch belongs to one turn until something says what became of it |
| `Inbox_proofs!EventsFollow` | pending events stand as their task stands |
| `Inbox_proofs!StagedAtMostOnce` | no text is staged twice |
| `Inbox_proofs!NoGuidanceDropped` | a completion does not swallow new guidance |
| `Inbox_proofs!ImplementsMailbox` | `Spec => MailSpec` |
| `Project_proofs!TypeCorrect` | `Spec => []TypeOK` |
| `Project_proofs!GrantIsCounted` | what is used is what was admitted |
| `Project_proofs!ChildrenUnderCallers` | a provider runs for a call its caller waits for |
| `Project_proofs!ResumptionsAreEvident` | a program is resumed only by a completed child |
| `Project_proofs!ImplementsCalls` | `Spec => CallSpec` |
| `CommandJobs_proofs!TypeCorrect` | `Spec => []TypeOK` |
| `CommandJobs_proofs!EditsAreAccounted` | a settled turn told the truth about its edits |
| `CommandJobs_proofs!OutStaysPinned` | the manifest names the guest that a command of unknown end was sent to |
| `CommandJobs_proofs!ImplementsCustody` | `Spec => JobSpec` |
| `RelaySession_proofs!TypeCorrect` | `Spec => []TypeOK` |
| `RelaySession_proofs!PairIsKept` | the newest pair of the device's sign-in is in a file |
| `RelaySession_proofs!TokensSpentOnce` | a refresh token is sent once, while it is good |
| `RelaySession_proofs!ImplementsHandover` | `Spec => HandoverSpec` |

`ProbeIsAlone` and `CapacityIsHeld` state parts of what the refinement says, so the runs check `SharedSpec`
instead; the type invariant of `WorkspaceLease` is proved and checked by no run.

The arguments:

* *LeaseHolds* strengthens the property to `LeaseInv`: a worker that holds a run has it
  unsettled and live, so nobody else may recover it, and there is no provider at the
  places before the spawn and after the join. *ExclusiveHolds* adds `ExclusiveInv`: at
  most one of two overlapping tasks has a worker or an unsettled run, which the
  dispatch check and the lease check keep together; neither alone is inductive, since
  a crash removes the worker and leaves the run.
* *CancelIsKept* and *StoppedIsKept* rest on `ReadInv`: unless the row is stale, it still is
  what the operation in progress read. Without it a commit could revive a row.
* *CustodyIsHeld* rests on `HeldInv`. `RowInv`: a run is leased exactly while prepared or
  running, and an unleased run has left nothing. `AnnouncedInv`: every process but the
  provider was announced before it started, and no provider starts beside an announced
  helper. `WitnessInv`: a witness of another boot means that all its processes are
  gone. Then the stop proof really covers every process (`StopProofStops`,
  `SignInStops`), which is the only hard step: rows are made to speak about processes.
* *ProbeIsAlone*, *GenerationIsStable*, *CapacityIsHeld* are inductive together (`SharedInv`)
  over `HeldInv`: the generation moves only under a probe, and a probe is alone.
* *ImplementsLock*: a step that changes no lease is `Work`, because busy runs are leased
  after it; an admission is an acquire; a settlement or recovery is a release, and
  `HeldInv` after it says that the run was at rest.
* *TrialIsAlone* needs `DatedInv`: nothing is dated in the future, so a refusal just
  recorded has no younger run, and a trial enters an empty account.
* *WriterIsAlone* needs `LeaseInv` of `WorkspaceLease`: a call that has passed the check has
  its path to itself (`TurnUncontested`), because whoever else could prepare a run
  there needs the lock; and of the launches of one path at most one is unsettled.

* *NothingIsReplayed* and *CompletionIsEvident* rest on `EvidenceInv`: a prompt is sent only over
  appended input and on a run that answers it; what a worker returned is what its run
  retains; a row that claims more than "running" has that evidence, and so has the row
  the supervisor is about to write. The decision table of `finish_once` is the hard step.
  *CancelIsHonoured* adds that no rule of `finish_once` that dispatches again applies to a
  cancelled row, and that the row is the one it read (`ReadInv`).
* *RunningIsOwnedAlways* needs `OwnerInv` (worker slots belong to running tasks, and only running
  tasks are settled) and `BlameInv`: a running task without anybody is one whose cancel,
  skipped startup or counted number of faults put it there. *PromptsAreBounded* needs
  `BudgetInv`: every prompt since the last user input is paid for by an attempt, times
  the recoveries an attempt may have.
* `Inv` of *Inbox_proofs*. `NumberInv`: sequence numbers are unique, so the batch of a turn stands in
  front of what waits. `EventOf`, `BatchOf`: an event in a batch is out, an event in none is
  not. `TurnOf`: the traces say truthfully whether the text was sent, however early a crash
  cut them, so a settlement judged from them is truthful. `StageOf`: what is staged was not
  before. `OpInv`: what the supervisor read holds unless `stale` or `stamped` says otherwise.
  *ImplementsMailbox* then maps each step to a move of some events, or to a stutter.
* `Inv` of *Project_proofs*. `ProgramOf`: there is a child for each call made and an answer to each
  but the one waited for. `DaemonOf`: the first calls are answered, intents reach to the next, and
  a daemon does not end while one is under way. `ChildOf`: providers work on unanswered calls, and a
  child is charged to a grant that was in force. `OpInv`: what the supervisor read holds unless the row is
  dirty. `GrantInv`: `used` is the cardinality of what was admitted under the current
  generation; a commit adds one element, and a new generation has charged nothing, because
  nothing is born later than `gen`.
* `Inv` of *CommandJobs_proofs*: the files follow the process that writes them (`TurnInv`, `ReceiptInv`); the
  guest works on a request once (`GuestInv`); a command that is out has a file in
  `jobs/pending`, so whoever holds the lock and has scanned that directory finds none out
  (`MarkInv`); and at each place the worktree agrees with what was said (`EditsInv`). `PinInv`: a command is
  prepared for the boot of the manifest, and no boot ever falls, so one that finds the guest at its own boot
  finds the manifest there too; from then on the lock, and then its marker, keep the refresh away
  (*OutStaysPinned*).

* `Inv` of *RelaySession_proofs* relates the two files, what each process has in memory and the
  requests under way. `Holds`: a journal has what its phase needs, and its challenge was asked for
  its own new sign-in; `MemoryOf` says the same of the journal a process has loaded, which may be
  out of date. `LockOf`: the refresh lock has one holder, so at most one process is between a
  check and a write (`OneFresh`). `RequestOf`: a request is the one its sender waits for, or its
  sender is gone and the sign-in of a refresh counts as lost. `FinishOf` is the hard part: while a
  `finishReauth` can still move the device, with or without its sender, nobody works with the
  stored sign-in, no answered challenge waits to be recorded, and the journal either names this
  very challenge or its pair is beyond renewal. With it the device moves only to a sign-in whose
  pair the journal has (`PairIsKept`: `Accepted` says that a committed challenge of the journal is where the
  device is, so what `publish` writes is right), and only while the machine is paused
  (*ImplementsHandover*). `ChallengeInv`: only the newest challenge is pending, so a new one disarms a
  late finish.
* *TokensSpentOnce* needs `TokenOf` and `StoredInv`: the pair in `session.json`, or in the journal, is the newest
  of its sign-in unless a process that holds the refresh lock has just been answered and is about to
  write the successor; `NewOf`: the pair of a code that is in nobody's file is known to its process alone.
  The two files never vouch for one sign-in at once while work goes on, since a pending journal
  pauses the refresh of `session.json`.

Only model-checked: liveness (`RunningSettles`, `CancelTakesEffect`), which is out of the prover's reach
together with ENABLED and with induction over data. The two refuted sentences are
counterexamples and have no proof.

## 6. Abstractions and assumptions

* The supervisor's file lock works: there is one supervisor per state root.
* SQLite transactions are atomic and durable; a failed write is a fault of
  `ManagedTask`, and in `AccountCustody` a step that does not happen.
* `now_ms()` is exact and does not run backwards, and is read inside the transaction; the
  code reads it just before, so a refusal can be dated up to a lock wait early.
* A process number is not reused in a way that hides a live process; the code fails
  closed when one is reused.
* A helper of the Claude sign-in is treated as one that may change the credential;
  those that only read carry no receipt and end like an announced process.
* Quota cooldowns, `blocked_until`, model checks and `ready` only refuse earlier; refusal
  is always possible, so they are left out. Removal of an account needs no leases and
  ends the behaviour. `WorkspaceLease` leaves the accounts of its runs out for the same reason.
* `unsettled_runs` reads at most 129 rows; the models take the list as complete.
* In `ManagedTask` a drained supervisor may exit with unrecorded completions (the next
  start reconciles them), and an interrupt cancels workers, so tasks may be recorded
  as cancelled that no user cancelled. With a PR watch reviews continue beyond the
  attempts; `TurnBudget` says so. A store error while an idle task's cancel is settled counts a fault in the code and
  is tried again in the next pass; the model leaves it out. A worker that returns `Uncertain` is one whose outcome is
  uncertain; the inbox's own reason to ask the user is in `Inbox`; `session` stays true over a failover, which only
  `Project` tells apart. Worker panics and the idle exit are not modelled.
* The workspace of a session does not change.
* `Inbox`: the lapse of a project's authority, which holds events, and the retention of closed
  events are left out; a batch of the code carries up to sixteen events in the order of
  their sequence numbers, here one of any size up to `MaxBatch`.
* `Project`: the hourly window, provider conflicts and the throughput dials only refuse, and
  refusal is always possible; herds spread over several worktrees, memory bindings and
  retries of a record are left out. A crash of `enqueue_daemon_at` between the process record
  and its metadata row, which leaves a process nobody ticks, is not modelled.
* `CommandJobs`: the phases of the guest (projection of the tree, cache plan, command) are one;
  digests are exact; a failed file write is a death; a cancel is looked at only where the
  code looks; the age limit of prune is "nobody is busy with the job"; the legacy marker,
  public cache jobs, cleanup of snapshots and the limit of 64 unacknowledged jobs in the
  guest (`guest.py:208`), which a lost acknowledgement counts against for good, are left out, as is
  the reconciliation of `setup`, which the unjoined marker prevents. An answer that `accept` cannot
  write or bind is a broken transport. A failed seed or image cleanup is a failed acknowledgement.
* `RelaySession`: the content of a file stands for its identity, as no pair is written twice; the two
  long locks are taken in one step, and the supervisor locks behind the gate (`transition`) are part of
  it; a renewal whose status is unknown ends like one that has expired; a client opens its sign-in at its first refresh; the forced retry of `resume` is one more
  `Rerun`; the device and account keys do not change, so the checks of them always hold. The relay
  (`@hraness/relay`) and the loops that call these functions are not in the repository: the relay
  answers as `reauth.rs`, `link.rs` and `convex/remote-convex.test.ts` use it, a refresh token is good once, and
  a new challenge supersedes a pending one. A crash inside `clear_session` falls between its two removals.

## 7. Not modelled, and the plan

The order so far put the worst failures first: replayed effects (`ManagedTask`), a
shared credential (`AccountCustody`), two writers in one tree (`WorkspaceLease`); then what
the supervisor does on its own account (`Inbox`, `Project`) and what leaves the host
(`CommandJobs`, `RelaySession`). Next:

1. The remote commands of the relay (`cloud/lane.rs`, `cloud/controller.rs`): claimed, settled and
   acknowledged over reconnects.
2. Codex and Claude credentials in detail (`auth.rs`): concurrent copies of one credential,
   publication by newest refresh, identity checks. Refines the receipts of `AccountCustody`.
3. `Coordination` leases and the session import; schedules; workspace checkpoints.

Left out for good: provider wire protocols and the broker's file snapshots (parsing and
I/O; their outcomes are choices of the models), routing, judge and usage arithmetic
(scores without shared state), sandbox profiles, platform shims, user interfaces, the
TypeScript library (a separate product) and the site.

## 8. Running

`tlc -config MCX_y.cfg MCX.tla` for each run, `tlapm M.tla` for each proof module.
