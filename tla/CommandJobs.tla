---------------------------- MODULE CommandJobs ----------------------------
(***************************************************************************)
(* Offline commands of a turn (workspace_exec): the tool call in the host  *)
(* process that owns the turn (xcb-runtime/src/command_tool.rs), the job   *)
(* directory it keeps in the command root (command.rs), the supervisor     *)
(* that runs the command in a virtual machine (command/guest.py), and the  *)
(* owner's recovery and archiving from other processes.                    *)
(*                                                                         *)
(* Every process may die between two steps and the guest may restart; the  *)
(* request may arrive after the host has given up waiting for it.  What    *)
(* remains decides whether the turn's account may be let go.               *)
(***************************************************************************)
EXTENDS Naturals, FiniteSets

CONSTANTS
    Commands,   \* commands, each of a turn of its own account and process
    None,       \* nobody holds the admission lock
    MaxBoots,   \* bound: restarts of the guest
    MaxCancels, \* bound: commands that are cancelled
    MaxDeaths   \* bound: processes that die while they own a command

ASSUME BoundsAssumption ==
    {MaxBoots, MaxCancels, MaxDeaths} \subseteq Nat /\ None \notin Commands

VARIABLES
    \* the turn: its run row, the command custody in it, the receipt of its
    \* tool call, whether it was cancelled, what the call answered
    phase, held, tool, cancelled, said,
    host,    \* where the owning process is in the command, or "dead"
    \* the job directory, the boot it names, and the jobs with each file
    dir, jobBoot, owner, started, raw, discarded, acked, outcome, recovered,
    marked,  \* jobs with a file in jobs/pending
    lock,    \* the holder of admission.lock
    wire,    \* what the host sees of the transport that carries the request
    flying,  \* requests that are on their way to the guest
    \* the guest: the unit of each job, jobs whose receive runs, that live, that
    \* were told to stop, that exited well, and their results
    unit, recv, alive, told, ok, result,
    ws,      \* what the command's edits did to the worktree
    rec,     \* xcb recover, in its process
    boot,    \* the guest's boot
    pinned   \* the boot the backend manifest names

turnVars == <<phase, held, tool, cancelled, said>>
fileVars == <<owner, started, raw, discarded, acked, outcome, recovered>>
jobVars == <<dir, jobBoot, fileVars>>
hostVars == <<turnVars, host, jobVars, marked, lock>>
wireVars == <<wire, flying>>
guestVars == <<unit, recv, alive, told, ok, result>>
bootVars == <<boot, pinned>>
vars == <<hostVars, wireVars, guestVars, ws, rec, bootVars>>

Init ==
    /\ phase = [c \in Commands |-> "idle"] /\ held = [c \in Commands |-> "no"]
    /\ tool = [c \in Commands |-> "none"] /\ said = [c \in Commands |-> "none"]
    /\ host = [c \in Commands |-> "off"] /\ rec = [c \in Commands |-> "off"]
    /\ dir = [c \in Commands |-> "none"] /\ jobBoot = [c \in Commands |-> 0]
    /\ outcome = [c \in Commands |-> "none"]
    /\ cancelled = {} /\ owner = {} /\ started = {} /\ raw = {} /\ discarded = {}
    /\ acked = {} /\ recovered = {} /\ marked = {} /\ lock = None
    /\ wire = [c \in Commands |-> "none"] /\ flying = {}
    /\ unit = [c \in Commands |-> "none"] /\ result = [c \in Commands |-> "none"]
    /\ recv = {} /\ alive = {} /\ told = {} /\ ok = {}
    /\ ws = [c \in Commands |-> "untouched"]
    /\ boot = 0 /\ pinned = 0

-----------------------------------------------------------------------------
(* What the durable files say.                                             *)

JoinedReceipt(c) == outcome[c] = "joined" \/ c \in recovered

\* A start record is not looked for.
BadJobState(c) ==
    IF c \in discarded \/ JoinedReceipt(c) THEN "joined"
    ELSE IF outcome[c] = "open" THEN "unjoined" ELSE "unstarted"

\* job_joined
JobState(c) ==
    IF c \in discarded
    THEN IF c \in started \cup raw \/ outcome[c] # "none" \/ c \in recovered
         THEN "error" ELSE "joined"
    ELSE IF c \notin started THEN "unstarted"
    ELSE IF JoinedReceipt(c) THEN "joined" ELSE "unjoined"

\* guest_join_shape, and the joined bit of a result
Proves(r) == r \in {"joined", "unstarted"}

-----------------------------------------------------------------------------
(* The tool call and execute_owned.                                        *)

At(c, pc) == host[c] = pc
Go(c, pc) == host' = [host EXCEPT ![c] = pc]

\* begin_tool: the intent is durable before anything is prepared.
Begin(c) ==
    /\ phase[c] = "idle"
    /\ phase' = [phase EXCEPT ![c] = "running"] /\ tool' = [tool EXCEPT ![c] = "open"]
    /\ Go(c, "prepare")
    /\ UNCHANGED <<held, cancelled, said, jobVars, marked, lock>>
    /\ UNCHANGED <<wireVars, guestVars, ws, rec, bootVars>>

\* CommandBackend::load and prepare, in a blocking thread.
Prepare(c) ==
    /\ At(c, "prepare")
    /\ dir' = [dir EXCEPT ![c] = "jobs"] /\ jobBoot' = [jobBoot EXCEPT ![c] = pinned]
    /\ Go(c, "record")
    /\ UNCHANGED <<turnVars, fileVars, marked, lock, wireVars, guestVars, ws, rec, bootVars>>

\* cancel_and_join of an interrupted preparation, discard_unsubmitted.
Abandon(c) ==
    /\ At(c, "record") /\ c \in cancelled /\ held[c] = "no"
    /\ tool' = [tool EXCEPT ![c] = "settled"] /\ said' = [said EXCEPT ![c] = "kept"]
    /\ Go(c, "done")
    /\ UNCHANGED <<phase, held, cancelled, jobVars, marked, lock>>
    /\ UNCHANGED <<wireVars, guestVars, ws, rec, bootVars>>

\* record_command_custody, and the owner task is spawned.
Record(c) ==
    /\ At(c, "record")
    /\ held' = [held EXCEPT ![c] = "yes"]
    /\ Go(c, "own")
    /\ UNCHANGED <<phase, tool, cancelled, said, jobVars, marked, lock>>
    /\ UNCHANGED <<wireVars, guestVars, ws, rec, bootVars>>

\* execute_owned: one durable owner.
Own(c) ==
    /\ At(c, "own") /\ c \notin owner
    /\ owner' = owner \cup {c}
    /\ Go(c, "admit")
    /\ UNCHANGED <<started, raw, discarded, acked, outcome, recovered>>
    /\ UNCHANGED <<turnVars, dir, jobBoot, marked, lock, wireVars, guestVars, ws, rec, bootVars>>

\* A receipt of the job is written.
Receipt(c, joined) ==
    /\ outcome' = [outcome EXCEPT ![c] = joined]
    /\ UNCHANGED <<dir, jobBoot, owner, started, raw, discarded, acked, recovered>>

\* unstarted: a receipt that the command did not start.
Unstarted(c) ==
    /\ c \notin started
    /\ Receipt(c, "joined")
    /\ Go(c, "publish")

\* The scan of admission reaches some of the markers before one stops it.
Scan(clear) ==
    /\ \A d \in clear : JobState(d) \in {"unstarted", "joined"}
    /\ marked' = marked \ clear

Admitted == \A d \in marked : JobState(d) \in {"unstarted", "joined"}

Admit(c) ==
    /\ At(c, "admit") /\ lock = None /\ Admitted
    /\ Scan(marked) /\ lock' = c
    /\ Go(c, "check")
    /\ UNCHANGED <<turnVars, jobVars, wireVars, guestVars, ws, rec, bootVars>>

Busy(c) ==
    /\ At(c, "admit")
    /\ \/ lock # None /\ UNCHANGED marked
       \/ lock = None /\ ~Admitted /\ \E clear \in SUBSET marked : Scan(clear)
    /\ Unstarted(c)
    /\ UNCHANGED <<turnVars, lock, wireVars, guestVars, ws, rec, bootVars>>

\* inspect: the guest is the one that the manifest named when it was loaded.
Check(c) ==
    /\ At(c, "check")
    /\ \/ jobBoot[c] = boot /\ Go(c, "mark") /\ UNCHANGED <<jobVars, lock>>
       \/ Unstarted(c) /\ lock' = None
    /\ UNCHANGED <<turnVars, marked, wireVars, guestVars, ws, rec, bootVars>>

Mark(c) ==
    /\ At(c, "mark")
    /\ marked' = marked \cup {c}
    /\ Go(c, "start")
    /\ UNCHANGED <<turnVars, jobVars, lock, wireVars, guestVars, ws, rec, bootVars>>

Start(c) ==
    /\ At(c, "start")
    /\ started' = started \cup {c}
    /\ Go(c, "send")
    /\ UNCHANGED <<owner, raw, discarded, acked, outcome, recovered>>
    /\ UNCHANGED <<turnVars, dir, jobBoot, marked, lock, wireVars, guestVars, ws, rec, bootVars>>

Send(c) ==
    /\ At(c, "send")
    /\ wire' = [wire EXCEPT ![c] = "wait"] /\ flying' = flying \cup {c}
    /\ Go(c, "wait")
    /\ UNCHANGED <<turnVars, jobVars, marked, lock, guestVars, ws, rec, bootVars>>

\* The turn is cancelled, or the future that waits for the call is dropped;
\* the call looks at it in these places only.
Cancel(c) ==
    /\ host[c] \in {"record", "wait", "publish"} /\ c \notin cancelled
    /\ Cardinality(cancelled) < MaxCancels
    /\ cancelled' = cancelled \cup {c}
    /\ UNCHANGED <<phase, held, tool, said, host, jobVars, marked, lock>>
    /\ UNCHANGED <<wireVars, guestVars, ws, rec, bootVars>>

Tell(c) ==
    /\ At(c, "wait") /\ c \in cancelled \ told
    /\ told' = told \cup {c}
    /\ UNCHANGED <<unit, recv, alive, ok, result>>
    /\ UNCHANGED <<hostVars, wireVars, ws, rec, bootVars>>

\* accept, and without an answer a receipt that proves nothing.
Answered(c) ==
    /\ At(c, "wait") /\ wire[c] = "answer"
    /\ raw' = raw \cup {c}
    /\ wire' = [wire EXCEPT ![c] = "none"]
    /\ Go(c, "save")
    /\ UNCHANGED <<owner, started, discarded, acked, outcome, recovered>>
    /\ UNCHANGED <<turnVars, dir, jobBoot, marked, lock, flying, guestVars, ws, rec, bootVars>>

\* The admission lock outlives the command.
BadUnanswered(c) ==
    /\ At(c, "wait") /\ wire[c] = "failed"
    /\ Receipt(c, "open")
    /\ wire' = [wire EXCEPT ![c] = "none"] /\ Go(c, "held")
    /\ UNCHANGED <<turnVars, marked, lock, flying, guestVars, ws, rec, bootVars>>

Unanswered(c) ==
    /\ At(c, "wait") /\ wire[c] = "failed"
    /\ Receipt(c, "open")
    /\ wire' = [wire EXCEPT ![c] = "none"]
    /\ lock' = None /\ Go(c, "held")
    /\ UNCHANGED <<turnVars, marked, flying, guestVars, ws, rec, bootVars>>

Save(c) ==
    /\ At(c, "save")
    /\ \/ /\ Proves(result[c])
          /\ Receipt(c, "joined")
          /\ Go(c, "clear") /\ UNCHANGED lock
       \/ /\ ~Proves(result[c])
          /\ Receipt(c, "open")
          /\ Go(c, "held") /\ lock' = None
    /\ UNCHANGED <<turnVars, marked, wireVars, guestVars, ws, rec, bootVars>>

Clear(c) ==
    /\ At(c, "clear")
    /\ marked' = marked \ {c}
    /\ Go(c, "ack")
    /\ UNCHANGED <<turnVars, jobVars, lock, wireVars, guestVars, ws, rec, bootVars>>

\* acknowledge: the guest drops the seed, image and projection of a joined
\* command and keeps its result; the host's note of it, or the answer, may fail.
Acknowledge(c) ==
    /\ \/ UNCHANGED acked
       \/ /\ JoinedReceipt(c) /\ c \in raw
          /\ Proves(result[c]) /\ c \notin alive
          /\ acked' = acked \cup {c}
    /\ UNCHANGED <<dir, jobBoot, owner, started, raw, discarded, outcome, recovered>>

Ack(c) ==
    /\ At(c, "ack") /\ Acknowledge(c)
    /\ lock' = None /\ Go(c, "publish")
    /\ UNCHANGED <<turnVars, marked, wireVars, guestVars, ws, rec, bootVars>>

-----------------------------------------------------------------------------
(* publish and finish_command.                                             *)

Eligible(c) == c \in (started \cap ok) \ cancelled /\ result[c] = "joined"

\* The edits are dropped, or none of them could be written.
Keep(c) ==
    /\ At(c, "publish")
    /\ said' = [said EXCEPT ![c] = "kept"]
    /\ Go(c, "settle")
    /\ UNCHANGED <<phase, held, tool, cancelled, jobVars, marked, lock>>
    /\ UNCHANGED <<wireVars, guestVars, ws, rec, bootVars>>

Publish(c) ==
    /\ At(c, "publish") /\ Eligible(c) /\ dir[c] = "jobs"
    /\ ws' = [ws EXCEPT ![c] = "partial"]
    /\ Go(c, "publishing")
    /\ UNCHANGED <<turnVars, jobVars, marked, lock, wireVars, guestVars, rec, bootVars>>

Published(c) ==
    /\ At(c, "publishing")
    /\ ws' = [ws EXCEPT ![c] = "written"]
    /\ said' = [said EXCEPT ![c] = "published"]
    /\ Go(c, "settle")
    /\ UNCHANGED <<phase, held, tool, cancelled, jobVars, marked, lock>>
    /\ UNCHANGED <<wireVars, guestVars, rec, bootVars>>

\* The tool call is settled although its edits are half written.
BadTorn(c) ==
    /\ At(c, "publishing") /\ Go(c, "settle")
    /\ UNCHANGED <<turnVars, jobVars, marked, lock, wireVars, guestVars, ws, rec, bootVars>>

\* A later file could not be written: the custody and the intent stay.
Torn(c) ==
    /\ At(c, "publishing") /\ Go(c, "held")
    /\ UNCHANGED <<turnVars, jobVars, marked, lock, wireVars, guestVars, ws, rec, bootVars>>

SettleTool(c) ==
    /\ At(c, "settle")
    /\ tool' = [tool EXCEPT ![c] = "settled"]
    /\ Go(c, "release")
    /\ UNCHANGED <<phase, held, cancelled, said, jobVars, marked, lock>>
    /\ UNCHANGED <<wireVars, guestVars, ws, rec, bootVars>>

\* clear_command_custody
Release(c) ==
    /\ At(c, "release") /\ held[c] = "yes"
    /\ held' = [held EXCEPT ![c] = "cleared"]
    /\ Go(c, "done")
    /\ UNCHANGED <<phase, tool, cancelled, said, jobVars, marked, lock>>
    /\ UNCHANGED <<wireVars, guestVars, ws, rec, bootVars>>

\* settle_inner refuses a run that still holds a command.
Settle(c) ==
    /\ host[c] \in {"done", "held"} /\ held[c] # "yes"
    /\ phase' = [phase EXCEPT ![c] = "settled"]
    /\ Go(c, "ended")
    /\ UNCHANGED <<held, tool, cancelled, said, jobVars, marked, lock>>
    /\ UNCHANGED <<wireVars, guestVars, ws, rec, bootVars>>

\* The process that owns the turn is killed, with its end of the transport.
HostDies(c) ==
    /\ host[c] \notin {"off", "dead", "ended"}
    /\ Cardinality({d \in Commands : At(d, "dead")}) < MaxDeaths
    /\ Go(c, "dead")
    /\ lock' = IF lock = c THEN None ELSE lock
    /\ wire' = [wire EXCEPT ![c] = "none"]
    /\ UNCHANGED <<turnVars, jobVars, marked, flying, guestVars, ws, rec, bootVars>>

-----------------------------------------------------------------------------
(* The guest.  receive keeps the guest's own lock until the unit it has    *)
(* started is gone; the unit outlives it.                                  *)

\* The host is told nothing it could use.
Fails(c) == wire' = [wire EXCEPT ![c] = IF @ = "wait" THEN "failed" ELSE @]

Refuses(c) ==
    \/ recv # {}
    \/ \E d \in Commands : unit[d] # "none" /\ ~Proves(result[d])
    \/ jobBoot[c] # boot

\* receive and receive_owned, up to the request's own directory.
Receive(c) ==
    /\ c \in flying /\ flying' = flying \ {c}
    /\ \/ /\ ~Refuses(c)
          /\ unit' = [unit EXCEPT ![c] = "dir"]
          /\ recv' = recv \cup {c}
          /\ UNCHANGED wire
       \/ /\ Refuses(c)
          /\ Fails(c)
          /\ UNCHANGED <<unit, recv>>
    /\ UNCHANGED <<hostVars, alive, told, ok, result, ws, rec, bootVars>>

\* systemd-run takes the unit over.
Launch(c) ==
    /\ unit[c] = "dir" /\ c \in recv
    /\ unit' = [unit EXCEPT ![c] = "unit"]
    /\ UNCHANGED <<hostVars, wireVars, recv, alive, told, ok, result, ws, rec, bootVars>>

\* The transport is lost, or the host's deadline for it passes.
WireBreaks(c) ==
    /\ wire[c] = "wait" /\ Fails(c)
    /\ UNCHANGED <<hostVars, flying, guestVars, ws, rec, bootVars>>

Undelivered(c) ==
    /\ c \in flying /\ flying' = flying \ {c}
    /\ Fails(c)
    /\ UNCHANGED <<hostVars, guestVars, ws, rec, bootVars>>

\* receive ends early: an error of its preparation, or its session is gone.
ReceiveDies(c) ==
    /\ c \in recv
    /\ recv' = recv \ {c}
    /\ Fails(c)
    /\ UNCHANGED <<hostVars, flying, unit, alive, told, ok, result, ws, rec, bootVars>>

\* run_phase: the child-attempt marker, then the child, unless cancelled.
RunPhase(c) ==
    /\ unit[c] = "unit"
    /\ \/ /\ c \in told
          /\ unit' = [unit EXCEPT ![c] = "done"]
          /\ result' = [result EXCEPT ![c] = "joined"] /\ UNCHANGED alive
       \/ /\ c \notin told
          /\ unit' = [unit EXCEPT ![c] = "phase"]
          /\ alive' = alive \cup {c} /\ UNCHANGED result
    /\ UNCHANGED <<hostVars, wireVars, recv, told, ok, ws, rec, bootVars>>

\* The command ends or is killed, and the control group is empty.
Drain(c) ==
    /\ unit[c] = "phase" /\ c \in alive
    /\ alive' = alive \ {c}
    /\ \/ ok' = ok \ {c}
       \/ c \notin told /\ ok' = ok \cup {c}
    /\ UNCHANGED <<hostVars, wireVars, unit, recv, told, result, ws, rec, bootVars>>

\* populated
Joins(c) == c \notin alive

\* supervise writes what it saw: joined, or that it could not drain.
Supervised(c) ==
    /\ unit[c] = "phase"
    /\ unit' = [unit EXCEPT ![c] = "done"]
    /\ \/ Joins(c) /\ result' = [result EXCEPT ![c] = "joined"]
       \/ result' = [result EXCEPT ![c] = "open"]
    /\ UNCHANGED <<hostVars, wireVars, recv, alive, told, ok, ws, rec, bootVars>>

\* systemd stops a control group whose supervisor has ended or is out of time.
UnitDies(c) ==
    /\ \/ unit[c] = "unit" /\ unit' = [unit EXCEPT ![c] = "failed"]
       \/ unit[c] = "phase" /\ unit' = [unit EXCEPT ![c] = "cut"]
       \/ unit[c] = "done" /\ c \in alive /\ UNCHANGED unit
    /\ alive' = alive \ {c}
    /\ UNCHANGED <<hostVars, wireVars, recv, told, ok, result, ws, rec, bootVars>>

\* receive returns: status, or reconcile_prelaunch for a unit that failed
\* before it attempted a child.
Reply(c) ==
    /\ c \in recv /\ recv' = recv \ {c}
    /\ \/ unit[c] = "done" /\ UNCHANGED <<unit, result>>
       \/ /\ unit[c] = "failed"
          /\ unit' = [unit EXCEPT ![c] = "done"]
          /\ result' = [result EXCEPT ![c] = "unstarted"]
       \/ unit[c] = "cut" /\ UNCHANGED <<unit, result>>
    /\ IF unit[c] = "cut" THEN Fails(c)
       ELSE wire' = [wire EXCEPT ![c] = IF @ = "wait" THEN "answer" ELSE @]
    /\ UNCHANGED <<hostVars, flying, alive, told, ok, ws, rec, bootVars>>

Reboot ==
    /\ boot < MaxBoots /\ boot' = boot + 1
    /\ recv' = {} /\ alive' = {}
    /\ unit' = [c \in Commands |->
                   IF unit[c] \in {"dir", "unit", "phase"} THEN "cut" ELSE unit[c]]
    /\ wire' = [c \in Commands |-> IF wire[c] = "wait" THEN "failed" ELSE wire[c]]
    /\ UNCHANGED <<hostVars, flying, told, ok, result, ws, rec, pinned>>

\* The setup does not look at the commands that are still pending.
BadRefresh ==
    /\ pinned # boot /\ lock = None
    /\ \A d \in Commands : unit[d] \in {"none", "done"}
    /\ pinned' = boot
    /\ UNCHANGED <<hostVars, wireVars, guestVars, ws, rec, boot>>

\* setup-command-runner.py --refresh
Refresh ==
    /\ pinned # boot /\ lock = None
    /\ \A d \in marked : d \in started => JoinedReceipt(d)
    /\ \A d \in Commands : unit[d] \in {"none", "done"}
    /\ pinned' = boot
    /\ UNCHANGED <<hostVars, wireVars, guestVars, ws, rec, boot>>

-----------------------------------------------------------------------------
(* xcb recover and xcb command prune.                                      *)

Doing(c, step) == rec[c] = step
Then(c, step) == rec' = [rec EXCEPT ![c] = step]

\* verify_recovery_stop: the owning process and the provider are gone.
OwnerGone(c) == phase[c] = "running" /\ host[c] = "dead"

Recoverable(c) ==
    /\ Doing(c, "off") /\ OwnerGone(c)
    /\ held[c] = "yes" /\ dir[c] = "jobs"

\* discard_unstarted_without_receipt; the owner is gone already.
NoStart(c) == c \notin started \cup raw \cup recovered /\ outcome[c] = "none"

\* discard_unstarted_in, mark_discarded
Discard(c) ==
    /\ Recoverable(c) /\ NoStart(c)
    /\ discarded' = discarded \cup {c}
    /\ Then(c, "proved")
    /\ UNCHANGED <<owner, started, raw, acked, outcome, recovered>>
    /\ UNCHANGED <<turnVars, host, dir, jobBoot, marked, lock, wireVars, guestVars, ws, bootVars>>

\* recover_recorded_join
RecoverRecorded(c) ==
    /\ Recoverable(c) /\ JoinedReceipt(c)
    /\ c \in started => c \in raw
    /\ Then(c, "proved")
    /\ UNCHANGED <<hostVars, wireVars, guestVars, ws, bootVars>>

\* recover: the guest's own result, from the boot the command was sent to.
RecoverStatus(c) ==
    /\ Recoverable(c) /\ ~JoinedReceipt(c) /\ c \in started
    /\ jobBoot[c] = pinned /\ pinned = boot
    /\ result[c] # "none"
    /\ raw' = raw \cup {c}
    /\ \/ Proves(result[c]) /\ recovered' = recovered \cup {c} /\ Then(c, "receipt")
       \/ ~Proves(result[c]) /\ UNCHANGED <<recovered, rec>>
    /\ UNCHANGED <<owner, started, discarded, acked, outcome>>
    /\ UNCHANGED <<turnVars, host, dir, jobBoot, marked, lock, wireVars, guestVars, ws, bootVars>>

RecoverClear(c) ==
    /\ Doing(c, "receipt") /\ Then(c, "clear")
    /\ marked' = marked \ {c}
    /\ UNCHANGED <<turnVars, host, jobVars, lock, wireVars, guestVars, ws, bootVars>>

RecoverAck(c) ==
    /\ Doing(c, "clear") /\ Then(c, "proved")
    /\ Acknowledge(c)
    /\ UNCHANGED <<turnVars, host, marked, lock, wireVars, guestVars, ws, bootVars>>

\* reconcile_command_custody: it repeats the stop proof in its transaction.
Reconcile(c) ==
    /\ Doing(c, "proved") /\ Then(c, "off")
    /\ OwnerGone(c) /\ held[c] = "yes"
    /\ held' = [held EXCEPT ![c] = "cleared"]
    /\ UNCHANGED <<phase, tool, cancelled, said, host, jobVars, marked, lock>>
    /\ UNCHANGED <<wireVars, guestVars, ws, bootVars>>

RecoverDies(c) ==
    /\ ~Doing(c, "off") /\ Then(c, "off")
    /\ UNCHANGED <<hostVars, wireVars, guestVars, ws, bootVars>>

\* recover_run, by the owner or at the start of another xcb.
RecoverRun(c) ==
    /\ Doing(c, "off") /\ OwnerGone(c) /\ held[c] # "yes"
    /\ phase' = [phase EXCEPT ![c] = "uncertain"]
    /\ UNCHANGED <<held, tool, cancelled, said, host, jobVars, marked, lock>>
    /\ UNCHANGED <<wireVars, guestVars, ws, rec, bootVars>>

\* prune_joined_jobs.  A receipt that is days old is not of a command that its
\* owner, or a recovery, is still busy with.
Prune(c) ==
    /\ lock = None /\ dir[c] = "jobs" /\ c \notin marked
    /\ JobState(c) = "joined" /\ JoinedReceipt(c)
    /\ c \in started => c \in acked
    /\ host[c] \in {"dead", "ended"} /\ Doing(c, "off")
    /\ dir' = [dir EXCEPT ![c] = "archive"]
    /\ UNCHANGED <<turnVars, host, jobBoot, fileVars, marked, lock>>
    /\ UNCHANGED <<wireVars, guestVars, ws, rec, bootVars>>

-----------------------------------------------------------------------------
Call(c) ==
    \/ Begin(c) \/ Prepare(c) \/ Abandon(c) \/ Record(c) \/ Own(c) \/ Admit(c)
    \/ Busy(c) \/ Check(c) \/ Mark(c) \/ Start(c) \/ Send(c) \/ Cancel(c) \/ Tell(c)
    \/ Answered(c) \/ Unanswered(c) \/ Save(c) \/ Clear(c) \/ Ack(c)
    \/ Keep(c) \/ Publish(c) \/ Published(c) \/ Torn(c) \/ SettleTool(c)
    \/ Release(c) \/ Settle(c) \/ HostDies(c)

Guest(c) ==
    \/ Receive(c) \/ Launch(c) \/ WireBreaks(c) \/ Undelivered(c) \/ ReceiveDies(c)
    \/ RunPhase(c) \/ Drain(c) \/ Supervised(c) \/ UnitDies(c) \/ Reply(c)

Owner(c) ==
    \/ Discard(c) \/ RecoverRecorded(c) \/ RecoverStatus(c) \/ RecoverClear(c)
    \/ RecoverAck(c) \/ Reconcile(c) \/ RecoverDies(c) \/ RecoverRun(c) \/ Prune(c)

Next == Reboot \/ Refresh \/ \E c \in Commands : Call(c) \/ Guest(c) \/ Owner(c)

Spec == Init /\ [][Next]_vars

-----------------------------------------------------------------------------
Phases == {"idle", "running", "settled", "uncertain"}
Holding == {"check", "mark", "start", "send", "wait", "save", "clear", "ack"}
Steps == {"off", "prepare", "record", "own", "admit", "publish", "publishing", "settle",
          "release", "done", "held", "ended", "dead"} \cup Holding

\* The variables have their types, and the admission lock is held by exactly
\* the process that is between its admission and the end of execute_owned.
TypeOK ==
    /\ phase \in [Commands -> Phases] /\ held \in [Commands -> {"no", "yes", "cleared"}]
    /\ tool \in [Commands -> {"none", "open", "settled"}]
    /\ said \in [Commands -> {"none", "kept", "published"}]
    /\ host \in [Commands -> Steps]
    /\ dir \in [Commands -> {"none", "jobs", "archive"}]
    /\ jobBoot \in [Commands -> 0 .. MaxBoots]
    /\ outcome \in [Commands -> {"none", "open", "joined"}]
    /\ \A S \in {cancelled, owner, started, raw, discarded, acked, recovered, marked,
                 flying, recv, alive, told, ok} : S \subseteq Commands
    /\ \A c \in Commands : host[c] \in Holding <=> lock = c
    /\ lock \in Commands \cup {None}
    /\ wire \in [Commands -> {"none", "wait", "answer", "failed"}]
    /\ unit \in [Commands -> {"none", "dir", "unit", "phase", "done", "failed", "cut"}]
    /\ result \in [Commands -> {"none", "joined", "open", "unstarted"}]
    /\ ws \in [Commands -> {"untouched", "partial", "written"}]
    /\ rec \in [Commands -> {"off", "receipt", "clear", "proved"}]
    /\ boot \in 0 .. MaxBoots /\ pinned \in 0 .. MaxBoots

-----------------------------------------------------------------------------
\* Something of the command runs, or may still start to.
Live == {c \in Commands : \/ c \in flying /\ jobBoot[c] = boot
                          \/ c \in recv /\ unit[c] = "dir"
                          \/ unit[c] = "unit" \/ c \in alive}

Stage(c) == CASE held[c] = "no" -> "idle"
              [] held[c] = "cleared" -> "free"
              [] OTHER -> IF c \notin started THEN "held"
                          ELSE IF JoinedReceipt(c) THEN "stopped" ELSE "out"

Custody == INSTANCE GuestJobs WITH cmd <- [c \in Commands |-> Stage(c)], live <- Live

\* A turn lets go of its command only when nothing of it runs or can still
\* start in the guest, and one command at a time is out without the proof
\* that it joined: through the death of the host, of the transport, of the
\* unit and of the guest, late requests, and recovery from other processes.
JobSpec == Custody!Spec

\* A turn that settles has told its worker the truth about the edits of its
\* command, a half written batch never ends as a settled turn, and only a
\* command that the guest saw exit well has edits in the worktree.
EditsAccounted == \A c \in Commands :
    /\ ws[c] # "untouched" => c \in raw \cap ok /\ result[c] = "joined"
    /\ phase[c] = "settled" =>
           /\ ws[c] # "partial"
           /\ ws[c] = "written" <=> said[c] = "published"
           /\ tool[c] = "settled"

\* While it is unknown how a command ended, the backend manifest still names
\* the boot of the guest that it was sent to, so xcb recover, which asks only
\* the guest of that boot, can ask: although the guest restarts, the setup names
\* its new boot from another program, and a command is prepared before it has
\* the admission lock.
OutIsPinned == \A c \in Commands :
    c \in started /\ ~JoinedReceipt(c) => jobBoot[c] = pinned
=============================================================================
