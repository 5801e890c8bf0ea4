------------------------------ MODULE Project ------------------------------
(***************************************************************************)
(* Work that a project grant lets the supervisor start by itself, in one   *)
(* workspace: the children of ALGAL programs and daemons, and proposals    *)
(* (xcb-runtime/src/managed_project.rs, managed_program_state.rs and       *)
(* managed_daemon.rs).                                                     *)
(*                                                                         *)
(* A program is a task whose slices run without a provider.  A slice that  *)
(* asks for work ends, the supervisor publishes the call's child and the   *)
(* program waits without a worker; a settled child resumes it.  A daemon   *)
(* is a process of the ALGAL store that suspends in the same way on a      *)
(* mailbox of its own, and the supervisor nudges it.  The supervisor is    *)
(* one thread and every write commits against the rows it has read; the    *)
(* owner's commands run in other processes.                                *)
(***************************************************************************)
EXTENDS Naturals, FiniteSets

CONSTANTS
    Programs,   \* program tasks
    Daemons,    \* named daemons
    Proposals,  \* deferred tasks that workers may propose
    None,       \* no caller
    MaxCalls,   \* calls a program or daemon may make (managed_calls, agent_calls)
    Budget,     \* tasks one grant may admit (max_tasks)
    MaxGens,    \* bound: grants configured
    MaxUsers,   \* bound: writes of the owner
    MaxCrashes  \* bound: crashes and failed mailbox writes

ASSUME BoundsAssumption ==
    /\ {MaxCalls, Budget, MaxGens, MaxUsers, MaxCrashes} \subseteq Nat
    /\ None \notin Programs \cup Daemons /\ Programs \cap Daemons = {}

VARIABLES
    \* the policy row of the workspace
    gen, enabled, live, used,
    \* the rows of the programs: state, cancel_requested, whether the
    \* checkpoint waits, the check that held it, the generation pinned
    prog, cancel, waits, hold, pinned,
    \* program_executions: the calls made, the call waited for
    calls, awaits,
    \* the worker of a program: its slice, or what it returned
    slice,
    \* daemon_meta and the head of the process record: its state, whether it
    \* is stopped, the request it is suspended on (0 is the inbox)
    daemon, stopped, on,
    intents,  \* the requests recorded in daemon_calls
    nudges,   \* daemons with a message in their wake mailbox
    mail,     \* daemons with a message in their inbox mailbox
    \* the rows of the children, one for each call: state, cancel_requested,
    \* the session and the attempts kept, the run of the last turn, whether
    \* the owner dismissed it, the generation it was admitted under
    child, revoked, session, tried, run, dismissed, born,
    results,  \* the calls whose row has a result
    \* the rows of the proposals: state, generation, whether admitted
    prop, offered, admitted,
    other,    \* whether other work of the workspace is open; the proposals'
              \* parent is such work
    op,       \* what the supervisor is in the middle of
    dirty,    \* the rows written since it read them
    users, crashes

grantVars == <<gen, enabled, live, used>>
rowVars == <<prog, cancel, waits, hold, pinned>>
execVars == <<calls, awaits>>
progVars == <<rowVars, execVars, slice>>
recordVars == <<daemon, stopped, on>>
daemonVars == <<recordVars, intents, nudges, mail>>
childVars == <<child, revoked, session, tried, run, dismissed, born>>
propVars == <<prop, offered, admitted>>
ownVars == <<propVars, other>>
bounds == <<users, crashes>>
opVars == <<op, dirty, bounds>>
vars == <<grantVars, progVars, daemonVars, childVars, results, ownVars, opVars>>

Callers == Programs \cup Daemons
Call == Callers \X (1 .. MaxCalls)

Idle == [kind |-> "idle", at |-> None]

Init ==
    /\ gen = 0 /\ enabled = FALSE /\ live = FALSE /\ used = 0
    /\ prog = [p \in Programs |-> "absent"]
    /\ cancel = [p \in Programs |-> FALSE]
    /\ waits = [p \in Programs |-> FALSE]
    /\ hold = [p \in Programs |-> "none"]
    /\ pinned = [p \in Programs |-> 0]
    /\ calls = [p \in Programs |-> 0]
    /\ awaits = [p \in Programs |-> 0]
    /\ slice = [p \in Programs |-> "off"]
    /\ daemon = [d \in Daemons |-> "absent"]
    /\ stopped = [d \in Daemons |-> FALSE]
    /\ on = [d \in Daemons |-> 0]
    /\ intents = {} /\ nudges = {} /\ mail = {}
    /\ child = [c \in Call |-> "absent"]
    /\ revoked = [c \in Call |-> FALSE]
    /\ session = [c \in Call |-> FALSE]
    /\ tried = [c \in Call |-> FALSE]
    /\ run = [c \in Call |-> "none"]
    /\ dismissed = [c \in Call |-> FALSE]
    /\ born = [c \in Call |-> 0]
    /\ results = {}
    /\ prop = [x \in Proposals |-> "absent"]
    /\ offered = [x \in Proposals |-> 0]
    /\ admitted = [x \in Proposals |-> FALSE]
    /\ other = FALSE
    /\ op = Idle /\ dirty = {} /\ users = 0 /\ crashes = 0

-----------------------------------------------------------------------------
(* The rows as the guards of the code see them.                            *)

Closed == {"completed", "failed", "cancelled"}
Open == {"queued", "running", "input", "uncertain"}

\* child_settlement: a closed child that no run holds and whose last outcome,
\* if it has to have one, is certain.
Settles(c) ==
    /\ child[c] \in Closed /\ run[c] # "live"
    /\ \/ child[c] = "failed" /\ dismissed[c]
       \/ session[c] /\ run[c] # "unsure" /\ (child[c] = "completed" => run[c] = "clean")
       \/ ~session[c] /\ ~tried[c] /\ child[c] # "completed"

\* A grant of another generation serves as well.
BadGrantHolds(g, budget) ==
    enabled /\ live /\ (budget => used < Budget)

\* require_grant
GrantHolds(g, budget) ==
    /\ enabled /\ live /\ g = gen
    /\ budget => used < Budget

\* no_other_work, no_outstanding_in: nothing else in the workspace is open.
\* t is a program, a proposal, or None.
Alone(t) ==
    /\ ~other
    /\ \A p \in Programs \ {t} : prog[p] \notin Open
    /\ \A c \in Call : child[c] \notin Open
    /\ \A x \in Proposals \ {t} : prop[x] \notin Open

\* workspace_busy: a run of the workspace is not settled.
Busy == \E c \in Call : run[c] = "live"

\* The revision check of transition_ui, and the comparisons of whole rows.
Fresh(t) == t \notin dirty

\* A write by another process while the supervisor may hold what it read.
Touches(t) ==
    /\ dirty' = IF op = Idle THEN dirty ELSE dirty \cup {t}
    /\ UNCHANGED <<op, crashes>>
\* Those of the owner are counted.
Writes(t) == users < MaxUsers /\ users' = users + 1 /\ Touches(t)

\* A step of the supervisor's thread.
Free == op = Idle
Begin(kind, o) ==
    /\ Free
    /\ op' = [kind |-> kind, at |-> o]
    /\ dirty' = {}
    /\ UNCHANGED bounds
In(kind, o) == op = [kind |-> kind, at |-> o]
Done == op' = Idle /\ dirty' = {} /\ UNCHANGED bounds

-----------------------------------------------------------------------------
(* The grant: managed_project.rs.  Every write checks the revision it was  *)
(* given, so it is one step.                                               *)

\* configure_project_policy_in: a new generation with a budget of its own.
Configure ==
    /\ gen < MaxGens
    /\ gen' = gen + 1 /\ enabled' = TRUE /\ live' = TRUE /\ used' = 0
    /\ Writes(<<"grant">>)
    /\ UNCHANGED <<progVars, daemonVars, childVars, results, ownVars>>

\* set_project_policy_enabled_in
SetEnabled ==
    /\ gen > 0
    /\ enabled' = ~enabled /\ UNCHANGED <<gen, live, used>>
    /\ Writes(<<"grant">>)
    /\ UNCHANGED <<progVars, daemonVars, childVars, results, ownVars>>

\* expires_at_ms passes; no row is written.
Expire ==
    /\ live
    /\ live' = FALSE /\ UNCHANGED <<gen, enabled, used>>
    /\ UNCHANGED <<progVars, daemonVars, childVars, results, ownVars, opVars>>

\* The part of every admission that writes the policy.
Admitted == used' = used + 1 /\ UNCHANGED <<gen, enabled, live>>

-----------------------------------------------------------------------------
(* Other work of the workspace, and proposals.                             *)

\* The owner's own tasks, seen only as open or not.
OtherOpens ==
    /\ ~other /\ other' = TRUE
    /\ Writes(<<"other">>)
    /\ UNCHANGED <<grantVars, progVars, daemonVars, childVars, results, propVars>>

OtherCloses ==
    /\ other /\ other' = FALSE
    /\ UNCHANGED <<grantVars, progVars, daemonVars, childVars, results, propVars, opVars>>

\* xcb_backlog_add by a worker under the grant.
Propose(x) ==
    /\ other /\ prop[x] = "absent" /\ enabled /\ live
    /\ prop' = [prop EXCEPT ![x] = "deferred"]
    /\ offered' = [offered EXCEPT ![x] = gen]
    /\ UNCHANGED admitted
    /\ Touches(<<x>>) /\ UNCHANGED users
    /\ UNCHANGED <<grantVars, progVars, daemonVars, childVars, results, other>>

\* release_backlog, complete_backlog_inner: the owner's word needs no grant.
Backlog(x, to) ==
    /\ prop[x] = "deferred"
    /\ prop' = [prop EXCEPT ![x] = to] /\ UNCHANGED <<offered, admitted>>
    /\ Writes(<<x>>)
    /\ UNCHANGED <<grantVars, progVars, daemonVars, childVars, results, other>>

\* tick_projects finds a candidate ...
AdmitBegin(x) ==
    /\ Begin("admit", x)
    /\ enabled /\ live /\ used < Budget
    /\ prop[x] = "deferred" /\ offered[x] = gen
    /\ UNCHANGED <<grantVars, progVars, daemonVars, childVars, results, ownVars>>

\* ... and ProjectAdmission::check_and_record admits it, unless the hourly
\* window is spent or the provider it asks for differs: then it is asked.
AdmitCommit(x) ==
    /\ In("admit", x) /\ Done
    /\ IF /\ Fresh(<<x>>) /\ Fresh(<<"grant">>)
          /\ GrantHolds(offered[x], TRUE) /\ Alone(x)
       THEN \/ /\ prop' = [prop EXCEPT ![x] = "queued"]
               /\ admitted' = [admitted EXCEPT ![x] = TRUE]
               /\ Admitted
            \/ prop' = [prop EXCEPT ![x] = "input"] /\ UNCHANGED <<admitted, grantVars>>
            \/ UNCHANGED <<propVars, grantVars>>
       ELSE UNCHANGED <<propVars, grantVars>>
    /\ UNCHANGED <<offered, progVars, daemonVars, childVars, results, other>>

\* The proposal runs and closes as any task does; check_dispatch asks for the
\* grant of an admitted one.
Proposed(x) ==
    /\ Free
    /\ \/ /\ prop[x] = "queued" /\ (admitted[x] => GrantHolds(offered[x], FALSE))
          /\ ~Busy
          /\ prop' = [prop EXCEPT ![x] = "running"]
       \/ prop[x] \in {"running", "input"} /\ prop' = [prop EXCEPT ![x] = "completed"]
    /\ UNCHANGED <<offered, admitted, other, opVars>>
    /\ UNCHANGED <<grantVars, progVars, daemonVars, childVars, results>>

-----------------------------------------------------------------------------
(* Programs: managed_program_state.rs.                                     *)

\* check_creation: the grant in force is pinned for good.
Submit(p) ==
    /\ prog[p] = "absent"
    /\ GrantHolds(gen, TRUE) /\ Alone(p)
    /\ prog' = [prog EXCEPT ![p] = "queued"]
    /\ pinned' = [pinned EXCEPT ![p] = gen]
    /\ UNCHANGED <<cancel, waits, hold>>
    /\ Writes(<<p>>)
    /\ UNCHANGED <<grantVars, execVars, slice, daemonVars, childVars, results, ownVars>>

CancelProgram(p) ==
    /\ prog[p] \in Open /\ ~cancel[p]
    /\ cancel' = [cancel EXCEPT ![p] = TRUE] /\ UNCHANGED <<prog, waits, hold, pinned>>
    /\ Writes(<<p>>)
    /\ UNCHANGED <<grantVars, execVars, slice, daemonVars, childVars, results, ownVars>>

\* settle_unstarted_cancel, which passes over a waiting program.
CancelQueued(p) ==
    /\ Free /\ prog[p] = "queued" /\ cancel[p] /\ ~waits[p]
    /\ prog' = [prog EXCEPT ![p] = "cancelled"]
    /\ cancel' = [cancel EXCEPT ![p] = FALSE]
    /\ UNCHANGED <<waits, hold, pinned>>
    /\ UNCHANGED <<grantVars, execVars, slice, daemonVars, childVars, results, ownVars, opVars>>

\* launch: check_dispatch repeats the check that held the program.  The
\* hourly window is an input.
Launch(p) ==
    /\ Free /\ prog[p] = "queued" /\ ~cancel[p] /\ ~waits[p]
    /\ GrantHolds(pinned[p], hold[p] = "budget") /\ ~Busy
    /\ hold[p] = "busy" => Alone(p)
    /\ prog' = [prog EXCEPT ![p] = "running"] /\ hold' = [hold EXCEPT ![p] = "none"]
    /\ slice' = [slice EXCEPT ![p] = "running"]
    /\ UNCHANGED <<cancel, waits, pinned, execVars>>
    /\ UNCHANGED <<grantVars, daemonVars, childVars, results, ownVars, opVars>>

\* note: the reason that now defers the launch replaces the one kept.
Deferred(p) ==
    /\ Free /\ prog[p] = "queued" /\ ~cancel[p] /\ ~waits[p]
    /\ ~GrantHolds(pinned[p], FALSE) /\ hold[p] # "none"
    /\ hold' = [hold EXCEPT ![p] = "none"]
    /\ UNCHANGED <<prog, cancel, waits, pinned, execVars, slice>>
    /\ UNCHANGED <<grantVars, daemonVars, childVars, results, ownVars, opVars>>

\* AdmittedProgram::step returns: a call, the report, or an error.
SliceEnds(p, out) ==
    /\ slice[p] = "running"
    /\ slice' = [slice EXCEPT ![p] = out]
    /\ UNCHANGED <<grantVars, rowVars, execVars, daemonVars, childVars, results, ownVars, opVars>>

\* finish_program_slice and finish_program, where the slice needs no child.
\* A call beyond the declared number fails the program.
Finish(p) ==
    /\ Free /\ slice[p] \in {"call", "report", "error"}
    /\ \/ /\ cancel[p]
          /\ prog' = [prog EXCEPT ![p] = "cancelled"]
       \/ /\ ~cancel[p]
          /\ \/ slice[p] = "error"
             \/ slice[p] = "call" /\ calls[p] = MaxCalls
          /\ prog' = [prog EXCEPT ![p] = "failed"]
       \/ /\ ~cancel[p] /\ slice[p] = "report"
          /\ prog' = [prog EXCEPT ![p] = "completed"]
    /\ slice' = [slice EXCEPT ![p] = "off"]
    /\ UNCHANGED <<cancel, waits, hold, pinned>>
    /\ UNCHANGED <<grantVars, execVars, daemonVars, childVars, results, ownVars, opVars>>

\* hold_program
Hold(p, why) ==
    /\ prog' = [prog EXCEPT ![p] = "queued"] /\ hold' = [hold EXCEPT ![p] = why]
    /\ UNCHANGED <<cancel, waits, pinned>>
    /\ slice' = [slice EXCEPT ![p] = "off"]

AuthorityHold(p) ==
    IF GrantHolds(pinned[p], FALSE) THEN "budget" ELSE "none"

\* finish_program_slice with a call: the grant is read ...
PublishBegin(p) ==
    /\ slice[p] = "call" /\ ~cancel[p] /\ calls[p] < MaxCalls
    /\ IF GrantHolds(pinned[p], TRUE)
       THEN Begin("publish", p) /\ UNCHANGED <<rowVars, slice>>
       ELSE Free /\ Hold(p, AuthorityHold(p)) /\ UNCHANGED <<opVars>>
    /\ UNCHANGED <<grantVars, execVars, daemonVars, childVars, results, ownVars>>

\* A new row has neither run nor session.
Born(c, g, at) ==
    /\ child' = [child EXCEPT ![c] = at] /\ born' = [born EXCEPT ![c] = g]
    /\ UNCHANGED <<revoked, session, tried, run, dismissed>>

\* The parent is not marked as waiting.
BadPublish(p, at) ==
    /\ Born(<<p, calls[p] + 1>>, pinned[p], at)
    /\ Admitted
    /\ calls' = [calls EXCEPT ![p] = @ + 1] /\ awaits' = [awaits EXCEPT ![p] = calls[p] + 1]
    /\ prog' = [prog EXCEPT ![p] = "queued"] /\ UNCHANGED waits
    /\ slice' = [slice EXCEPT ![p] = "off"]
    /\ UNCHANGED <<cancel, hold, pinned>>

\* Change::Publish: child, policy, call and checkpoint in one transaction.
\* A child whose prompt asks for another provider begins with a question.
Publish(p, at) ==
    /\ Born(<<p, calls[p] + 1>>, pinned[p], at)
    /\ Admitted
    /\ calls' = [calls EXCEPT ![p] = @ + 1] /\ awaits' = [awaits EXCEPT ![p] = calls[p] + 1]
    /\ prog' = [prog EXCEPT ![p] = "queued"] /\ waits' = [waits EXCEPT ![p] = TRUE]
    /\ slice' = [slice EXCEPT ![p] = "off"]
    /\ UNCHANGED <<cancel, hold, pinned>>

\* ... and the publication commits, is held, or meets a changed row and is
\* recorded again later.
PublishCommit(p) ==
    /\ In("publish", p) /\ Done
    /\ IF ~Fresh(<<p>>)
       THEN UNCHANGED <<progVars, childVars, grantVars>>
       ELSE IF ~GrantHolds(pinned[p], TRUE) \/ ~Fresh(<<"grant">>)
       THEN Hold(p, AuthorityHold(p)) /\ UNCHANGED <<execVars, childVars, grantVars>>
       ELSE \/ Hold(p, "hour") /\ UNCHANGED <<execVars, childVars, grantVars>>
            \/ ~Alone(p) /\ Hold(p, "busy") /\ UNCHANGED <<execVars, childVars, grantVars>>
            \/ Alone(p) /\ \E at \in {"queued", "input"} : Publish(p, at)
    /\ UNCHANGED <<daemonVars, results, ownVars>>

Awaited(p) == <<p, awaits[p]>>

\* cancel_requested of a child's row is set.
Revoke(c) ==
    /\ revoked' = [revoked EXCEPT ![c] = TRUE]
    /\ UNCHANGED <<child, session, tried, run, dismissed, born>>

\* tick_program of a cancelled parent: first the child is cancelled ...
CancelChild(p) ==
    /\ Free /\ waits[p] /\ cancel[p]
    /\ child[Awaited(p)] \in Open \ {"uncertain"} /\ ~revoked[Awaited(p)]
    /\ Revoke(Awaited(p))
    /\ UNCHANGED <<grantVars, progVars, daemonVars, results, ownVars, opVars>>

\* ... and the parent closes once it settles; a child that did not complete,
\* or whose report is empty, fails its parent.
CloseParent(p) ==
    /\ Free /\ waits[p] /\ Settles(Awaited(p))
    /\ cancel[p] \/ GrantHolds(pinned[p], FALSE)
    /\ prog' = [prog EXCEPT ![p] = IF cancel[p] THEN "cancelled" ELSE "failed"]
    /\ cancel' = [cancel EXCEPT ![p] = FALSE] /\ waits' = [waits EXCEPT ![p] = FALSE]
    /\ UNCHANGED <<hold, pinned>>
    /\ UNCHANGED <<grantVars, execVars, slice, daemonVars, childVars, results, ownVars, opVars>>

\* A child that failed resumes its parent too.
BadResumeBegin(p) ==
    /\ waits[p] /\ ~cancel[p] /\ GrantHolds(pinned[p], FALSE)
    /\ Settles(Awaited(p))
    /\ Begin("resume", p)
    /\ UNCHANGED <<grantVars, progVars, daemonVars, childVars, results, ownVars>>

ResumeBegin(p) ==
    /\ waits[p] /\ ~cancel[p] /\ GrantHolds(pinned[p], FALSE)
    /\ Settles(Awaited(p)) /\ child[Awaited(p)] = "completed"
    /\ Begin("resume", p)
    /\ UNCHANGED <<grantVars, progVars, daemonVars, childVars, results, ownVars>>

\* Change::Resume compares the child's whole row with the one that settled.
ResumeCommit(p) ==
    /\ In("resume", p) /\ Done
    /\ IF Fresh(<<p>>) /\ Fresh(Awaited(p)) /\ GrantHolds(pinned[p], FALSE)
       THEN /\ results' = results \cup {Awaited(p)}
            /\ awaits' = [awaits EXCEPT ![p] = 0]
            /\ waits' = [waits EXCEPT ![p] = FALSE]
       ELSE UNCHANGED <<waits, awaits, results>>
    /\ UNCHANGED <<prog, cancel, hold, pinned, calls, slice>>
    /\ UNCHANGED <<grantVars, daemonVars, childVars, ownVars>>

-----------------------------------------------------------------------------
(* Daemons: managed_daemon.rs.                                             *)

\* enqueue_daemon_at: mailboxes and process record, then the metadata row.
Enqueue(d) ==
    /\ daemon[d] = "absent"
    /\ daemon' = [daemon EXCEPT ![d] = "ready"] /\ UNCHANGED <<stopped, on>>
    /\ Writes(<<d>>)
    /\ UNCHANGED <<grantVars, progVars, intents, nudges, mail, childVars, results, ownVars>>

\* daemon_send
Send(d) ==
    /\ daemon[d] # "absent" /\ ~stopped[d] /\ d \notin mail
    /\ mail' = mail \cup {d}
    /\ Writes(<<d>>)
    /\ UNCHANGED <<grantVars, progVars, recordVars, intents, nudges, childVars, results, ownVars>>

\* daemon_stop
Stop(d) ==
    /\ daemon[d] # "absent" /\ ~stopped[d]
    /\ stopped' = [stopped EXCEPT ![d] = TRUE] /\ UNCHANGED <<daemon, on>>
    /\ Writes(<<d>>)
    /\ UNCHANGED <<grantVars, progVars, intents, nudges, mail, childVars, results, ownVars>>

\* The request the process is suspended on: pending_request.
Pending(d) == <<d, on[d]>>
Suspended(d) == daemon[d] = "suspended" /\ on[d] > 0
Serviced(d) == daemon[d] # "absent" /\ ~stopped[d]

\* pump_daemon of a stopped daemon cancels the child of its pending call.
CancelRequested(d) ==
    /\ Free /\ stopped[d] /\ Suspended(d)
    /\ Pending(d) \notin results
    /\ child[Pending(d)] \in Open \ {"uncertain"} /\ ~revoked[Pending(d)]
    /\ Revoke(Pending(d))
    /\ UNCHANGED <<grantVars, progVars, daemonVars, results, ownVars, opVars>>

\* publish_daemon_child reads the grant; whether the daemon still runs is not
\* asked again.
RequestBegin(d) ==
    /\ Serviced(d) /\ Suspended(d)
    /\ child[Pending(d)] = "absent" /\ GrantHolds(gen, TRUE)
    /\ Begin("request", d)
    /\ UNCHANGED <<grantVars, progVars, daemonVars, childVars, results, ownVars>>

RequestCommit(d) ==
    /\ In("request", d) /\ Done
    /\ IF GrantHolds(gen, TRUE) /\ Fresh(<<"grant">>)
       THEN \/ \E at \in {"queued", "input"} :
                  Born(Pending(d), gen, at) /\ Admitted
            \/ UNCHANGED <<childVars, grantVars>>
       ELSE UNCHANGED <<childVars, grantVars>>
    /\ UNCHANGED <<progVars, daemonVars, results, ownVars>>

\* The child is seen settled ...
ResultBegin(d) ==
    /\ Serviced(d) /\ Suspended(d) /\ Pending(d) \notin results
    /\ Settles(Pending(d))
    /\ Begin("result", d)
    /\ UNCHANGED <<grantVars, progVars, daemonVars, childVars, results, ownVars>>

\* ... its result is written, against no row of the child ...
ResultCommit(d) ==
    /\ In("result", d)
    /\ results' = results \cup {Pending(d)}
    /\ op' = [kind |-> "nudge", at |-> d]
    /\ UNCHANGED <<grantVars, progVars, daemonVars, childVars, ownVars, dirty, bounds>>

\* ... and the wake mailbox gets its nudge, in a write of its own.
Nudge(d) ==
    /\ In("nudge", d) /\ Done
    /\ nudges' = nudges \cup {d}
    /\ UNCHANGED <<grantVars, progVars, recordVars, intents, mail, childVars, results, ownVars>>

\* tick_journal leaves an intent that reads as uncertain while the program
\* runs.  A suspension on a request waits for a nudge, one on the inbox for
\* mail.
TickBegin(d) ==
    /\ Serviced(d)
    /\ \/ daemon[d] = "ready"
       \/ Suspended(d) /\ d \in nudges
       \/ daemon[d] = "suspended" /\ on[d] = 0 /\ d \in mail
    /\ Begin("tick", d)
    /\ daemon' = [daemon EXCEPT ![d] = "uncertain"] /\ UNCHANGED <<stopped, on>>
    /\ UNCHANGED <<grantVars, progVars, intents, nudges, mail, childVars, results, ownVars>>

\* daemon_recover: the owner replays the exact intent.
Recover(d) ==
    /\ daemon[d] = "uncertain"
    /\ Begin("tick", d)
    /\ UNCHANGED <<grantVars, progVars, daemonVars, childVars, results, ownVars>>

\* The next effect of the program.  A request without a recorded result is
\* asked again.
NextRequest(d) == Cardinality({i \in 1 .. MaxCalls : <<d, i>> \in results}) + 1

\* The intent is not recorded.
BadExecute(d) ==
    /\ In("tick", d)
    /\ NextRequest(d) =< MaxCalls
    /\ nudges' = nudges \ {d}
    /\ op' = [kind |-> "suspend", at |-> d]
    /\ UNCHANGED <<recordVars, intents, mail, dirty, bounds>>
    /\ UNCHANGED <<grantVars, progVars, childVars, results, ownVars>>

\* DaemonExecutor::execute drains the wake mailbox; a settled request goes on
\* with its result, another records its intent and suspends.
Execute(d) ==
    /\ In("tick", d)
    /\ NextRequest(d) =< MaxCalls
    /\ nudges' = nudges \ {d}
    /\ intents' = intents \cup {<<d, NextRequest(d)>>}
    /\ op' = [kind |-> "suspend", at |-> d]
    /\ UNCHANGED <<recordVars, mail, dirty, bounds>>
    /\ UNCHANGED <<grantVars, progVars, childVars, results, ownVars>>

Suspend(d) ==
    /\ In("suspend", d) /\ Done
    /\ daemon' = [daemon EXCEPT ![d] = "suspended"]
    /\ on' = [on EXCEPT ![d] = NextRequest(d)] /\ UNCHANGED stopped
    /\ UNCHANGED <<grantVars, progVars, intents, nudges, mail, childVars, results, ownVars>>

\* The program receives from its inbox and suspends on it, or ends; a request
\* in flight is executed first.
TickEnds(d) ==
    /\ In("tick", d) /\ Done
    /\ <<d, NextRequest(d)>> \notin intents
    /\ nudges' = IF on[d] > 0 THEN nudges \ {d} ELSE nudges
    /\ mail' = mail \ {d}
    /\ \E at \in {"suspended", "terminal"} : daemon' = [daemon EXCEPT ![d] = at]
    /\ on' = [on EXCEPT ![d] = 0] /\ UNCHANGED stopped
    /\ UNCHANGED <<grantVars, progVars, intents, childVars, results, ownVars>>

-----------------------------------------------------------------------------
(* The children, as the supervisor and the store move any task.            *)

Others == UNCHANGED <<grantVars, progVars, daemonVars, results, ownVars>>

\* A child whose result is recorded may run again.
BadMayDispatch(c) ==
    /\ GrantHolds(born[c], FALSE)
    /\ IF c[1] \in Programs
       THEN /\ waits[c[1]] /\ ~cancel[c[1]] /\ prog[c[1]] \in Open
            /\ awaits[c[1]] = c[2]
       ELSE ~stopped[c[1]]

\* check_dispatch for a child of a program, and check_child_dispatch.
MayDispatch(c) ==
    /\ GrantHolds(born[c], FALSE) /\ c \notin results
    /\ IF c[1] \in Programs
       THEN /\ waits[c[1]] /\ ~cancel[c[1]] /\ prog[c[1]] \in Open
            /\ awaits[c[1]] = c[2]
       ELSE ~stopped[c[1]]

\* launch and prepare
Dispatch(c) ==
    /\ Free /\ child[c] = "queued" /\ ~revoked[c]
    /\ MayDispatch(c) /\ ~Busy
    /\ child' = [child EXCEPT ![c] = "running"]
    /\ session' = [session EXCEPT ![c] = TRUE] /\ run' = [run EXCEPT ![c] = "live"]
    /\ UNCHANGED <<revoked, tried, dismissed, born>>
    /\ Others /\ UNCHANGED <<opVars>>

RunIs(c, to) ==
    /\ run' = [run EXCEPT ![c] = to]
    /\ UNCHANGED <<child, revoked, session, tried, dismissed, born>>

\* The worker settles its run: completed, otherwise known, or uncertain.
RunSettles(c, to) ==
    /\ run[c] = "live" /\ child[c] = "running"
    /\ RunIs(c, to)
    /\ Others /\ UNCHANGED <<opVars>>

Becomes(c, at) ==
    /\ child' = [child EXCEPT ![c] = at]
    /\ UNCHANGED <<revoked, session, tried, run, dismissed, born>>

\* It is queued again, and its attempts may be kept.
Again(c, kept) ==
    /\ child' = [child EXCEPT ![c] = "queued"] /\ tried' = [tried EXCEPT ![c] = kept]
    /\ UNCHANGED <<revoked, dismissed, born>>

\* finish_ref: an uncertain or unsettled run leaves the child uncertain; a
\* failover drops the session and may keep the attempts already spent.
Record(c) ==
    /\ Free /\ child[c] = "running"
    /\ \/ run[c] \in {"live", "unsure"} /\ Becomes(c, "uncertain")
       \/ run[c] \in {"clean", "bad"} /\ revoked[c] /\ Becomes(c, "cancelled")
       \/ run[c] = "clean" /\ ~revoked[c] /\ Becomes(c, "completed")
       \/ run[c] = "bad" /\ ~revoked[c] /\ \E at \in {"failed", "input"} : Becomes(c, at)
       \/ /\ run[c] \in {"clean", "bad"} /\ ~revoked[c]
          /\ Again(c, TRUE) /\ UNCHANGED <<session, run>>
       \/ /\ run[c] = "bad" /\ ~revoked[c]
          /\ \E kept \in {TRUE, tried[c]} : Again(c, kept)
          /\ session' = [session EXCEPT ![c] = FALSE] /\ run' = [run EXCEPT ![c] = "none"]
    /\ Others /\ UNCHANGED opVars

\* settle_unstarted_cancel, and fail_unstarted of a launch.
CloseUnstarted(c) ==
    /\ Free
    /\ \/ /\ child[c] \in {"queued", "input"} /\ revoked[c]
          /\ child' = [child EXCEPT ![c] = "cancelled"]
          /\ revoked' = [revoked EXCEPT ![c] = FALSE]
          /\ UNCHANGED <<session, tried, run, dismissed, born>>
       \/ /\ child[c] = "queued" /\ ~revoked[c] /\ MayDispatch(c)
          /\ Becomes(c, "failed")
    /\ Others /\ UNCHANGED <<opVars>>

\* recover_run after the worker is gone.
RecoverRun(c) ==
    /\ child[c] = "uncertain" /\ run[c] = "live"
    /\ RunIs(c, "unsure")
    /\ Others /\ UNCHANGED <<opVars>>

CancelTask(c) ==
    /\ child[c] \in Open \ {"uncertain"} /\ ~revoked[c]
    /\ Revoke(c)
    /\ Writes(c) /\ Others

\* reply_to_task: the answer starts the attempts anew.
Reply(c) ==
    /\ child[c] = "input" /\ ~revoked[c]
    /\ Again(c, FALSE) /\ UNCHANGED <<session, run>>
    /\ Writes(c) /\ Others

\* submit continues the task completed last, which may be a daemon's child.
Continue(c) ==
    /\ c[1] \in Daemons /\ child[c] = "completed"
    /\ Alone(None)
    /\ Again(c, FALSE) /\ UNCHANGED <<session, run>>
    /\ Writes(c) /\ Others

\* dismiss_uncertain_as; reconcile_uncertain on the retained outcome.
Dismiss(c) ==
    /\ child[c] = "uncertain" /\ run[c] # "live"
    /\ \/ /\ child' = [child EXCEPT ![c] = "failed"]
          /\ revoked' = [revoked EXCEPT ![c] = FALSE]
          /\ dismissed' = [dismissed EXCEPT ![c] = TRUE]
          /\ UNCHANGED <<session, tried, run, born>>
       \/ run[c] = "clean" /\ Becomes(c, "completed")
       \/ run[c] = "bad" /\ \E at \in {"failed", "input"} : Becomes(c, at)
    /\ Writes(c) /\ Others

-----------------------------------------------------------------------------

\* The supervisor's process dies: slices are lost, an ALGAL tick leaves its
\* intent, and the next supervisor queues running programs again and marks
\* children whose run is not settled.
Crash ==
    /\ crashes < MaxCrashes /\ crashes' = crashes + 1
    /\ op' = Idle /\ dirty' = {}
    /\ slice' = [p \in Programs |-> "off"]
    /\ prog' = [p \in Programs |-> IF prog[p] = "running" THEN "queued" ELSE prog[p]]
    /\ child' = [c \in Call |-> IF child[c] = "running" /\ run[c] = "live"
                                THEN "uncertain" ELSE child[c]]
    /\ UNCHANGED <<cancel, waits, hold, pinned, revoked, session, tried, run, dismissed, born>>
    /\ UNCHANGED <<grantVars, execVars, daemonVars, results, ownVars, users>>

Grant == Configure \/ SetEnabled \/ Expire
Workspace ==
    \/ OtherOpens \/ OtherCloses
    \/ \E x \in Proposals :
          \/ Propose(x) \/ AdmitBegin(x) \/ AdmitCommit(x) \/ Proposed(x)
          \/ \E to \in {"queued", "completed"} : Backlog(x, to)
Program(p) ==
    \/ Submit(p) \/ CancelProgram(p) \/ CancelQueued(p) \/ Launch(p) \/ Deferred(p)
    \/ \E out \in {"call", "report", "error"} : SliceEnds(p, out)
    \/ Finish(p) \/ PublishBegin(p) \/ PublishCommit(p) \/ CancelChild(p)
    \/ CloseParent(p) \/ ResumeBegin(p) \/ ResumeCommit(p)
Daemon(d) ==
    \/ Enqueue(d) \/ Send(d) \/ Stop(d) \/ CancelRequested(d)
    \/ RequestBegin(d) \/ RequestCommit(d) \/ ResultBegin(d) \/ ResultCommit(d)
    \/ Nudge(d) \/ TickBegin(d) \/ Recover(d) \/ Execute(d) \/ Suspend(d) \/ TickEnds(d)
Child(c) ==
    \/ Dispatch(c) \/ Record(c) \/ CloseUnstarted(c) \/ RecoverRun(c)
    \/ \E to \in {"clean", "bad", "unsure"} : RunSettles(c, to)
    \/ CancelTask(c) \/ Reply(c) \/ Continue(c) \/ Dismiss(c)

Next ==
    \/ Grant \/ Workspace \/ Crash
    \/ \E p \in Programs : Program(p)
    \/ \E d \in Daemons : Daemon(d)
    \/ \E c \in Call : Child(c)

Spec == Init /\ [][Next]_vars

-----------------------------------------------------------------------------

\* Types, and what the code asserts of its rows: a checkpoint waits exactly
\* while its task does, and only recorded requests have children and results.
TypeOK ==
    /\ gen \in Nat /\ {enabled, live, other} \subseteq BOOLEAN /\ used \in 0 .. Budget
    /\ prog \in [Programs -> Open \cup Closed \cup {"absent"}]
    /\ cancel \in [Programs -> BOOLEAN] /\ waits \in [Programs -> BOOLEAN]
    /\ hold \in [Programs -> {"none", "budget", "busy", "hour"}]
    /\ pinned \in [Programs -> Nat]
    /\ calls \in [Programs -> 0 .. MaxCalls] /\ awaits \in [Programs -> 0 .. MaxCalls]
    /\ slice \in [Programs -> {"off", "running", "call", "report", "error"}]
    /\ daemon \in [Daemons -> {"absent", "ready", "suspended", "uncertain", "terminal"}]
    /\ stopped \in [Daemons -> BOOLEAN] /\ on \in [Daemons -> 0 .. MaxCalls]
    /\ nudges \subseteq Daemons /\ mail \subseteq Daemons
    /\ intents \subseteq Call /\ results \subseteq Call
    /\ child \in [Call -> Open \cup Closed \cup {"absent"}]
    /\ revoked \in [Call -> BOOLEAN] /\ session \in [Call -> BOOLEAN]
    /\ tried \in [Call -> BOOLEAN] /\ dismissed \in [Call -> BOOLEAN]
    /\ run \in [Call -> {"none", "live", "clean", "bad", "unsure"}]
    /\ born \in [Call -> Nat]
    /\ prop \in [Proposals -> {"absent", "deferred", "queued", "running", "input", "completed"}]
    /\ offered \in [Proposals -> Nat] /\ admitted \in [Proposals -> BOOLEAN]
    /\ \A p \in Programs :
          /\ waits[p] => prog[p] = "queued" /\ awaits[p] = calls[p]
          /\ prog[p] = "running" <=> slice[p] # "off"
    /\ \A d \in Daemons : Suspended(d) => Pending(d) \in intents
    /\ \A c \in Call :
          /\ c \in results => child[c] # "absent"
          /\ c[1] \in Daemons /\ child[c] # "absent" => c \in intents

\* What the grant has spent is what was admitted under it, no admission
\* twice and none of another generation, however the owner's writes fall
\* between the reads and the commits of the supervisor.
GrantCount ==
    used =
        Cardinality({c \in Call : child[c] # "absent" /\ born[c] = gen})
      + Cardinality({x \in Proposals : admitted[x] /\ offered[x] = gen})

\* A provider runs for a child only while its caller waits for that very
\* call and has no answer to it: no worker outlives the program or daemon it
\* works for.
ChildUnderCaller ==
    \A c \in Call : run[c] = "live" =>
        /\ c \notin results
        /\ IF c[1] \in Programs
           THEN waits[c[1]] /\ awaits[c[1]] = c[2]
           ELSE daemon[c[1]] \in {"suspended", "uncertain"} /\ NextRequest(c[1]) = c[2]

\* A program is resumed only by a child that is complete at that moment, with
\* no provider and a certain outcome, whatever happened since it was looked at.
ResumedByEvidence ==
    [][\A p \in Programs : waits[p] /\ prog'[p] = "queued" /\ ~waits'[p] =>
          /\ Awaited(p) \in results' /\ Settles(Awaited(p))
          /\ child[Awaited(p)] = "completed"]_vars

\* The calls of programs and daemons are asked and answered one at a time.
Ledger == INSTANCE Calls WITH
    asked <- [o \in Callers |-> Cardinality({i \in 1 .. MaxCalls : child[<<o, i>>] # "absent"})],
    answered <- [o \in Callers |-> Cardinality({i \in 1 .. MaxCalls : <<o, i>> \in results})],
    closed <- [o \in Callers |-> IF o \in Programs THEN prog[o] \in Closed
                                 ELSE daemon[o] = "terminal"]
CallSpec == Ledger!Spec

\* managed_program_state.rs:1501 "A child cancelled while queued or awaiting
\* input settles from its own record once no run holds it".
CancelledChildSettles ==
    \A c \in Call : child[c] = "cancelled" /\ run[c] = "none" => Settles(c)

\* docs/plans/effectful-daemons.md:40-42 "the supervisor records the result row
\* first, then sends the nudge -- re-settlement replays the same delivery": a
\* suspension whose result is recorded has its nudge, unless the supervisor is
\* about to post it.
NudgeFollowsResult ==
    \A d \in Daemons : Suspended(d) /\ Pending(d) \in results =>
        d \in nudges \/ In("nudge", d)
=============================================================================
