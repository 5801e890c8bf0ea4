--------------------------- MODULE AccountCustody ---------------------------
(***************************************************************************)
(* Custody of one provider account (xcb-runtime/src/store.rs and the       *)
(* callers that start and stop runs).                                      *)
(*                                                                         *)
(* Every operation on an account is a run: a session turn, an inference    *)
(* probe (an application request) or a metadata probe (sign-in, credential *)
(* import, health check).  A run holds a lease from the transaction that   *)
(* prepares it to the one that settles or recovers it.  While it is held   *)
(* its owner, an xcb process, may crash; the provider, the tool servers,   *)
(* the sign-in helper and the guest command it started may outlive it.     *)
(* The account also keeps an availability circuit, an authentication gate  *)
(* and the generation of its credential.                                   *)
(*                                                                         *)
(* One database transaction is one action; a step of a run outside the     *)
(* database (a spawn, an exit, a join) is an action of its own.            *)
(***************************************************************************)
EXTENDS Integers, FiniteSets

CONSTANTS
    Runs,        \* the runs that may be created in the behaviour
    Provider,    \* the account's provider, "codex" or "claude"
    Capacity,    \* config max_runs_per_account
    Helpers,     \* the processes other than the provider a run may start
    Classes,     \* the settled outcomes a run may have
    MaxDelay,    \* longest backoff after a refusal, in clock ticks
    MaxTime,     \* bound: the clock stops here
    MaxFailures, \* bound: no provider refusal is recorded beyond this streak
    MaxGen       \* bound: the credential is replaced at most this often

Kinds == {"session", "inference", "metadata"}
AllHelpers == {"tool", "helper", "guest"}
Outcomes == {"completed", "unavailable", "auth", "other"}

ASSUME RunsAssumption == IsFiniteSet(Runs)
ASSUME ProviderAssumption == Provider \in {"codex", "claude"}
ASSUME CapacityAssumption == Capacity \in Nat \ {0}
ASSUME SetsAssumption == Helpers \subseteq AllHelpers /\ Classes \subseteq Outcomes
ASSUME BoundAssumption ==
    /\ MaxDelay \in Nat \ {0}
    /\ MaxTime \in Nat
    /\ MaxFailures \in Nat
    /\ MaxGen \in Nat

VARIABLES
    phase,    \* RunRecord.phase; "absent" before it exists, "checked" once a
              \* probe has read the account row
    kind,     \* session run, or probe with a model, or without
    created,  \* RunRecord.created_at_ms
    captured, \* run_recovery_generation.generation
    lease,    \* the leases table: the runs that hold the account
    custody,  \* capability_processes and command_custody of the run
    pids,     \* those of its capability_processes whose pid is recorded
    witness,  \* capability_boots of its tool server against the current boot
    receipt,  \* the credential receipt (tool_effects, settled=0) of the run
    rotated,  \* runs that have replaced the generation under their receipt
    alive,    \* runs whose owning xcb process is running
    launched, \* runs whose provider has been spawned
    up,       \* the processes of each run that exist
    enabled,  \* Account.enabled
    auth,     \* account_auth_failures holds a row
    gen,      \* application-generation.json, 0 when it does not exist
    circuit,  \* account_recovery
    clock     \* now_ms()

rowVars == <<phase, kind, created, captured>>
custodyVars == <<custody, pids, witness>>
receiptVars == <<receipt, rotated>>
procVars == <<alive, launched, up>>
accountVars == <<enabled, auth, gen, circuit, clock>>
vars == <<rowVars, lease, custodyVars, receiptVars, procVars, accountVars>>

NoCircuit == [failures |-> 0, observed |-> 0, eligible |-> 0, gen |-> 0]

Init ==
    /\ phase = [r \in Runs |-> "absent"]
    /\ kind = [r \in Runs |-> "session"]
    /\ created = [r \in Runs |-> 0]
    /\ captured = [r \in Runs |-> 0]
    /\ lease = {}
    /\ custody = [r \in Runs |-> {}]
    /\ pids = [r \in Runs |-> {}]
    /\ witness = [r \in Runs |-> "none"]
    /\ receipt = [r \in Runs |-> "none"]
    /\ rotated = {}
    /\ alive = {}
    /\ launched = {}
    /\ up = [r \in Runs |-> {}]
    /\ enabled = TRUE
    /\ auth = FALSE
    /\ gen = 0
    /\ circuit = NoCircuit
    /\ clock = 0

-----------------------------------------------------------------------------
(* The availability circuit.                                               *)

\* The circuit is open: the provider refused the account for want of capacity
\* and nothing has succeeded since.  A row of another credential generation
\* is not evidence about this one.
Open == circuit.failures > 0 /\ circuit.gen = gen

\* Mutant: a due trial does not look at the runs already there.
BadRecoveryAvailable(activeRuns) == Open => circuit.eligible =< clock

\* account_recovery_available_from
RecoveryAvailable(activeRuns) ==
    Open => circuit.eligible =< clock /\ activeRuns = 0

\* Mutant: a refusal of the same millisecond counts as older than the run.
BadMayGrade(r) ==
    /\ captured[r] = gen
    /\ ~ (Open /\ circuit.observed > created[r])

\* record_account_recovery: a run grades the generation it was prepared with,
\* and cannot speak about an open refusal that is not older than itself.
MayGrade(r) ==
    /\ captured[r] = gen
    /\ ~ (Open /\ circuit.observed >= created[r])

Graded(r, class, delay) ==
    IF ~ MayGrade(r) THEN circuit
    ELSE CASE class = "unavailable" ->
                [failures |-> (IF circuit.gen = gen THEN circuit.failures ELSE 0) + 1,
                 observed |-> clock, eligible |-> clock + delay, gen |-> gen]
           [] class = "completed" ->
                [failures |-> 0, observed |-> clock, eligible |-> 0, gen |-> gen]
           [] OTHER -> circuit

-----------------------------------------------------------------------------
(* Admission.                                                              *)

\* Mutant: a probe is taken for a run that has a model and no session.
BadProbes(held) == {r \in held : kind[r] = "inference"}

Probes(held) == {r \in held : kind[r] # "session"}

\* prepare_run: the run of a session turn, in one transaction.
PrepareRun(r) ==
    /\ phase[r] = "absent"
    /\ Probes(lease) = {}
    /\ Cardinality(lease) < Capacity
    /\ enabled /\ ~ auth
    /\ RecoveryAvailable(Cardinality(lease))
    /\ phase' = [phase EXCEPT ![r] = "prepared"]
    /\ kind' = [kind EXCEPT ![r] = "session"]
    /\ created' = [created EXCEPT ![r] = clock]
    /\ captured' = [captured EXCEPT ![r] = gen]
    /\ lease' = lease \cup {r}
    /\ alive' = alive \cup {r}
    /\ UNCHANGED <<custodyVars, receiptVars, launched, up, accountVars>>

\* prepare_probe reads the account row before its transaction.
CheckProbe(r, k) ==
    /\ phase[r] = "absent"
    /\ k # "session"
    /\ enabled
    /\ phase' = [phase EXCEPT ![r] = "checked"]
    /\ kind' = [kind EXCEPT ![r] = k]
    /\ alive' = alive \cup {r}
    /\ UNCHANGED <<created, captured, lease, custodyVars, receiptVars,
                   launched, up, accountVars>>

\* prepare_probe, the transaction.
PrepareProbe(r) ==
    /\ phase[r] = "checked" /\ r \in alive
    /\ lease = {}
    /\ kind[r] = "inference" => RecoveryAvailable(0)
    /\ phase' = [phase EXCEPT ![r] = "prepared"]
    /\ created' = [created EXCEPT ![r] = clock]
    /\ captured' = [captured EXCEPT ![r] = gen]
    /\ lease' = lease \cup {r}
    /\ UNCHANGED <<kind, custodyVars, receiptVars, procVars, accountVars>>

\* owned_run_from: the run is leased and unsettled, and the caller owns it.
Owned(r) == r \in alive /\ r \in lease /\ phase[r] \in {"prepared", "running"}

-----------------------------------------------------------------------------
(* Credentials.                                                            *)

\* snapshot_codex_auth, prepare_codex_login: the receipt of a run copy of the
\* credential, written before the provider can change that copy.
BeginSnapshot(r) ==
    /\ Provider = "codex"
    /\ Owned(r) /\ phase[r] = "prepared" /\ r \notin launched
    /\ receipt[r] = "none"
    /\ receipt' = [receipt EXCEPT ![r] = "codex"]
    /\ UNCHANGED <<rowVars, lease, custodyVars, rotated, procVars, accountVars>>

\* discard_unstarted_codex_auth: no child was started.
DiscardSnapshot(r) ==
    /\ Owned(r) /\ phase[r] = "prepared" /\ r \notin launched
    /\ receipt[r] = "codex"
    /\ receipt' = [receipt EXCEPT ![r] = "none"]
    /\ UNCHANGED <<rowVars, lease, custodyVars, rotated, procVars, accountVars>>

\* persist_codex_auth after the join; a supervised sign-in that succeeded
\* (a metadata probe) also clears the authentication gate.
PersistSnapshot(r) ==
    /\ Owned(r) /\ r \in launched /\ "provider" \notin up[r]
    /\ receipt[r] = "codex"
    /\ receipt' = [receipt EXCEPT ![r] = "none"]
    /\ \/ auth' = auth
       \/ kind[r] = "metadata" /\ auth' = FALSE
    /\ UNCHANGED <<rowVars, lease, custodyVars, rotated, procVars,
                   enabled, gen, circuit, clock>>

\* store_token, import_codex_bytes, publish_claude_token: the receipt.  After
\* it a failure keeps the run: the caller settles only what it did not attempt.
BeginImport(r) ==
    /\ Owned(r) /\ kind[r] = "metadata" /\ receipt[r] = "none"
    /\ up[r] = {}
    /\ receipt' = [receipt EXCEPT ![r] = "import"]
    /\ UNCHANGED <<rowVars, lease, custodyVars, rotated, procVars, accountVars>>

\* rotate_generation, called before the credential is replaced: by an import,
\* and by the publication of a new Claude sign-in.
RotateGeneration(r) ==
    /\ Owned(r) /\ kind[r] = "metadata"
    /\ receipt[r] \in {"import", "claude"} /\ up[r] = {}
    /\ receipt[r] = "claude" => "helper" \in pids[r]
    /\ r \notin rotated /\ gen < MaxGen
    /\ rotated' = rotated \cup {r}
    /\ gen' = gen + 1
    /\ UNCHANGED <<rowVars, lease, custodyVars, receipt, procVars,
                   enabled, auth, circuit, clock>>

\* The credential file, settle_tool, and clear_authentication_failure unless
\* the imported credential is the one already saved.
FinishImport(r) ==
    /\ Owned(r) /\ receipt[r] = "import" /\ r \in rotated
    /\ receipt' = [receipt EXCEPT ![r] = "none"]
    /\ auth' \in {auth, FALSE}
    /\ UNCHANGED <<rowVars, lease, custodyVars, rotated, procVars,
                   enabled, gen, circuit, clock>>

\* ensure_generation, called by application probes: creates the generation
\* of an account that has none, under a receipt of its own.
BeginGeneration(r) ==
    /\ Owned(r) /\ kind[r] = "inference" /\ phase[r] = "prepared"
    /\ r \notin launched /\ receipt[r] = "none"
    /\ gen = 0 /\ MaxGen > 0
    /\ receipt' = [receipt EXCEPT ![r] = "generation"]
    /\ UNCHANGED <<rowVars, lease, custodyVars, rotated, procVars, accountVars>>

FinishGeneration(r) ==
    /\ Owned(r) /\ receipt[r] = "generation"
    /\ gen' = gen + 1
    /\ receipt' = [receipt EXCEPT ![r] = "none"]
    /\ UNCHANGED <<rowVars, lease, custodyVars, rotated, procVars,
                   enabled, auth, circuit, clock>>

-----------------------------------------------------------------------------
(* Claude sign-in and refresh: a helper process under a marker without a   *)
(* boot witness (command_capture).                                         *)

\* The run holds a receipt of the sign-in helper.
SigningIn(r) == receipt[r] \in {"claude", "published"}

\* mark_capability_starting.  refresh_claude_credentials and login run before
\* the provider is launched; both first require an account that is signed in,
\* except the login itself.
StartHelper(r) ==
    /\ Provider = "claude" /\ "helper" \in Helpers
    /\ Owned(r) /\ phase[r] = "prepared" /\ r \notin launched
    /\ receipt[r] = "none" /\ "helper" \notin custody[r] /\ r \notin rotated
    /\ kind[r] # "metadata" => ~ auth
    /\ custody' = [custody EXCEPT ![r] = @ \cup {"helper"}]
    /\ UNCHANGED <<rowVars, lease, pids, witness, receiptVars, procVars, accountVars>>

\* begin_tool host_auth_claude_oauth.
BeginSignIn(r) ==
    /\ Owned(r) /\ "helper" \in custody[r] /\ receipt[r] = "none"
    /\ receipt' = [receipt EXCEPT ![r] = "claude"]
    /\ UNCHANGED <<rowVars, lease, custodyVars, rotated, procVars, accountVars>>

\* publish writes the credential of a helper that has exited and clears the
\* gate.  A new sign-in has replaced the generation before, a refresh has not.
PublishSignIn(r) ==
    /\ Owned(r) /\ receipt[r] = "claude"
    /\ "helper" \in pids[r] \ up[r]
    /\ kind[r] = "metadata" => r \in rotated
    /\ auth' = FALSE
    /\ receipt' = [receipt EXCEPT ![r] = "published"]
    /\ UNCHANGED <<rowVars, lease, custodyVars, rotated, procVars,
                   enabled, gen, circuit, clock>>

\* finish_claude_auth_helper: marker and receipt go together, after the
\* publication, or when there is nothing to publish: the helper never started,
\* only read the keychain, or left a staged sign-in.
FinishSignIn(r) ==
    /\ Owned(r) /\ "helper" \in custody[r] \ up[r]
    /\ receipt[r] = "published" \/ (receipt[r] = "claude" /\ r \notin rotated)
    /\ custody' = [custody EXCEPT ![r] = @ \ {"helper"}]
    /\ pids' = [pids EXCEPT ![r] = @ \ {"helper"}]
    /\ receipt' = [receipt EXCEPT ![r] = "none"]
    /\ UNCHANGED <<rowVars, lease, witness, rotated, procVars, accountVars>>

-----------------------------------------------------------------------------
(* Processes of a run.                                                     *)

\* StreamProcess::spawn of the provider.  refresh_claude_credentials returned
\* before, so no sign-in of this run is pending.
Spawn(r) ==
    /\ Owned(r) /\ phase[r] = "prepared" /\ r \notin launched
    /\ receipt[r] \in {"none", "codex"} /\ "helper" \notin custody[r]
    /\ launched' = launched \cup {r}
    /\ up' = [up EXCEPT ![r] = @ \cup {"provider"}]
    /\ UNCHANGED <<rowVars, lease, custodyVars, receiptVars, alive, accountVars>>

\* Mutant: another phase name than the one the other statements test.
BadMarkSpawned(r) ==
    /\ Owned(r) /\ phase[r] = "prepared" /\ r \in launched
    /\ phase' = [phase EXCEPT ![r] = "spawned"]
    /\ UNCHANGED <<kind, created, captured, lease, custodyVars, receiptVars,
                   procVars, accountVars>>

\* mark_spawned
MarkSpawned(r) ==
    /\ Owned(r) /\ phase[r] = "prepared" /\ r \in launched
    /\ phase' = [phase EXCEPT ![r] = "running"]
    /\ UNCHANGED <<kind, created, captured, lease, custodyVars, receiptVars,
                   procVars, accountVars>>

\* mark_capability_starting_with_boot: the intent, with the boot identity if
\* the host gave one.
StartTool(r) ==
    /\ "tool" \in Helpers
    /\ Owned(r) /\ "tool" \notin custody[r]
    /\ custody' = [custody EXCEPT ![r] = @ \cup {"tool"}]
    /\ \E w \in {"none", "launch"} : witness' = [witness EXCEPT ![r] = w]
    /\ UNCHANGED <<rowVars, lease, pids, receiptVars, procVars, accountVars>>

\* record_command_custody, before the guest owner is asked to launch it.
RecordGuest(r) ==
    /\ "guest" \in Helpers
    /\ Owned(r) /\ phase[r] = "running" /\ "guest" \notin custody[r]
    /\ custody' = [custody EXCEPT ![r] = @ \cup {"guest"}]
    /\ UNCHANGED <<rowVars, lease, pids, witness, receiptVars, procVars, accountVars>>

\* The spawn the intent announced.
StartProcess(r, p) ==
    /\ Owned(r) /\ p \in custody[r] /\ p \notin up[r] /\ p \notin pids[r]
    /\ p = "helper" => receipt[r] = "claude"
    /\ up' = [up EXCEPT ![r] = @ \cup {p}]
    /\ UNCHANGED <<rowVars, lease, custodyVars, receiptVars, alive, launched, accountVars>>

\* mark_capability_spawned
RecordPid(r, p) ==
    /\ Owned(r) /\ p \in {"tool", "helper"} /\ p \in custody[r] /\ p \notin pids[r]
    /\ p \in up[r]
    /\ pids' = [pids EXCEPT ![r] = @ \cup {p}]
    /\ UNCHANGED <<rowVars, lease, custody, witness, receiptVars, procVars, accountVars>>

\* A process of a run exits; the provider's death also ends nothing else.
ProcessExits(r, p) ==
    /\ p \in up[r]
    /\ up' = [up EXCEPT ![r] = @ \ {p}]
    /\ UNCHANGED <<rowVars, lease, custodyVars, receiptVars, alive, launched, accountVars>>

\* clear_capability_custody and clear_command_custody: the owner has joined
\* the process, or knows it was never started.
Join(r, p) ==
    /\ Owned(r) /\ p \in custody[r] /\ p \notin up[r]
    /\ p = "helper" => receipt[r] = "none"
    /\ custody' = [custody EXCEPT ![r] = @ \ {p}]
    /\ pids' = [pids EXCEPT ![r] = @ \ {p}]
    /\ witness' = IF p = "tool" THEN [witness EXCEPT ![r] = "none"] ELSE witness
    /\ UNCHANGED <<rowVars, lease, receiptVars, procVars, accountVars>>

OwnerDies(r) ==
    /\ r \in alive
    /\ alive' = alive \ {r}
    /\ UNCHANGED <<rowVars, lease, custodyVars, receiptVars, launched, up, accountVars>>

\* The host restarts: nothing survives, and a witness of the old boot differs.
Reboot ==
    /\ \E r \in Runs : r \in alive \/ up[r] # {} \/ witness[r] = "launch"
    /\ alive' = {}
    /\ up' = [r \in Runs |-> {}]
    /\ witness' = [r \in Runs |-> IF witness[r] = "launch" THEN "changed" ELSE witness[r]]
    /\ UNCHANGED <<rowVars, lease, custody, pids, receiptVars, launched, accountVars>>

-----------------------------------------------------------------------------
(* Release.                                                                *)

Release(r) ==
    /\ phase' = [phase EXCEPT ![r] = "settled"]
    /\ lease' = lease \ {r}

\* settle_inner without an outcome: a metadata probe, a preparation that
\* failed, or a turn whose effects are uncertain but whose processes joined.
SettleUnrecorded(r) ==
    /\ Owned(r) /\ "provider" \notin up[r] /\ custody[r] = {}
    /\ receipt[r] = "none"
    /\ Release(r)
    /\ UNCHANGED <<kind, created, captured, custodyVars, receiptVars, procVars, accountVars>>

\* settle_outcome_submitted and settle_application: the outcome grades the
\* circuit and the authentication gate in the transaction that settles.
SettleOutcome(r, class) ==
    /\ Owned(r) /\ kind[r] # "metadata"
    /\ r \in launched /\ "provider" \notin up[r] /\ custody[r] = {}
    /\ receipt[r] = "none"
    /\ class = "unavailable" => circuit.failures < MaxFailures
    /\ \E delay \in 1..MaxDelay : circuit' = Graded(r, class, delay)
    /\ auth' \in CASE class = "auth" -> {TRUE}
                   [] class = "completed" -> {FALSE, auth}  \* FALSE if it is idle
                   [] OTHER -> {auth}
    /\ Release(r)
    /\ UNCHANGED <<kind, created, captured, custodyVars, receiptVars, procVars,
                   enabled, gen, clock>>

\* Mutant: an intent without a pid is taken for a process that never started.
BadStopProof(r) ==
    /\ phase[r] = "running"
    /\ r \notin alive
    /\ "provider" \notin up[r]
    /\ \A p \in custody[r] \ {"guest"} : p \in pids[r] => p \notin up[r]

\* verify_recovery_stop_with_boot: the owner is gone, the provider's group is
\* absent, and so is each tool server, or the host has restarted since the
\* intent of one whose pid was not recorded.
StopProof(r) ==
    /\ phase[r] = "running"
    /\ r \notin alive
    /\ "provider" \notin up[r]
    /\ \A p \in custody[r] \ {"guest"} :
          \/ p \in pids[r] /\ p \notin up[r]
          \/ p = "tool" /\ p \notin pids[r] /\ witness[r] = "changed"

\* reconcile_command_custody_with_boot, after the backend's guest join proof.
ReconcileGuest(r) ==
    /\ r \in lease /\ "guest" \in custody[r] /\ "guest" \notin up[r]
    /\ StopProof(r)
    /\ custody' = [custody EXCEPT ![r] = @ \ {"guest"}]
    /\ UNCHANGED <<rowVars, lease, pids, witness, receiptVars, procVars, accountVars>>

\* Mutant: recovery of the run forgets the guest command.
BadRecover(r) ==
    /\ r \in lease
    /\ StopProof(r)
    /\ receipt[r] \in {"none", "codex"}
    /\ receipt' = [receipt EXCEPT ![r] = "none"]
    /\ custody' = [custody EXCEPT ![r] = {}]
    /\ pids' = [pids EXCEPT ![r] = {}]
    /\ witness' = [witness EXCEPT ![r] = "none"]
    /\ Release(r)
    /\ UNCHANGED <<kind, created, captured, rotated, procVars, accountVars>>

\* recover_run_with_boot.  A pending snapshot is reconciled; any other
\* credential receipt keeps the run.
Recover(r) ==
    /\ r \in lease /\ "guest" \notin custody[r]
    /\ StopProof(r)
    /\ receipt[r] \in {"none", "codex"}
    /\ receipt' = [receipt EXCEPT ![r] = "none"]
    /\ custody' = [custody EXCEPT ![r] = {}]
    /\ pids' = [pids EXCEPT ![r] = {}]
    /\ witness' = [witness EXCEPT ![r] = "none"]
    /\ Release(r)
    /\ UNCHANGED <<kind, created, captured, rotated, procVars, accountVars>>

\* recover_claude_auth: a run that stopped inside its sign-in, even before its
\* provider was started.  The account must sign in again if the refresh token
\* of the active generation may have been spent.
RecoverClaude(r) ==
    /\ r \in lease /\ SigningIn(r) /\ custody[r] = {"helper"}
    /\ \/ StopProof(r)
       \/ /\ phase[r] = "prepared" /\ r \notin alive
          /\ "helper" \in pids[r] /\ "helper" \notin up[r]
    /\ auth' \in IF kind[r] = "metadata" THEN {auth, TRUE} ELSE {TRUE}
    /\ receipt' = [receipt EXCEPT ![r] = "none"]
    /\ custody' = [custody EXCEPT ![r] = {}]
    /\ pids' = [pids EXCEPT ![r] = {}]
    /\ witness' = [witness EXCEPT ![r] = "none"]
    /\ Release(r)
    /\ UNCHANGED <<kind, created, captured, rotated, procVars,
                   enabled, gen, circuit, clock>>

\* Mutant: the switch does not look at the leases.
BadSetEnabled(value) ==
    /\ enabled # value
    /\ enabled' = value
    /\ UNCHANGED <<rowVars, lease, custodyVars, receiptVars, procVars,
                   auth, gen, circuit, clock>>

\* set_account_enabled
SetEnabled(value) ==
    /\ lease = {}
    /\ enabled # value
    /\ enabled' = value
    /\ UNCHANGED <<rowVars, lease, custodyVars, receiptVars, procVars,
                   auth, gen, circuit, clock>>

Tick ==
    /\ clock < MaxTime
    /\ clock' = clock + 1
    /\ UNCHANGED <<rowVars, lease, custodyVars, receiptVars, procVars,
                   enabled, auth, gen, circuit>>

-----------------------------------------------------------------------------
Admit(r) == PrepareRun(r) \/ (\E k \in Kinds : CheckProbe(r, k)) \/ PrepareProbe(r)

Credential(r) ==
    \/ BeginSnapshot(r) \/ DiscardSnapshot(r) \/ PersistSnapshot(r)
    \/ BeginImport(r) \/ RotateGeneration(r) \/ FinishImport(r)
    \/ BeginGeneration(r) \/ FinishGeneration(r)
    \/ StartHelper(r) \/ BeginSignIn(r) \/ PublishSignIn(r) \/ FinishSignIn(r)

Process(r) ==
    \/ Spawn(r) \/ MarkSpawned(r) \/ StartTool(r) \/ RecordGuest(r)
    \/ \E p \in AllHelpers : StartProcess(r, p) \/ RecordPid(r, p) \/ Join(r, p)
    \/ \E p \in AllHelpers \cup {"provider"} : ProcessExits(r, p)
    \/ OwnerDies(r)

Finish(r) ==
    \/ SettleUnrecorded(r)
    \/ \E class \in Classes : SettleOutcome(r, class)
    \/ ReconcileGuest(r) \/ Recover(r) \/ RecoverClaude(r)

Next ==
    \/ \E r \in Runs : Admit(r) \/ Credential(r) \/ Process(r) \/ Finish(r)
    \/ Reboot
    \/ \E value \in BOOLEAN : SetEnabled(value)
    \/ Tick

Spec == Init /\ [][Next]_vars

-----------------------------------------------------------------------------
(* Properties.                                                             *)

Receipts == {"none", "codex", "import", "generation", "claude", "published"}

\* Every variable keeps its type.
TypeOK ==
    /\ phase \in [Runs -> {"absent", "checked", "prepared", "running", "settled"}]
    /\ kind \in [Runs -> Kinds]
    /\ created \in [Runs -> Nat]
    /\ captured \in [Runs -> Nat]
    /\ lease \subseteq Runs
    /\ custody \in [Runs -> SUBSET AllHelpers]
    /\ pids \in [Runs -> SUBSET {"tool", "helper"}]
    /\ witness \in [Runs -> {"none", "launch", "changed"}]
    /\ receipt \in [Runs -> Receipts]
    /\ rotated \subseteq Runs
    /\ alive \subseteq Runs
    /\ launched \subseteq Runs
    /\ up \in [Runs -> SUBSET (AllHelpers \cup {"provider"})]
    /\ enabled \in BOOLEAN
    /\ auth \in BOOLEAN
    /\ gen \in Nat
    /\ circuit \in [failures : Nat, observed : Nat, eligible : Nat, gen : Nat]
    /\ clock \in Nat

\* A run whose processes may still act, or whose credential write is not
\* known to be complete, still holds the account, across crashes of its
\* owner, restarts of the host and every way of recovering it.
CustodyHeld ==
    \A r \in Runs : up[r] # {} \/ receipt[r] # "none" => r \in lease

\* A probe, which may replace the credential, holds the account alone.
ProbeAlone ==
    \A r, s \in lease : kind[r] # "session" => s = r

\* No more runs hold the account than max_runs_per_account.
CapacityHeld == Cardinality(lease) =< Capacity

\* The credential generation never changes under a session run that may be
\* using it: what the run was prepared with is what the account has.
GenerationStable ==
    \A r \in lease : kind[r] = "session" => captured[r] = gen

\* While the circuit is open, a turn or inference prepared after the refusal
\* is a trial and runs alone: docs/unattended-operations.md:19-21.
TrialAlone ==
    Open => \A r \in lease :
                kind[r] # "metadata" /\ created[r] > circuit.observed => lease = {r}

\* A disabled account runs no turn, though its switch and a turn's admission
\* race.
DisabledIdle ==
    ~ enabled => \A r \in lease : kind[r] # "session"

\* An open circuit closes only when the credential is replaced or a run that
\* was prepared after the refusal succeeds, never on the word of a run that
\* was already under way.
NoStaleClear ==
    [][Open /\ ~ Open' =>
          \/ gen' # gen
          \/ \E r \in lease \ lease' : created[r] > circuit.observed]_vars

\* The account is a shared lock in the sense of SharedAccount.
Shared == INSTANCE SharedAccount WITH
    holders <- lease,
    sole <- Probes(lease),
    busy <- {r \in Runs : up[r] # {}}

\* Admission, crashes and recovery together implement the lock: every step is
\* one of the lock's or changes nothing the lock can see.
SharedSpec == Shared!Spec
=============================================================================
