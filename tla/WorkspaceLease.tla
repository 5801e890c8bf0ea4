--------------------------- MODULE WorkspaceLease ---------------------------
(***************************************************************************)
(* The workspace lease of native execution (xcb-runtime/src/kernel.rs).    *)
(*                                                                         *)
(* Every launch, a direct session in some terminal or a task's worker,     *)
(* calls execute_mode: it takes a file lock named after the digest of its  *)
(* exact workspace path, then looks for unsettled runs in overlapping      *)
(* workspaces, and keeps the lock over all the turns of the call.  Later   *)
(* turns look for nothing.  The lock goes with its process; a provider and *)
(* the row of its run may stay.                                            *)
(***************************************************************************)
EXTENDS Naturals

CONSTANTS
    Launches, \* the calls of execute_mode in the behaviour
    Paths,    \* workspace paths
    PathOf,   \* the workspace of each launch
    Overlaps, \* pairs of paths of which one contains the other
    MaxTurns  \* bound: turns of one call (auto_continue, failover, handoff)

ASSUME PathAssumption == PathOf \in [Launches -> Paths]
ASSUME OverlapAssumption == \A p \in Paths : <<p, p>> \in Overlaps
ASSUME TurnsAssumption == MaxTurns \in Nat

VARIABLES
    pc,     \* where the call is
    locked, \* the launches that hold their workspace's lock file
    alive,  \* the launches whose xcb process runs
    run,    \* the run of the call's current turn; "launched" is a run whose
            \* provider has started and whose row still says prepared
    proc,   \* the launches whose provider runs
    turns   \* turns begun by the call

vars == <<pc, locked, alive, run, proc, turns>>

Init ==
    /\ pc = [l \in Launches |-> "idle"]
    /\ locked = {}
    /\ alive = {}
    /\ run = [l \in Launches |-> "none"]
    /\ proc = {}
    /\ turns = [l \in Launches |-> 0]

SamePath(k, l) == PathOf[k] = PathOf[l]
Overlap(k, l) == <<PathOf[k], PathOf[l]>> \in Overlaps

\* Store::unsettled_runs
Unsettled(l) == run[l] \in {"prepared", "launched", "running"}

\* Mutant: only runs whose provider has been recorded block.
BadBlockers(l) == {k \in Launches : run[k] = "running" /\ Overlap(k, l)}

\* The unsettled runs that refuse a launch.
Blockers(l) == {k \in Launches : Unsettled(k) /\ Overlap(k, l)}

\* Mutant: the lock file is opened but not locked.
BadTryLock(l) ==
    /\ pc[l] = "idle"
    /\ pc' = [pc EXCEPT ![l] = "locked"]
    /\ locked' = locked \cup {l}
    /\ alive' = alive \cup {l}
    /\ UNCHANGED <<run, proc, turns>>

\* workspace_lease: try_lock on the file of this exact path.
TryLock(l) ==
    /\ pc[l] = "idle"
    /\ \A k \in locked : ~ SamePath(k, l)
    /\ pc' = [pc EXCEPT ![l] = "locked"]
    /\ locked' = locked \cup {l}
    /\ alive' = alive \cup {l}
    /\ UNCHANGED <<run, proc, turns>>

\* workspace_lease: then the unsettled runs.
Check(l) ==
    /\ pc[l] = "locked"
    /\ IF Blockers(l) = {}
       THEN /\ pc' = [pc EXCEPT ![l] = "ready"]
            /\ UNCHANGED locked
       ELSE /\ pc' = [pc EXCEPT ![l] = "left"]
            /\ locked' = locked \ {l}
    /\ UNCHANGED <<alive, run, proc, turns>>

\* A turn of execute_inner, first or later: ready, append_input, prepare_run.
PrepareRun(l) ==
    /\ pc[l] = "ready" /\ turns[l] < MaxTurns
    /\ pc' = [pc EXCEPT ![l] = "turn"]
    /\ run' = [run EXCEPT ![l] = "prepared"]
    /\ turns' = [turns EXCEPT ![l] = @ + 1]
    /\ UNCHANGED <<locked, alive, proc>>

\* StreamProcess::spawn
Spawn(l) ==
    /\ pc[l] = "turn" /\ run[l] = "prepared"
    /\ run' = [run EXCEPT ![l] = "launched"]
    /\ proc' = proc \cup {l}
    /\ UNCHANGED <<pc, locked, alive, turns>>

\* mark_spawned
MarkSpawned(l) ==
    /\ pc[l] = "turn" /\ run[l] = "launched"
    /\ run' = [run EXCEPT ![l] = "running"]
    /\ UNCHANGED <<pc, locked, alive, proc, turns>>

ProviderExits(l) ==
    /\ l \in proc
    /\ proc' = proc \ {l}
    /\ UNCHANGED <<pc, locked, alive, run, turns>>

\* The turn joined its provider, or never started it, and settled its run.
Settle(l) ==
    /\ pc[l] = "turn" /\ l \notin proc
    /\ run' = [run EXCEPT ![l] = "settled"]
    /\ pc' = [pc EXCEPT ![l] = "ready"]
    /\ UNCHANGED <<locked, alive, proc, turns>>

\* runner::run returns an error and keeps the run: a join or a receipt is
\* unproven.  The call returns and drops its lock; its process goes on.
Abandon(l) ==
    /\ pc[l] = "turn"
    /\ pc' = [pc EXCEPT ![l] = "left"]
    /\ locked' = locked \ {l}
    /\ UNCHANGED <<alive, run, proc, turns>>

\* The call returns: refused by ready, cancelled, or done.
Leave(l) ==
    /\ pc[l] = "ready"
    /\ pc' = [pc EXCEPT ![l] = "left"]
    /\ locked' = locked \ {l}
    /\ UNCHANGED <<alive, run, proc, turns>>

\* The process ends, at any point; the operating system releases the lock.
OwnerDies(l) ==
    /\ l \in alive
    /\ alive' = alive \ {l}
    /\ pc' = [pc EXCEPT ![l] = "left"]
    /\ locked' = locked \ {l}
    /\ UNCHANGED <<run, proc, turns>>

\* recover_run, under its proof that owner and provider have stopped.
Recover(l) ==
    /\ run[l] = "running" /\ l \notin alive /\ l \notin proc
    /\ run' = [run EXCEPT ![l] = "settled"]
    /\ UNCHANGED <<pc, locked, alive, proc, turns>>

Launch(l) ==
    \/ TryLock(l) \/ Check(l) \/ Leave(l)
    \/ PrepareRun(l) \/ Spawn(l) \/ MarkSpawned(l) \/ Settle(l) \/ Abandon(l)

Fault(l) == ProviderExits(l) \/ OwnerDies(l) \/ Recover(l)

Next == \E l \in Launches : Launch(l) \/ Fault(l)

Spec == Init /\ [][Next]_vars

-----------------------------------------------------------------------------
(* Properties.                                                             *)

\* Every variable keeps its type.
TypeOK ==
    /\ pc \in [Launches -> {"idle", "locked", "ready", "turn", "left"}]
    /\ locked \subseteq Launches
    /\ alive \subseteq Launches
    /\ run \in [Launches -> {"none", "prepared", "launched", "running", "settled"}]
    /\ proc \subseteq Launches
    /\ turns \in [Launches -> 0..MaxTurns]

\* No two providers write the same workspace, although the lock of one may
\* be gone with its process.
WriterAlone == \A k, l \in proc : SamePath(k, l) => k = l

\* The check made when the call began is good for all its turns, which is why
\* they need not repeat it: nobody else comes to have an unsettled run there.
TurnUncontested ==
    \A k, l \in Launches :
        pc[l] \in {"ready", "turn"} /\ SamePath(k, l) /\ Unsettled(k) => k = l
=============================================================================
