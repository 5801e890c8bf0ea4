----------------------- MODULE WorkspaceLease_proofs -----------------------
(***************************************************************************)
(* Exclusion of writers per workspace path, for any number of launches,    *)
(* paths and turns and any relation of overlap that is reflexive.          *)
(***************************************************************************)
EXTENDS WorkspaceLease, TLAPS

\* The initial state is typed.
LEMMA TypeInit == Init => TypeOK
  BY TurnsAssumption DEF Init, TypeOK

\* Every step keeps the types.
LEMMA TypeStep == TypeOK /\ [Next]_vars => TypeOK'
<1> SUFFICES ASSUME TypeOK, [Next]_vars PROVE TypeOK'
  OBVIOUS
<1> USE DEF TypeOK
<1>1. ASSUME NEW l \in Launches, Launch(l) PROVE TypeOK'
  <2>1. CASE TryLock(l)  BY <2>1 DEF TryLock
  <2>2. CASE Check(l)  BY <2>2 DEF Check
  <2>3. CASE Leave(l)  BY <2>3 DEF Leave
  <2>4. CASE PrepareRun(l)
    <3>1. turns[l] + 1 \in 0..MaxTurns
      BY <2>4, TurnsAssumption DEF PrepareRun
    <3>2. QED BY <2>4, <3>1 DEF PrepareRun
  <2>5. CASE Spawn(l)  BY <2>5 DEF Spawn
  <2>6. CASE MarkSpawned(l)  BY <2>6 DEF MarkSpawned
  <2>7. CASE Settle(l)  BY <2>7 DEF Settle
  <2>8. CASE Abandon(l)  BY <2>8 DEF Abandon
  <2>9. QED BY <1>1, <2>1, <2>2, <2>3, <2>4, <2>5, <2>6, <2>7, <2>8 DEF Launch
<1>2. ASSUME NEW l \in Launches, Fault(l) PROVE TypeOK'
  BY <1>2 DEF Fault, ProviderExits, OwnerDies, Recover
<1>3. CASE UNCHANGED vars  BY <1>3 DEF vars
<1>4. QED BY <1>1, <1>2, <1>3 DEF Next

\* Every variable keeps its type.
THEOREM TypeCorrect == Spec => []TypeOK
  BY TypeInit, TypeStep, PTL DEF Spec

-----------------------------------------------------------------------------
(* Exclusion.                                                              *)

\* A call holds the lock of its path from try_lock to its return or death,
\* and nobody else holds one of the same path.
LockInv ==
    /\ \A l \in Launches : l \in locked <=> pc[l] \in {"locked", "ready", "turn"}
    /\ \A k, l \in locked : SamePath(k, l) => k = l

\* A call has an unsettled run only in a turn, or after it has left one; a
\* provider belongs to a run that has started it and is not settled.
RunInv ==
    \A l \in Launches :
        /\ pc[l] \in {"idle", "locked", "ready"} => ~ Unsettled(l)
        /\ l \in proc => run[l] \in {"launched", "running"}

\* Of the launches in one workspace at most one has an unsettled run.  The
\* lock does not give this alone: it goes with its process and the run stays.
RunAlone ==
    \A k, l \in Launches : SamePath(k, l) /\ Unsettled(k) /\ Unsettled(l) => k = l

LeaseInv == LockInv /\ RunInv /\ TurnUncontested /\ RunAlone

\* The initial state.
LEMMA LeaseInit == Init => LeaseInv
  BY DEF Init, LeaseInv, LockInv, RunInv, TurnUncontested, RunAlone, Unsettled

\* The steps of a call keep the exclusion.
LEMMA LeaseLaunch ==
  ASSUME TypeOK, LeaseInv, NEW l \in Launches, Launch(l)
  PROVE  LeaseInv'
<1> USE DEF LeaseInv, LockInv, RunInv, TurnUncontested, RunAlone, Unsettled, SamePath, TypeOK
<1>1. CASE TryLock(l)  BY <1>1 DEF TryLock
<1>2. CASE Check(l)
  <2>1. CASE Blockers(l) = {}
    <3>1. \A k \in Launches : SamePath(k, l) => ~ Unsettled(k)
      BY <2>1, PathAssumption, OverlapAssumption DEF Blockers, Overlap
    <3>2. pc' = [pc EXCEPT ![l] = "ready"] /\ UNCHANGED <<locked, run, proc>>
      BY <1>2, <2>1 DEF Check
    <3>3. QED BY <1>2, <3>1, <3>2 DEF Check
  <2>2. CASE Blockers(l) # {}
    BY <1>2, <2>2 DEF Check
  <2>3. QED BY <2>1, <2>2
<1>3. CASE Leave(l)  BY <1>3 DEF Leave
<1>4. CASE PrepareRun(l)
  <2>1. /\ pc[l] = "ready" /\ pc' = [pc EXCEPT ![l] = "turn"]
        /\ run' = [run EXCEPT ![l] = "prepared"] /\ UNCHANGED <<locked, proc>>
    BY <1>4 DEF PrepareRun
  <2>2. l \in locked
    BY <2>1
  <2>3. \A k \in Launches : SamePath(k, l) /\ k # l =>
            ~ Unsettled(k) /\ pc[k] \notin {"ready", "turn"}
    BY <2>1, <2>2
  <2>4. LockInv' /\ RunInv'
    BY <2>1, <2>2
  <2>5. TurnUncontested' /\ RunAlone'
    BY <2>1, <2>3
  <2>6. QED BY <2>4, <2>5
<1>5. CASE Spawn(l)  BY <1>5 DEF Spawn
<1>6. CASE MarkSpawned(l)  BY <1>6 DEF MarkSpawned
<1>7. CASE Settle(l)  BY <1>7 DEF Settle
<1>8. CASE Abandon(l)  BY <1>8 DEF Abandon
<1>9. QED BY <1>1, <1>2, <1>3, <1>4, <1>5, <1>6, <1>7, <1>8 DEF Launch

\* Exits, deaths and recovery keep the exclusion.
LEMMA LeaseFault ==
  ASSUME TypeOK, LeaseInv, NEW l \in Launches, Fault(l)
  PROVE  LeaseInv'
<1> USE DEF LeaseInv, LockInv, RunInv, TurnUncontested, RunAlone, Unsettled, SamePath, TypeOK
<1>1. CASE ProviderExits(l)  BY <1>1 DEF ProviderExits
<1>2. CASE OwnerDies(l)  BY <1>2 DEF OwnerDies
<1>3. CASE Recover(l)  BY <1>3 DEF Recover
<1>4. QED BY <1>1, <1>2, <1>3 DEF Fault

\* Types and exclusion hold together.
LEMMA Leased == Spec => [](TypeOK /\ LeaseInv)
<1>1. TypeOK /\ LeaseInv /\ [Next]_vars => LeaseInv'
  <2>1. CASE UNCHANGED vars
    BY <2>1 DEF vars, LeaseInv, LockInv, RunInv, TurnUncontested, RunAlone, Unsettled
  <2>2. QED BY <2>1, LeaseLaunch, LeaseFault DEF Next
<1>2. QED BY <1>1, TypeInit, TypeStep, LeaseInit, PTL DEF Spec

\* Never two providers in one workspace.
THEOREM WriterIsAlone == Spec => []WriterAlone
<1>1. TypeOK /\ LeaseInv => WriterAlone
  BY DEF TypeOK, LeaseInv, RunInv, RunAlone, WriterAlone, Unsettled
<1>2. QED BY <1>1, Leased, PTL

\* The check made when a call begins is good for all its turns.
THEOREM TurnIsUncontested == Spec => []TurnUncontested
  BY Leased, PTL DEF LeaseInv
=============================================================================
