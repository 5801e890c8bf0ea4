------------------------ MODULE AccountCustody_proofs ------------------------
(***************************************************************************)
(* Custody of the account, for any set of runs, capacity and bound: types  *)
(* are kept, nothing of a run outlives its lease, a probe is alone on the  *)
(* account, a trial after a refusal is alone, and only what is newer than  *)
(* the refusal closes the circuit.                                         *)
(***************************************************************************)
EXTENDS AccountCustody, FiniteSetTheorems, TLAPS

\* The initial state is well typed.
LEMMA TypeInit == Init => TypeOK
<1> SUFFICES ASSUME Init PROVE TypeOK
  OBVIOUS
<1>1. enabled \in BOOLEAN /\ auth \in BOOLEAN
  BY Zenon DEF Init
<1>2. circuit \in [failures : Nat, observed : Nat, eligible : Nat, gen : Nat]
  BY DEF Init, NoCircuit
<1>3. /\ lease \subseteq Runs /\ rotated \subseteq Runs
      /\ alive \subseteq Runs /\ launched \subseteq Runs
      /\ gen \in Nat /\ clock \in Nat
  BY DEF Init
<1>4. /\ custody \in [Runs -> SUBSET AllHelpers]
      /\ pids \in [Runs -> SUBSET {"tool", "helper"}]
      /\ up \in [Runs -> SUBSET (AllHelpers \cup {"provider"})]
  BY DEF Init
<1>5. /\ phase \in [Runs -> {"absent", "checked", "prepared", "running", "settled"}]
      /\ kind \in [Runs -> Kinds]
      /\ created \in [Runs -> Nat] /\ captured \in [Runs -> Nat]
      /\ witness \in [Runs -> {"none", "launch", "changed"}]
      /\ receipt \in [Runs -> Receipts]
  BY DEF Init, Kinds, Receipts
<1>6. QED BY <1>1, <1>2, <1>3, <1>4, <1>5 DEF TypeOK

\* What a settled outcome leaves in the circuit is a circuit.
LEMMA GradedType ==
  ASSUME TypeOK, NEW r \in Runs, NEW class \in Outcomes, NEW delay \in 1..MaxDelay
  PROVE  Graded(r, class, delay) \in
            [failures : Nat, observed : Nat, eligible : Nat, gen : Nat]
  BY BoundAssumption DEF TypeOK, Graded, Outcomes

\* Admission keeps the types.
LEMMA TypeAdmit == ASSUME TypeOK, NEW r \in Runs, Admit(r) PROVE TypeOK'
<1>1. CASE PrepareRun(r)  BY <1>1 DEF TypeOK, PrepareRun, rowVars, custodyVars, receiptVars, procVars, accountVars, Kinds
<1>2. ASSUME NEW k \in Kinds, CheckProbe(r, k) PROVE TypeOK'
  BY <1>2 DEF TypeOK, CheckProbe, rowVars, custodyVars, receiptVars, procVars, accountVars, Kinds
<1>3. CASE PrepareProbe(r)  BY <1>3 DEF TypeOK, PrepareProbe, rowVars, custodyVars, receiptVars, procVars, accountVars
<1>4. QED BY <1>1, <1>2, <1>3 DEF Admit

\* The credential steps keep the types.
LEMMA TypeCredential == ASSUME TypeOK, NEW r \in Runs, Credential(r) PROVE TypeOK'
<1>1. CASE BeginSnapshot(r)  BY <1>1 DEF TypeOK, BeginSnapshot, rowVars, custodyVars, receiptVars, procVars, accountVars, Receipts
<1>2. CASE DiscardSnapshot(r)  BY <1>2 DEF TypeOK, DiscardSnapshot, rowVars, custodyVars, receiptVars, procVars, accountVars, Receipts
<1>3. CASE PersistSnapshot(r)  BY <1>3 DEF TypeOK, PersistSnapshot, rowVars, custodyVars, receiptVars, procVars, accountVars, Receipts
<1>4. CASE BeginImport(r)  BY <1>4 DEF TypeOK, BeginImport, rowVars, custodyVars, receiptVars, procVars, accountVars, Receipts
<1>5. CASE RotateGeneration(r)  BY <1>5 DEF TypeOK, RotateGeneration, rowVars, custodyVars, receiptVars, procVars, accountVars
<1>6. CASE FinishImport(r)  BY <1>6 DEF TypeOK, FinishImport, rowVars, custodyVars, receiptVars, procVars, accountVars, Receipts
<1>7. CASE BeginGeneration(r)  BY <1>7 DEF TypeOK, BeginGeneration, rowVars, custodyVars, receiptVars, procVars, accountVars, Receipts
<1>8. CASE FinishGeneration(r)  BY <1>8 DEF TypeOK, FinishGeneration, rowVars, custodyVars, receiptVars, procVars, accountVars, Receipts
<1>9. CASE StartHelper(r)  BY <1>9 DEF TypeOK, StartHelper, rowVars, custodyVars, receiptVars, procVars, accountVars, AllHelpers
<1>10. CASE BeginSignIn(r)  BY <1>10 DEF TypeOK, BeginSignIn, rowVars, custodyVars, receiptVars, procVars, accountVars, Receipts
<1>11. CASE FinishSignIn(r)  BY <1>11 DEF TypeOK, FinishSignIn, rowVars, custodyVars, receiptVars, procVars, accountVars, Receipts
<1>12. CASE PublishSignIn(r)  BY <1>12 DEF TypeOK, PublishSignIn, rowVars, custodyVars, receiptVars, procVars, accountVars, Receipts
<1>13. QED BY <1>1, <1>2, <1>3, <1>4, <1>5, <1>6, <1>7, <1>8, <1>9, <1>10, <1>11, <1>12
           DEF Credential

\* The steps of a run's processes keep the types.
LEMMA TypeProcess == ASSUME TypeOK, NEW r \in Runs, Process(r) PROVE TypeOK'
<1>1. CASE Spawn(r)  BY <1>1 DEF TypeOK, Spawn, rowVars, custodyVars, receiptVars, procVars, accountVars
<1>2. CASE MarkSpawned(r)  BY <1>2 DEF TypeOK, MarkSpawned, rowVars, custodyVars, receiptVars, procVars, accountVars
<1>3. CASE StartTool(r)  BY <1>3 DEF TypeOK, StartTool, rowVars, custodyVars, receiptVars, procVars, accountVars, AllHelpers
<1>4. CASE RecordGuest(r)  BY <1>4 DEF TypeOK, RecordGuest, rowVars, custodyVars, receiptVars, procVars, accountVars, AllHelpers
<1>5. ASSUME NEW p \in AllHelpers, StartProcess(r, p) PROVE TypeOK'
  BY <1>5 DEF TypeOK, StartProcess, rowVars, custodyVars, receiptVars, procVars, accountVars
<1>6. ASSUME NEW p \in AllHelpers, RecordPid(r, p) PROVE TypeOK'
  BY <1>6 DEF TypeOK, RecordPid, rowVars, custodyVars, receiptVars, procVars, accountVars
<1>7. ASSUME NEW p \in AllHelpers, Join(r, p) PROVE TypeOK'
  BY <1>7 DEF TypeOK, Join, rowVars, custodyVars, receiptVars, procVars, accountVars
<1>8. ASSUME NEW p \in AllHelpers \cup {"provider"}, ProcessExits(r, p) PROVE TypeOK'
  BY <1>8 DEF TypeOK, ProcessExits, rowVars, custodyVars, receiptVars, procVars, accountVars
<1>9. CASE OwnerDies(r)  BY <1>9 DEF TypeOK, OwnerDies, rowVars, custodyVars, receiptVars, procVars, accountVars
<1>10. QED BY <1>1, <1>2, <1>3, <1>4, <1>5, <1>6, <1>7, <1>8, <1>9 DEF Process

\* Settlement and recovery keep the types.
LEMMA TypeFinish == ASSUME TypeOK, NEW r \in Runs, Finish(r) PROVE TypeOK'
<1>1. CASE SettleUnrecorded(r)  BY <1>1 DEF TypeOK, SettleUnrecorded, rowVars, custodyVars, receiptVars, procVars, accountVars, Release
<1>2. ASSUME NEW class \in Classes, SettleOutcome(r, class) PROVE TypeOK'
  <2>1. circuit' \in [failures : Nat, observed : Nat, eligible : Nat, gen : Nat]
    BY <1>2, GradedType, SetsAssumption DEF SettleOutcome
  <2>2. auth' \in BOOLEAN
    BY <1>2 DEF SettleOutcome, TypeOK
  <2>3. QED BY <1>2, <2>1, <2>2 DEF TypeOK, SettleOutcome, rowVars, custodyVars, receiptVars, procVars, accountVars, Release
<1>3. CASE ReconcileGuest(r)  BY <1>3 DEF TypeOK, ReconcileGuest, rowVars, custodyVars, receiptVars, procVars, accountVars
<1>4. CASE Recover(r)  BY <1>4 DEF TypeOK, Recover, rowVars, custodyVars, receiptVars, procVars, accountVars, Release, Receipts
<1>5. CASE RecoverClaude(r)  BY <1>5 DEF TypeOK, RecoverClaude, rowVars, custodyVars, receiptVars, procVars, accountVars, Release, Receipts
<1>6. QED BY <1>1, <1>2, <1>3, <1>4, <1>5 DEF Finish

\* Every step keeps the types.
LEMMA TypeStep == TypeOK /\ [Next]_vars => TypeOK'
<1> SUFFICES ASSUME TypeOK, [Next]_vars PROVE TypeOK'
  OBVIOUS
<1>1. ASSUME NEW r \in Runs, Admit(r) \/ Credential(r) \/ Process(r) \/ Finish(r)
      PROVE  TypeOK'
  BY <1>1, TypeAdmit, TypeCredential, TypeProcess, TypeFinish
<1>2. CASE Reboot  BY <1>2 DEF TypeOK, Reboot, rowVars, custodyVars, receiptVars, procVars, accountVars
<1>3. ASSUME NEW value \in BOOLEAN, SetEnabled(value) PROVE TypeOK'
  BY <1>3 DEF TypeOK, SetEnabled, rowVars, custodyVars, receiptVars, procVars, accountVars
<1>4. CASE Tick  BY <1>4 DEF TypeOK, Tick, rowVars, custodyVars, receiptVars, procVars, accountVars
<1>5. CASE UNCHANGED vars  BY <1>5 DEF TypeOK, vars, rowVars, custodyVars, receiptVars, procVars, accountVars
<1>6. QED BY <1>1, <1>2, <1>3, <1>4, <1>5 DEF Next

\* Whatever the runs and the bounds, every reachable state is well typed.
THEOREM TypeCorrect == Spec => []TypeOK
  BY TypeInit, TypeStep, PTL DEF Spec

-----------------------------------------------------------------------------
(* The custody of a run.                                                   *)

\* A run is leased exactly in the two unsettled phases, and a run that is not
\* leased has left nothing behind.  Only an inference probe creates the
\* generation of an account that has none.
RowInv ==
    \A r \in Runs :
        /\ r \in lease <=> phase[r] \in {"prepared", "running"}
        /\ r \notin lease => up[r] = {} /\ receipt[r] = "none" /\ custody[r] = {}
        /\ receipt[r] = "generation" => kind[r] = "inference"
        /\ phase[r] = "checked" => kind[r] # "session"

\* Every process but the provider is announced in the row before it starts.
\* The provider is never launched while a sign-in helper is announced, which
\* is why a run that stopped in its sign-in has no provider to look for.
AnnouncedInv ==
    \A r \in Runs :
        /\ up[r] \subseteq custody[r] \cup {"provider"}
        /\ "provider" \in up[r] => r \in launched
        /\ r \in launched => "helper" \notin custody[r]
        /\ SigningIn(r) => "helper" \in custody[r]

\* A boot witness belongs to an announced tool server, and one that differs
\* from the current boot means the owner and all its processes are gone.
WitnessInv ==
    \A r \in Runs :
        /\ witness[r] # "none" => "tool" \in custody[r]
        /\ witness[r] = "changed" => r \notin alive /\ up[r] = {}

HeldInv == RowInv /\ AnnouncedInv /\ WitnessInv

\* The initial state.
LEMMA HeldInit == Init => HeldInv
  BY DEF Init, HeldInv, RowInv, AnnouncedInv, WitnessInv, SigningIn

\* Admission adds a run that has nothing yet.
LEMMA HeldAdmit ==
  ASSUME TypeOK, HeldInv, NEW r \in Runs, Admit(r)
  PROVE  HeldInv'
<1> USE DEF HeldInv, RowInv, AnnouncedInv, WitnessInv, SigningIn, TypeOK,
            rowVars, custodyVars, receiptVars, procVars, accountVars
<1>1. CASE PrepareRun(r)  BY <1>1 DEF PrepareRun
<1>2. ASSUME NEW k \in Kinds, CheckProbe(r, k) PROVE HeldInv'  BY <1>2 DEF CheckProbe
<1>3. CASE PrepareProbe(r)  BY <1>3 DEF PrepareProbe
<1>4. QED BY <1>1, <1>2, <1>3 DEF Admit

\* The credential steps belong to runs that hold the account.
LEMMA HeldCredential ==
  ASSUME TypeOK, HeldInv, NEW r \in Runs, Credential(r)
  PROVE  HeldInv'
<1> USE DEF HeldInv, RowInv, AnnouncedInv, WitnessInv, SigningIn, TypeOK, Owned,
            rowVars, custodyVars, receiptVars, procVars, accountVars
<1>1. CASE BeginSnapshot(r)  BY <1>1 DEF BeginSnapshot
<1>2. CASE DiscardSnapshot(r)  BY <1>2 DEF DiscardSnapshot
<1>3. CASE PersistSnapshot(r)  BY <1>3 DEF PersistSnapshot
<1>4. CASE BeginImport(r)  BY <1>4 DEF BeginImport
<1>5. CASE RotateGeneration(r)  BY <1>5 DEF RotateGeneration
<1>6. CASE FinishImport(r)  BY <1>6 DEF FinishImport
<1>7. CASE BeginGeneration(r)  BY <1>7 DEF BeginGeneration
<1>8. CASE FinishGeneration(r)  BY <1>8 DEF FinishGeneration
<1>9. CASE StartHelper(r)  BY <1>9 DEF StartHelper, AllHelpers
<1>10. CASE BeginSignIn(r)  BY <1>10 DEF BeginSignIn
<1>11. CASE FinishSignIn(r)  BY <1>11 DEF FinishSignIn
<1>12. CASE PublishSignIn(r)  BY <1>12 DEF PublishSignIn
<1>13. QED BY <1>1, <1>2, <1>3, <1>4, <1>5, <1>6, <1>7, <1>8, <1>9, <1>10, <1>11, <1>12
           DEF Credential

\* A run's processes come up only while it is owned, and are announced first.
LEMMA HeldProcess ==
  ASSUME TypeOK, HeldInv, NEW r \in Runs, Process(r)
  PROVE  HeldInv'
<1> USE DEF HeldInv, RowInv, AnnouncedInv, WitnessInv, SigningIn, TypeOK, Owned,
            rowVars, custodyVars, receiptVars, procVars, accountVars
<1>1. CASE Spawn(r)  BY <1>1 DEF Spawn
<1>2. CASE MarkSpawned(r)  BY <1>2 DEF MarkSpawned
<1>3. CASE StartTool(r)  BY <1>3 DEF StartTool, AllHelpers
<1>4. CASE RecordGuest(r)  BY <1>4 DEF RecordGuest, AllHelpers
<1>5. ASSUME NEW p \in AllHelpers, StartProcess(r, p) PROVE HeldInv'
  BY <1>5 DEF StartProcess, AllHelpers
<1>6. ASSUME NEW p \in AllHelpers, RecordPid(r, p) PROVE HeldInv'
  BY <1>6 DEF RecordPid
<1>7. ASSUME NEW p \in AllHelpers, Join(r, p) PROVE HeldInv'
  BY <1>7 DEF Join, AllHelpers
<1>8. ASSUME NEW p \in AllHelpers \cup {"provider"}, ProcessExits(r, p) PROVE HeldInv'
  BY <1>8 DEF ProcessExits
<1>9. CASE OwnerDies(r)  BY <1>9 DEF OwnerDies
<1>10. QED BY <1>1, <1>2, <1>3, <1>4, <1>5, <1>6, <1>7, <1>8, <1>9 DEF Process

\* The proof of stop reaches every announced process except the guest.
LEMMA StopProofStops ==
  ASSUME TypeOK, HeldInv, NEW r \in Runs, StopProof(r), "guest" \notin custody[r]
  PROVE  up[r] = {}
<1>1. \A p \in custody[r] : p \notin up[r]
  <2> SUFFICES ASSUME NEW p \in custody[r] PROVE p \notin up[r]
    OBVIOUS
  <2>1. CASE witness[r] = "changed"
    BY <2>1 DEF HeldInv, WitnessInv
  <2>2. CASE witness[r] # "changed"
    BY <2>2 DEF StopProof
  <2>3. QED BY <2>1, <2>2
<1>2. QED BY <1>1 DEF StopProof, HeldInv, AnnouncedInv, TypeOK

\* A run that stopped in its sign-in has no process once its helper is gone.
LEMMA SignInStops ==
  ASSUME TypeOK, HeldInv, NEW r \in Runs, RecoverClaude(r)
  PROVE  up[r] = {}
<1>1. CASE StopProof(r)
  BY <1>1, StopProofStops DEF RecoverClaude
<1>2. CASE "helper" \notin up[r]
  BY <1>2 DEF RecoverClaude, HeldInv, AnnouncedInv, TypeOK
<1>3. QED BY <1>1, <1>2 DEF RecoverClaude

\* Settling and recovering release runs of which nothing is left.
LEMMA HeldFinish ==
  ASSUME TypeOK, HeldInv, NEW r \in Runs, Finish(r)
  PROVE  HeldInv'
<1> USE DEF HeldInv, RowInv, AnnouncedInv, WitnessInv, SigningIn, TypeOK, Owned, Release,
            rowVars, custodyVars, receiptVars, procVars, accountVars
<1>1. CASE SettleUnrecorded(r)  BY <1>1 DEF SettleUnrecorded
<1>2. ASSUME NEW class \in Classes, SettleOutcome(r, class) PROVE HeldInv'
  <2>1. /\ Owned(r) /\ "provider" \notin up[r] /\ custody[r] = {} /\ receipt[r] = "none"
        /\ Release(r)
        /\ UNCHANGED <<kind, custody, pids, witness, receipt, alive, launched, up>>
    BY <1>2 DEF SettleOutcome
  <2>2. QED BY <2>1
<1>3. CASE ReconcileGuest(r)  BY <1>3 DEF ReconcileGuest
<1>4. CASE Recover(r)
  <2>1. up[r] = {}
    BY <1>4, StopProofStops DEF Recover
  <2>2. QED BY <1>4, <2>1 DEF Recover
<1>5. CASE RecoverClaude(r)
  <2>1. up[r] = {}
    BY <1>5, SignInStops
  <2>2. QED BY <1>5, <2>1 DEF RecoverClaude
<1>6. QED BY <1>1, <1>2, <1>3, <1>4, <1>5 DEF Finish

\* Every step keeps the custody invariant.
LEMMA HeldStep == TypeOK /\ HeldInv /\ [Next]_vars => HeldInv'
<1> SUFFICES ASSUME TypeOK, HeldInv, [Next]_vars PROVE HeldInv'
  OBVIOUS
<1> USE DEF rowVars, custodyVars, receiptVars, procVars, accountVars
<1>1. ASSUME NEW r \in Runs, Admit(r) \/ Credential(r) \/ Process(r) \/ Finish(r)
      PROVE  HeldInv'
  BY <1>1, HeldAdmit, HeldCredential, HeldProcess, HeldFinish
<1>2. CASE Reboot
  BY <1>2 DEF HeldInv, RowInv, AnnouncedInv, WitnessInv, SigningIn, TypeOK, Reboot
<1>3. ASSUME NEW value \in BOOLEAN, SetEnabled(value) PROVE HeldInv'
  BY <1>3 DEF HeldInv, RowInv, AnnouncedInv, WitnessInv, SigningIn, SetEnabled
<1>4. CASE Tick
  BY <1>4 DEF HeldInv, RowInv, AnnouncedInv, WitnessInv, SigningIn, Tick
<1>5. CASE UNCHANGED vars
  BY <1>5 DEF HeldInv, RowInv, AnnouncedInv, WitnessInv, SigningIn, vars
<1>6. QED BY <1>1, <1>2, <1>3, <1>4, <1>5 DEF Next

\* Processes and credential writes never outlive the lease of their run.
THEOREM CustodyIsHeld == Spec => []CustodyHeld
<1>1. HeldInv => CustodyHeld
  BY DEF HeldInv, RowInv, CustodyHeld
<1>2. QED BY <1>1, TypeInit, HeldInit, TypeStep, HeldStep, PTL DEF Spec

-----------------------------------------------------------------------------
(* Who shares the account.                                                 *)

\* The steps that neither admit nor release a run, nor replace the credential,
\* change nothing that sharing depends on.
Quiet == UNCHANGED <<kind, captured, created, lease, gen>>

\* Only a probe that holds the account replaces its generation.
LEMMA QuietCredential ==
  ASSUME HeldInv, NEW r \in Runs, Credential(r)
  PROVE  \/ Quiet
         \/ /\ UNCHANGED <<kind, captured, created, lease>>
            /\ r \in lease /\ kind[r] # "session" /\ gen' = gen + 1
<1> USE DEF Quiet, Owned, rowVars, custodyVars, receiptVars, procVars, accountVars
<1>1. CASE BeginSnapshot(r) \/ DiscardSnapshot(r) \/ PersistSnapshot(r)
  BY <1>1 DEF BeginSnapshot, DiscardSnapshot, PersistSnapshot
<1>2. CASE BeginImport(r) \/ FinishImport(r) \/ BeginGeneration(r)
  BY <1>2 DEF BeginImport, FinishImport, BeginGeneration
<1>3. CASE StartHelper(r) \/ BeginSignIn(r) \/ PublishSignIn(r) \/ FinishSignIn(r)
  BY <1>3 DEF StartHelper, BeginSignIn, PublishSignIn, FinishSignIn
<1>4. CASE RotateGeneration(r)  BY <1>4 DEF RotateGeneration
<1>5. CASE FinishGeneration(r)  BY <1>5 DEF FinishGeneration, HeldInv, RowInv
<1>6. QED BY <1>1, <1>2, <1>3, <1>4, <1>5 DEF Credential

\* No credential step starts or ends a process or grades the circuit.
LEMMA CredentialKeepsProcesses ==
  ASSUME NEW r \in Runs, Credential(r)
  PROVE  UNCHANGED <<kind, created, lease, up, circuit, clock>>
<1> USE DEF rowVars, custodyVars, receiptVars, procVars, accountVars
<1>1. CASE BeginSnapshot(r) \/ DiscardSnapshot(r) \/ PersistSnapshot(r)
  BY <1>1 DEF BeginSnapshot, DiscardSnapshot, PersistSnapshot
<1>2. CASE BeginImport(r) \/ RotateGeneration(r) \/ FinishImport(r)
  BY <1>2 DEF BeginImport, RotateGeneration, FinishImport
<1>3. CASE BeginGeneration(r) \/ FinishGeneration(r)
  BY <1>3 DEF BeginGeneration, FinishGeneration
<1>4. CASE StartHelper(r) \/ BeginSignIn(r) \/ PublishSignIn(r) \/ FinishSignIn(r)
  BY <1>4 DEF StartHelper, BeginSignIn, PublishSignIn, FinishSignIn
<1>5. QED BY <1>1, <1>2, <1>3, <1>4 DEF Credential

\* The processes of a run change none of it.
LEMMA QuietProcess ==
  ASSUME NEW r \in Runs, Process(r)
  PROVE  Quiet /\ UNCHANGED <<circuit, clock>>
<1> USE DEF Quiet, rowVars, custodyVars, receiptVars, procVars, accountVars
<1>1. CASE Spawn(r) \/ MarkSpawned(r) \/ StartTool(r) \/ RecordGuest(r) \/ OwnerDies(r)
  BY <1>1 DEF Spawn, MarkSpawned, StartTool, RecordGuest, OwnerDies
<1>2. ASSUME NEW p \in AllHelpers, StartProcess(r, p) \/ RecordPid(r, p) \/ Join(r, p)
      PROVE  Quiet /\ UNCHANGED <<circuit, clock>>
  BY <1>2 DEF StartProcess, RecordPid, Join
<1>3. ASSUME NEW p \in AllHelpers \cup {"provider"}, ProcessExits(r, p)
      PROVE  Quiet /\ UNCHANGED <<circuit, clock>>
  BY <1>3 DEF ProcessExits
<1>4. QED BY <1>1, <1>2, <1>3 DEF Process

\* Settlement and recovery give up the lease of one run and change nothing
\* else that sharing depends on; a reconciled guest changes nothing.
LEMMA FinishReleases ==
  ASSUME NEW r \in Runs, Finish(r)
  PROVE  /\ UNCHANGED <<kind, captured, created, gen, up, clock>>
         /\ lease' \in {lease, lease \ {r}}
<1> USE DEF Release, rowVars, custodyVars, receiptVars, procVars, accountVars
<1>1. CASE SettleUnrecorded(r)  BY <1>1 DEF SettleUnrecorded
<1>2. ASSUME NEW class \in Classes, SettleOutcome(r, class)
      PROVE  /\ UNCHANGED <<kind, captured, created, gen, up, clock>>
             /\ lease' = lease \ {r}
  BY <1>2 DEF SettleOutcome
<1>3. CASE ReconcileGuest(r)  BY <1>3 DEF ReconcileGuest
<1>4. CASE Recover(r)  BY <1>4 DEF Recover
<1>5. CASE RecoverClaude(r)  BY <1>5 DEF RecoverClaude
<1>6. QED BY <1>1, <1>2, <1>3, <1>4, <1>5 DEF Finish

\* The steps of no run in particular.
LEMMA QuietOther ==
  ASSUME Reboot \/ (\E value \in BOOLEAN : SetEnabled(value)) \/ Tick \/ UNCHANGED vars
  PROVE  Quiet
<1> USE DEF Quiet, rowVars, custodyVars, receiptVars, procVars, accountVars
<1>1. CASE Reboot  BY <1>1 DEF Reboot
<1>2. ASSUME NEW value \in BOOLEAN, SetEnabled(value) PROVE Quiet
  BY <1>2 DEF SetEnabled
<1>3. CASE Tick  BY <1>3 DEF Tick
<1>4. CASE UNCHANGED vars  BY <1>4 DEF vars
<1>5. QED BY <1>1, <1>2, <1>3, <1>4

\* No run throws the switch of its account.
LEMMA RunsKeepSwitch ==
  ASSUME NEW r \in Runs, Credential(r) \/ Process(r) \/ Finish(r)
  PROVE  UNCHANGED enabled
<1> USE DEF rowVars, custodyVars, receiptVars, procVars, accountVars
<1>1. CASE Credential(r)
  BY <1>1 DEF Credential, BeginSnapshot, DiscardSnapshot, PersistSnapshot, BeginImport,
              RotateGeneration, FinishImport, BeginGeneration, FinishGeneration,
              StartHelper, BeginSignIn, PublishSignIn, FinishSignIn
<1>2. CASE Process(r)
  BY <1>2 DEF Process, Spawn, MarkSpawned, StartTool, RecordGuest, StartProcess,
              RecordPid, Join, ProcessExits, OwnerDies
<1>3. CASE Finish(r)
  BY <1>3 DEF Finish, SettleUnrecorded, SettleOutcome, ReconcileGuest, Recover, RecoverClaude
<1>4. QED BY <1>1, <1>2, <1>3

\* What sharing promises.
SharedInv == ProbeAlone /\ GenerationStable /\ CapacityHeld

\* A finite set of leases does not grow when one is taken away.
LEMMA LeaseShrinks ==
  ASSUME TypeOK, CapacityHeld, NEW r, lease' \in {lease, lease \ {r}}
  PROVE  CapacityHeld'
<1>1. IsFiniteSet(lease)
  BY RunsAssumption, FS_Subset DEF TypeOK
<1>2. IsFiniteSet(lease \ {r}) /\ Cardinality(lease \ {r}) =< Cardinality(lease)
      /\ Cardinality(lease) \in Nat /\ Cardinality(lease \ {r}) \in Nat
  BY <1>1, FS_Subset, FS_CardinalityType, lease \ {r} \subseteq lease
<1>3. QED BY <1>2, CapacityAssumption DEF CapacityHeld

\* Admission keeps the account shared as promised.
LEMMA SharedAdmit ==
  ASSUME TypeOK, HeldInv, SharedInv, NEW r \in Runs, Admit(r)
  PROVE  SharedInv'
<1> USE DEF rowVars, custodyVars, receiptVars, procVars, accountVars
<1>0. phase[r] \in {"absent", "checked"} => r \notin lease
  BY DEF HeldInv, RowInv
<1>1. IsFiniteSet(lease)
  BY RunsAssumption, FS_Subset DEF TypeOK
<1>2. CASE PrepareRun(r)
  <2>1. lease' = lease \cup {r} /\ r \notin lease /\ Cardinality(lease) < Capacity
    BY <1>0, <1>2 DEF PrepareRun
  <2>2. CapacityHeld'
    <3>1. Cardinality(lease) \in Nat
      BY <1>1, FS_CardinalityType
    <3>2. Cardinality(lease \cup {r}) = Cardinality(lease) + 1
      BY <1>1, <2>1, FS_AddElement
    <3>3. QED BY <2>1, <3>1, <3>2, CapacityAssumption DEF CapacityHeld
  <2>3. \A s \in lease' : kind'[s] = "session"
    BY <1>2 DEF PrepareRun, Probes, TypeOK
  <2>4. \A s \in lease' : captured'[s] = gen'
    BY <1>2, <2>1 DEF PrepareRun, Probes, TypeOK, SharedInv, GenerationStable
  <2>5. QED BY <2>2, <2>3, <2>4 DEF SharedInv, ProbeAlone, GenerationStable
<1>3. ASSUME NEW k \in Kinds, CheckProbe(r, k) PROVE SharedInv'
  <2>1. r \notin lease /\ lease' = lease /\ gen' = gen /\ captured' = captured
        /\ \A s \in lease : kind'[s] = kind[s]
    BY <1>0, <1>3 DEF CheckProbe, TypeOK
  <2>2. QED BY <2>1 DEF SharedInv, ProbeAlone, GenerationStable, CapacityHeld
<1>4. CASE PrepareProbe(r)
  <2>1. lease' = {r} /\ gen' = gen /\ captured'[r] = gen
    BY <1>4 DEF PrepareProbe, TypeOK
  <2>2. CapacityHeld'
    <3>1. Cardinality({r}) = 1
      BY FS_Singleton
    <3>2. QED BY <2>1, <3>1, CapacityAssumption DEF CapacityHeld
  <2>3. QED BY <2>1, <2>2 DEF SharedInv, ProbeAlone, GenerationStable
<1>5. QED BY <1>2, <1>3, <1>4 DEF Admit

\* Every step keeps the account shared as promised.
LEMMA SharedStep == TypeOK /\ HeldInv /\ SharedInv /\ [Next]_vars => SharedInv'
<1> SUFFICES ASSUME TypeOK, HeldInv, SharedInv, [Next]_vars PROVE SharedInv'
  OBVIOUS
<1>1. ASSUME Quiet PROVE SharedInv'
  BY <1>1 DEF Quiet, SharedInv, ProbeAlone, GenerationStable, CapacityHeld
<1>2. ASSUME NEW r \in Runs, Admit(r) PROVE SharedInv'
  BY <1>2, SharedAdmit
<1>3. ASSUME NEW r \in Runs, Credential(r) PROVE SharedInv'
  <2>1. CASE Quiet  BY <1>1, <2>1
  <2>2. CASE /\ UNCHANGED <<kind, captured, created, lease>>
             /\ r \in lease /\ kind[r] # "session" /\ gen' = gen + 1
    BY <2>2 DEF SharedInv, ProbeAlone, GenerationStable, CapacityHeld
  <2>3. QED BY <1>3, <2>1, <2>2, QuietCredential
<1>4. ASSUME NEW r \in Runs, Process(r) PROVE SharedInv'
  BY <1>1, <1>4, QuietProcess
<1>5. ASSUME NEW r \in Runs, Finish(r) PROVE SharedInv'
  <2>1. CapacityHeld'
    BY <1>5, FinishReleases, LeaseShrinks DEF SharedInv
  <2>2. ProbeAlone' /\ GenerationStable'
    BY <1>5, FinishReleases DEF SharedInv, ProbeAlone, GenerationStable
  <2>3. QED BY <2>1, <2>2 DEF SharedInv
<1>6. QED BY <1>1, <1>2, <1>3, <1>4, <1>5, QuietOther DEF Next

\* Nobody holds the account at first.
LEMMA SharedInit == Init => SharedInv
  BY FS_EmptySet, CapacityAssumption
     DEF Init, SharedInv, ProbeAlone, GenerationStable, CapacityHeld

\* The sharing invariant and what it rests on hold together.
LEMMA Sharing == Spec => [](TypeOK /\ HeldInv /\ SharedInv)
  BY TypeInit, HeldInit, SharedInit, TypeStep, HeldStep, SharedStep, PTL DEF Spec

\* A probe holds the account alone.
THEOREM ProbeIsAlone == Spec => []ProbeAlone
  BY Sharing, PTL DEF SharedInv

\* The credential generation does not change under a session run.
THEOREM GenerationIsStable == Spec => []GenerationStable
  BY Sharing, PTL DEF SharedInv

\* The configured capacity is never exceeded.
THEOREM CapacityIsHeld == Spec => []CapacityHeld
  BY Sharing, PTL DEF SharedInv
-----------------------------------------------------------------------------
(* The switch of the account.                                              *)

\* The switch is thrown only on a free account, and only a probe, which the
\* read of a row that has changed since may admit, enters a disabled one.
LEMMA DisabledStep == TypeOK /\ HeldInv /\ DisabledIdle /\ [Next]_vars => DisabledIdle'
<1> SUFFICES ASSUME TypeOK, HeldInv, DisabledIdle, [Next]_vars PROVE DisabledIdle'
  OBVIOUS
<1> USE DEF rowVars, custodyVars, receiptVars, procVars, accountVars
<1>1. ASSUME UNCHANGED <<kind, enabled>>, lease' \subseteq lease PROVE DisabledIdle'
  BY <1>1 DEF DisabledIdle
<1>2. ASSUME NEW r \in Runs, Admit(r) PROVE DisabledIdle'
  <2>1. CASE PrepareRun(r)
    BY <2>1 DEF PrepareRun, DisabledIdle
  <2>2. ASSUME NEW k \in Kinds, CheckProbe(r, k) PROVE DisabledIdle'
    BY <2>2 DEF CheckProbe, DisabledIdle
  <2>3. CASE PrepareProbe(r)
    BY <2>3 DEF PrepareProbe, DisabledIdle, HeldInv, RowInv
  <2>4. QED BY <1>2, <2>1, <2>2, <2>3 DEF Admit
<1>3. ASSUME NEW r \in Runs, Credential(r) \/ Process(r) \/ Finish(r)
      PROVE  DisabledIdle'
  <2>1. UNCHANGED enabled
    BY <1>3, RunsKeepSwitch
  <2>2. UNCHANGED kind /\ lease' \subseteq lease
    BY <1>3, CredentialKeepsProcesses, QuietProcess, FinishReleases DEF Quiet
  <2>3. QED BY <1>1, <2>1, <2>2
<1>4. CASE Reboot  BY <1>1, <1>4 DEF Reboot
<1>5. ASSUME NEW value \in BOOLEAN, SetEnabled(value) PROVE DisabledIdle'
  BY <1>5 DEF SetEnabled, DisabledIdle
<1>6. CASE Tick  BY <1>1, <1>6 DEF Tick
<1>7. CASE UNCHANGED vars  BY <1>1, <1>7 DEF vars
<1>8. QED BY <1>2, <1>3, <1>4, <1>5, <1>6, <1>7 DEF Next

\* No turn runs on a disabled account.
THEOREM DisabledIsIdle == Spec => []DisabledIdle
<1>1. Init => DisabledIdle
  BY DEF Init, DisabledIdle
<1>2. QED BY <1>1, TypeInit, HeldInit, TypeStep, HeldStep, DisabledStep, PTL DEF Spec

-----------------------------------------------------------------------------
(* The lock of SharedAccount.                                              *)

\* A step that leaves the leases alone is work of runs that hold the account.
LEMMA QuietIsWork ==
  ASSUME HeldInv', Quiet
  PROVE  Shared!Next
<1>1. {r \in Runs : up[r] # {}}' \subseteq lease'
  BY DEF HeldInv, RowInv
<1>2. QED BY <1>1 DEF Quiet, Probes, Shared!Next, Shared!Work

\* Admission takes the lock, shared or alone; the first half of a probe's
\* admission takes nothing.
LEMMA AdmitAcquires ==
  ASSUME TypeOK, HeldInv, HeldInv', NEW r \in Runs, Admit(r)
  PROVE  Shared!Next \/ UNCHANGED Shared!vars
<1> USE DEF rowVars, custodyVars, receiptVars, procVars, accountVars
<1>0. phase[r] \in {"absent", "checked"} => r \notin lease
  BY DEF HeldInv, RowInv
<1>1. CASE PrepareRun(r)
  <2>1. Probes(lease)' = {}
    BY <1>1 DEF PrepareRun, Probes, TypeOK
  <2>2. Shared!Cardinality(lease) = Cardinality(lease)
    BY DEF Cardinality, Shared!Cardinality
  <2>3. Shared!AcquireShared(r)
    BY <1>0, <1>1, <2>1, <2>2 DEF PrepareRun, Shared!AcquireShared
  <2>4. QED BY <2>3 DEF Shared!Next
<1>2. ASSUME NEW k \in Kinds, CheckProbe(r, k)
      PROVE  Shared!Next \/ UNCHANGED Shared!vars
  <2>1. lease' = lease /\ up' = up /\ \A s \in lease : kind'[s] = kind[s]
    BY <1>0, <1>2 DEF CheckProbe, TypeOK
  <2>2. Probes(lease)' = Probes(lease)
    BY <2>1 DEF Probes
  <2>3. QED BY <2>1, <2>2 DEF Shared!vars
<1>3. CASE PrepareProbe(r)
  <2>1. kind[r] # "session"
    BY <1>3 DEF PrepareProbe, HeldInv, RowInv
  <2>2. lease' = {r} /\ kind' = kind /\ up' = up /\ lease = {}
    BY <1>3 DEF PrepareProbe
  <2>3. Probes(lease)' = {r}
    BY <2>1, <2>2 DEF Probes
  <2>4. Shared!AcquireSole(r)
    BY <2>2, <2>3 DEF Shared!AcquireSole
  <2>5. QED BY <2>4 DEF Shared!Next
<1>4. QED BY <1>1, <1>2, <1>3 DEF Admit

\* Settlement and recovery release the lock, and only of a run at rest.
LEMMA FinishReleasesLock ==
  ASSUME HeldInv', NEW r \in Runs, Finish(r)
  PROVE  Shared!Next
<1>1. CASE lease' = lease
  BY <1>1, FinishReleases, QuietIsWork DEF Quiet
<1>2. CASE r \in lease /\ lease' = lease \ {r}
  <2>1. UNCHANGED <<kind, up>>
    BY FinishReleases
  <2>2. up[r] = {}
    BY <1>2, <2>1 DEF HeldInv, RowInv
  <2>3. Probes(lease)' = Probes(lease) \ {r}
    BY <1>2, <2>1 DEF Probes
  <2>4. Shared!Release(r)
    BY <1>2, <2>1, <2>2, <2>3 DEF Shared!Release
  <2>5. QED BY <2>4 DEF Shared!Next
<1>3. QED BY <1>1, <1>2, FinishReleases

\* Every step of custody is a step of the lock, or one it does not see.
LEMMA LockStep ==
  TypeOK /\ HeldInv /\ HeldInv' /\ [Next]_vars => [Shared!Next]_(Shared!vars)
<1> SUFFICES ASSUME TypeOK, HeldInv, HeldInv', [Next]_vars
             PROVE  Shared!Next \/ UNCHANGED Shared!vars
  OBVIOUS
<1>1. ASSUME NEW r \in Runs, Admit(r) PROVE Shared!Next \/ UNCHANGED Shared!vars
  BY <1>1, AdmitAcquires
<1>2. ASSUME NEW r \in Runs, Credential(r) PROVE Shared!Next \/ UNCHANGED Shared!vars
  <2>1. UNCHANGED <<kind, lease, up>>
    BY <1>2, CredentialKeepsProcesses
  <2>2. QED BY <2>1 DEF Shared!vars, Probes
<1>3. ASSUME NEW r \in Runs, Process(r) PROVE Shared!Next
  BY <1>3, QuietProcess, QuietIsWork
<1>4. ASSUME NEW r \in Runs, Finish(r) PROVE Shared!Next
  BY <1>4, FinishReleasesLock
<1>5. ASSUME Quiet PROVE Shared!Next
  BY <1>5, QuietIsWork
<1>6. QED BY <1>1, <1>2, <1>3, <1>4, <1>5, QuietOther DEF Next

\* The account starts free.
LEMMA LockInit == Init => Shared!Init
  BY DEF Init, Probes, Shared!Init

\* Custody of the account implements the lock.
THEOREM ImplementsLock == Spec => SharedSpec
<1>1. Spec => [](TypeOK /\ HeldInv)
  BY TypeInit, HeldInit, TypeStep, HeldStep, PTL DEF Spec
<1>2. QED BY <1>1, LockInit, LockStep, PTL DEF Spec, SharedSpec, Shared!Spec

----------------------------------------------------------------------------
\* The availability circuit of the account.

\* A run grades the circuit only by settling with an outcome, which releases
\* its lease; its admission and its other steps leave the circuit alone.
LEMMA FinishGrades ==
  ASSUME NEW r \in Runs, Finish(r)
  PROVE  \/ UNCHANGED circuit
         \/ /\ r \in lease /\ lease' = lease \ {r}
            /\ \E class \in Classes, delay \in 1..MaxDelay :
                   circuit' = Graded(r, class, delay)
<1> USE DEF Release, rowVars, custodyVars, receiptVars, procVars, accountVars
<1>1. CASE SettleUnrecorded(r)  BY <1>1 DEF SettleUnrecorded
<1>2. ASSUME NEW class \in Classes, SettleOutcome(r, class)
      PROVE  /\ r \in lease /\ lease' = lease \ {r}
             /\ \E delay \in 1..MaxDelay : circuit' = Graded(r, class, delay)
  BY <1>2 DEF SettleOutcome, Owned
<1>3. CASE ReconcileGuest(r)  BY <1>3 DEF ReconcileGuest
<1>4. CASE Recover(r)  BY <1>4 DEF Recover
<1>5. CASE RecoverClaude(r)  BY <1>5 DEF RecoverClaude
<1>6. QED BY <1>1, <1>2, <1>3, <1>4, <1>5 DEF Finish

\* Admission leaves the circuit, the generation and the clock alone.
LEMMA AdmitKeepsCircuit ==
  ASSUME NEW r \in Runs, Admit(r)
  PROVE  UNCHANGED <<circuit, gen, clock>>
  BY DEF Admit, PrepareRun, CheckProbe, PrepareProbe, accountVars

\* So do the steps of no run in particular, except that the clock advances.
LEMMA OtherKeepsCircuit ==
  ASSUME TypeOK,
         Reboot \/ (\E value \in BOOLEAN : SetEnabled(value)) \/ Tick \/ UNCHANGED vars
  PROVE  Quiet /\ UNCHANGED circuit /\ clock' >= clock
<1> USE DEF rowVars, custodyVars, receiptVars, procVars, accountVars
<1>1. Quiet
  BY QuietOther
<1>2. CASE Reboot  BY <1>1, <1>2 DEF Reboot, TypeOK
<1>3. ASSUME NEW value \in BOOLEAN, SetEnabled(value)
      PROVE  UNCHANGED circuit /\ clock' >= clock
  BY <1>3 DEF SetEnabled, TypeOK
<1>4. CASE Tick  BY <1>1, <1>4 DEF Tick, TypeOK
<1>5. CASE UNCHANGED vars  BY <1>1, <1>5 DEF vars, TypeOK
<1>6. QED BY <1>1, <1>2, <1>3, <1>4, <1>5

\* Only an outcome of a run younger than an open refusal closes the circuit,
\* unless the credential is replaced.
LEMMA GradedClears ==
  ASSUME TypeOK, NEW r \in Runs, NEW class, NEW delay \in 1..MaxDelay,
         circuit' = Graded(r, class, delay), gen' = gen, Open, ~ Open'
  PROVE  created[r] > circuit.observed
<1>1. CASE ~ MayGrade(r)
  BY <1>1 DEF Graded, Open
<1>2. CASE MayGrade(r)
  BY <1>2 DEF MayGrade, TypeOK
<1>3. QED BY <1>1, <1>2

\* A step that closes the circuit replaces the credential or settles a run
\* that was prepared after the refusal.
LEMMA NoStaleClearStep ==
  ASSUME TypeOK, HeldInv, [Next]_vars, Open, ~ Open', gen' = gen
  PROVE  \E r \in lease \ lease' : created[r] > circuit.observed
<1>1. circuit' # circuit
  BY DEF Open
<1>2. ASSUME NEW r \in Runs, Admit(r) PROVE FALSE
  BY <1>1, <1>2, AdmitKeepsCircuit
<1>3. ASSUME NEW r \in Runs, Credential(r) PROVE FALSE
  BY <1>1, <1>3, CredentialKeepsProcesses
<1>4. ASSUME NEW r \in Runs, Process(r) PROVE FALSE
  BY <1>1, <1>4, QuietProcess
<1>5. ASSUME NEW r \in Runs, Finish(r)
      PROVE  \E s \in lease \ lease' : created[s] > circuit.observed
  <2>1. PICK class \in Classes, delay \in 1..MaxDelay :
            circuit' = Graded(r, class, delay)
    BY <1>1, <1>5, FinishGrades
  <2>2. r \in lease \ lease'
    BY <1>1, <1>5, FinishGrades
  <2>3. created[r] > circuit.observed
    BY <2>1, GradedClears
  <2>4. QED BY <2>2, <2>3
<1>6. QED BY <1>1, <1>2, <1>3, <1>4, <1>5, OtherKeepsCircuit DEF Next

\* A run that was already under way when the provider refused never closes
\* the circuit.
THEOREM ClearsAreFresh == Spec => NoStaleClear
<1>1. TypeOK /\ HeldInv /\ [Next]_vars =>
        [Open /\ ~ Open' =>
            \/ gen' # gen
            \/ \E r \in lease \ lease' : created[r] > circuit.observed]_vars
  BY NoStaleClearStep
<1>2. QED BY <1>1, TypeInit, HeldInit, TypeStep, HeldStep, PTL DEF Spec, NoStaleClear

-----------------------------------------------------------------------------
(* Trials.                                                                 *)

\* Nothing is dated in the future: neither the runs, nor the refusal, nor the
\* generation it speaks about.
DatedInv ==
    /\ circuit.observed =< clock
    /\ circuit.gen =< gen
    /\ \A r \in lease : created[r] =< clock

TrialInv == DatedInv /\ TrialAlone

\* Admission under an open circuit finds the account free.
LEMMA TrialAdmit ==
  ASSUME TypeOK, HeldInv, TrialInv, NEW r \in Runs, Admit(r)
  PROVE  TrialInv'
<1>0. phase[r] \in {"absent", "checked"} => r \notin lease
  BY DEF HeldInv, RowInv
<1>1. UNCHANGED <<circuit, gen, clock>> /\ Open' = Open
  BY AdmitKeepsCircuit DEF Open
<1>2. CASE PrepareRun(r)
  <2>1. lease' = lease \cup {r} /\ created' = [created EXCEPT ![r] = clock]
    BY <1>2 DEF PrepareRun
  <2>2. DatedInv'
    BY <1>1, <2>1 DEF TrialInv, DatedInv, TypeOK
  <2>3. Open => lease = {}
    <3>1. Open => Cardinality(lease) = 0
      BY <1>2 DEF PrepareRun, RecoveryAvailable
    <3>2. IsFiniteSet(lease)
      BY RunsAssumption, FS_Subset DEF TypeOK
    <3>3. QED BY <3>1, <3>2, FS_EmptySet
  <2>4. QED BY <1>1, <2>1, <2>2, <2>3 DEF TrialInv, TrialAlone
<1>3. ASSUME NEW k \in Kinds, CheckProbe(r, k) PROVE TrialInv'
  <2>1. /\ UNCHANGED <<lease, created>>
        /\ \A s \in lease : kind'[s] = kind[s]
    BY <1>0, <1>3 DEF CheckProbe, TypeOK
  <2>2. DatedInv'
    BY <1>1, <2>1 DEF TrialInv, DatedInv
  <2>3. QED BY <1>1, <2>1, <2>2 DEF TrialInv, TrialAlone
<1>4. CASE PrepareProbe(r)
  <2>1. lease' = {r} /\ created' = [created EXCEPT ![r] = clock]
    BY <1>4 DEF PrepareProbe
  <2>2. DatedInv'
    BY <1>1, <2>1 DEF TrialInv, DatedInv, TypeOK
  <2>3. QED BY <2>1, <2>2 DEF TrialInv, TrialAlone
<1>5. QED BY <1>2, <1>3, <1>4 DEF Admit

\* A grade speaks about the present: no run is newer than a refusal that has
\* just been recorded.
LEMMA TrialFinish ==
  ASSUME TypeOK, TrialInv, NEW r \in Runs, Finish(r)
  PROVE  TrialInv'
<1>1. UNCHANGED <<kind, created, gen, clock>> /\ lease' \subseteq lease
  BY FinishReleases
<1>2. CASE UNCHANGED circuit
  BY <1>1, <1>2 DEF TrialInv, DatedInv, TrialAlone, Open
<1>3. ASSUME NEW class \in Classes, NEW delay \in 1..MaxDelay,
             circuit' = Graded(r, class, delay), circuit' # circuit
      PROVE  TrialInv'
  <2>1. circuit'.observed = clock /\ circuit'.gen = gen
    BY <1>3 DEF Graded
  <2>2. DatedInv'
    BY <1>1, <2>1 DEF TrialInv, DatedInv, TypeOK
  <2>3. \A s \in lease' : ~ created'[s] > circuit'.observed
    BY <1>1, <2>1 DEF TrialInv, DatedInv, TypeOK
  <2>4. QED BY <2>2, <2>3 DEF TrialInv, TrialAlone
<1>4. QED BY <1>2, <1>3, FinishGrades

\* Every step keeps trials alone.
LEMMA TrialStep == TypeOK /\ HeldInv /\ TrialInv /\ [Next]_vars => TrialInv'
<1> SUFFICES ASSUME TypeOK, HeldInv, TrialInv, [Next]_vars PROVE TrialInv'
  OBVIOUS
<1>1. ASSUME Quiet, UNCHANGED circuit, clock' \in Nat, clock' >= clock PROVE TrialInv'
  BY <1>1 DEF Quiet, TrialInv, DatedInv, TrialAlone, Open, TypeOK
<1>2. clock' \in Nat
  BY TypeStep DEF TypeOK
<1>3. ASSUME NEW r \in Runs, Admit(r) PROVE TrialInv'
  BY <1>3, TrialAdmit
<1>4. ASSUME NEW r \in Runs, Credential(r) PROVE TrialInv'
  <2>1. UNCHANGED <<circuit, clock>> /\ clock >= clock
    BY <1>4, CredentialKeepsProcesses DEF TypeOK
  <2>2. CASE Quiet  BY <1>1, <1>2, <2>1, <2>2
  <2>3. CASE UNCHANGED <<kind, captured, created, lease>> /\ gen' = gen + 1
    <3>1. ~ Open'
      BY <2>1, <2>3 DEF Open, TrialInv, DatedInv, TypeOK
    <3>2. DatedInv'
      BY <2>1, <2>3 DEF TrialInv, DatedInv, TypeOK
    <3>3. QED BY <3>1, <3>2 DEF TrialInv, TrialAlone
  <2>4. QED BY <1>4, <2>2, <2>3, QuietCredential
<1>5. ASSUME NEW r \in Runs, Process(r) PROVE TrialInv'
  <2>1. Quiet /\ UNCHANGED <<circuit, clock>> /\ clock >= clock
    BY <1>5, QuietProcess DEF TypeOK
  <2>2. QED BY <1>1, <1>2, <2>1
<1>6. ASSUME NEW r \in Runs, Finish(r) PROVE TrialInv'
  BY <1>6, TrialFinish
<1>7. QED BY <1>1, <1>2, <1>3, <1>4, <1>5, <1>6, OtherKeepsCircuit DEF Next

\* No trial is under way at first.
LEMMA TrialInit == Init => TrialInv
  BY DEF Init, NoCircuit, TrialInv, DatedInv, TrialAlone, Open

\* A turn or an inference request prepared after a refusal that is still open
\* holds the account alone.
THEOREM TrialIsAlone == Spec => []TrialAlone
<1>1. TrialInv => TrialAlone
  BY DEF TrialInv
<1>2. QED BY <1>1, TypeInit, HeldInit, TrialInit, TypeStep, HeldStep, TrialStep, PTL
          DEF Spec
=============================================================================
