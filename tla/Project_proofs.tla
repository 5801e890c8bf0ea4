--------------------------- MODULE Project_proofs ---------------------------
(***************************************************************************)
(* Work under a project grant, for every set of programs, daemons and      *)
(* proposals and every limit: calls are asked and answered one at a time,  *)
(* a provider works only for a caller that waits for it, a program is      *)
(* resumed on evidence that still holds, and the grant counts exactly what *)
(* it admitted.                                                            *)
(***************************************************************************)
EXTENDS Project, FiniteSetTheorems, TLAPS

\* The types of TypeOK, variable by variable.
GrantType ==
    gen \in Nat /\ enabled \in BOOLEAN /\ live \in BOOLEAN /\ used \in 0 .. Budget

ProgType ==
    /\ prog \in [Programs -> Open \cup Closed \cup {"absent"}]
    /\ cancel \in [Programs -> BOOLEAN] /\ waits \in [Programs -> BOOLEAN]
    /\ hold \in [Programs -> {"none", "budget", "busy", "hour"}]
    /\ pinned \in [Programs -> Nat]
    /\ calls \in [Programs -> 0 .. MaxCalls] /\ awaits \in [Programs -> 0 .. MaxCalls]
    /\ slice \in [Programs -> {"off", "running", "call", "report", "error"}]

DaemonType ==
    /\ daemon \in [Daemons -> {"absent", "ready", "suspended", "uncertain", "terminal"}]
    /\ stopped \in [Daemons -> BOOLEAN] /\ on \in [Daemons -> 0 .. MaxCalls]
    /\ nudges \subseteq Daemons /\ mail \subseteq Daemons
    /\ intents \subseteq Call /\ results \subseteq Call

ChildType ==
    /\ child \in [Call -> Open \cup Closed \cup {"absent"}]
    /\ revoked \in [Call -> BOOLEAN] /\ session \in [Call -> BOOLEAN]
    /\ tried \in [Call -> BOOLEAN] /\ dismissed \in [Call -> BOOLEAN]
    /\ run \in [Call -> {"none", "live", "clean", "bad", "unsure"}]
    /\ born \in [Call -> Nat]

PropType ==
    /\ prop \in [Proposals -> {"absent", "deferred", "queued", "running", "input", "completed"}]
    /\ offered \in [Proposals -> Nat] /\ admitted \in [Proposals -> BOOLEAN]
    /\ other \in BOOLEAN

Types == GrantType /\ ProgType /\ DaemonType /\ ChildType /\ PropType

\* A program has a child for each call it made, and an answer to each but the
\* one it waits for; a provider works only on that one.
ProgramOf(p) ==
    /\ waits[p] => prog[p] = "queued" /\ awaits[p] = calls[p] /\ calls[p] > 0
    /\ (prog[p] = "running") <=> (slice[p] # "off")
    /\ prog[p] = "absent" => calls[p] = 0
    /\ \A i \in 1 .. MaxCalls :
           /\ (child[<<p, i>>] # "absent") <=> (i <= calls[p])
           /\ <<p, i>> \in results => i <= calls[p] /\ ~(waits[p] /\ i = calls[p])
           /\ i < calls[p] => <<p, i>> \in results
           /\ i = calls[p] /\ prog[p] \notin Closed /\ ~waits[p] => <<p, i>> \in results
           /\ run[<<p, i>>] = "live" => waits[p] /\ i = calls[p]

\* A daemon has answers to its first calls, has asked for none but the next,
\* and does not end while that is under way.
DaemonOf(d) ==
    /\ \A i \in 1 .. MaxCalls :
           /\ (<<d, i>> \in results) <=> (i < NextRequest(d))
           /\ <<d, i>> \in intents => i <= NextRequest(d)
           /\ child[<<d, i>>] # "absent" => <<d, i>> \in intents
    /\ <<d, NextRequest(d)>> \in intents => daemon[d] \in {"suspended", "uncertain"}
    /\ Suspended(d) => Pending(d) \in intents

\* A provider works on a call that is not answered, and only a child that
\* exists is answered; a child is charged to a grant that was in force.
ChildOf(c) ==
    /\ run[c] = "live" => c \notin results /\ child[c] \in {"running", "uncertain"}
    /\ c \in results => child[c] # "absent"
    /\ child[c] # "absent" => born[c] <= gen

\* A proposal is admitted once.
PropOf(x) ==
    admitted[x] => prop[x] \notin {"absent", "deferred"} /\ offered[x] <= gen

\* What the supervisor has read still holds, unless a row it compares has been
\* written since.
OpInv ==
    /\ op.kind \in {"idle", "admit", "publish", "resume", "request", "result", "nudge",
                    "tick", "suspend"}
    /\ op.kind = "admit" => /\ op.at \in Proposals
                            /\ Fresh(<<op.at>>) => prop[op.at] = "deferred"
    /\ op.kind = "publish" => /\ op.at \in Programs
                              /\ slice[op.at] = "call" /\ calls[op.at] < MaxCalls
    /\ op.kind = "resume" => /\ op.at \in Programs /\ waits[op.at]
                             /\ Fresh(Awaited(op.at)) =>
                                    Settles(Awaited(op.at)) /\ child[Awaited(op.at)] = "completed"
    /\ op.kind \in {"request", "result", "nudge", "tick", "suspend"} => op.at \in Daemons
    /\ op.kind \in {"request", "result"} => Suspended(op.at) /\ Pending(op.at) \notin results
    /\ op.kind = "request" => child[Pending(op.at)] = "absent"
    /\ op.kind = "result" => child[Pending(op.at)] # "absent" /\ run[Pending(op.at)] # "live"
    /\ op.kind \in {"tick", "suspend"} => daemon[op.at] = "uncertain"
    /\ op.kind = "suspend" => <<op.at, NextRequest(op.at)>> \in intents

\* The grant counts what it admitted.
Charged == {c \in Call : child[c] # "absent" /\ born[c] = gen}
Granted == {x \in Proposals : admitted[x] /\ offered[x] = gen}
GrantInv == IsFiniteSet(Charged) /\ IsFiniteSet(Granted)
            /\ used = Cardinality(Charged) + Cardinality(Granted)

ProgramInv == \A p \in Programs : ProgramOf(p)
DaemonInv == \A d \in Daemons : DaemonOf(d)
ChildInv == \A c \in Call : ChildOf(c)
PropInv == \A x \in Proposals : PropOf(x)

Inv == Types /\ ProgramInv /\ DaemonInv /\ ChildInv /\ PropInv /\ OpInv /\ GrantInv

-----------------------------------------------------------------------------
\* The bounds are natural numbers.
LEMMA Bounds == MaxCalls \in Nat /\ Budget \in Nat
BY BoundsAssumption

\* A call is a caller with a number.
LEMMA CallPair ==
    /\ \A o \in Callers, i \in 1 .. MaxCalls : <<o, i>> \in Call
    /\ \A c \in Call : c[1] \in Callers /\ c[2] \in 1 .. MaxCalls /\ c = <<c[1], c[2]>>
    /\ \A p \in Programs : p \in Callers /\ p \notin Daemons
    /\ \A d \in Daemons : d \in Callers /\ d \notin Programs
<1>1. \A o \in Callers, i \in 1 .. MaxCalls : <<o, i>> \in Call
  BY DEF Call
<1>2. \A c \in Call : c[1] \in Callers /\ c[2] \in 1 .. MaxCalls /\ c = <<c[1], c[2]>>
  BY DEF Call
<1>3. /\ \A p \in Programs : p \in Callers /\ p \notin Daemons
      /\ \A d \in Daemons : d \in Callers /\ d \notin Programs
  BY BoundsAssumption DEF Callers
<1> QED  BY <1>1, <1>2, <1>3

\* The next request of a daemon is a number.
LEMMA NextType ==
    ASSUME NEW d
    PROVE  NextRequest(d) \in 1 .. (MaxCalls + 1)
<1> DEFINE S == {i \in 1 .. MaxCalls : <<d, i>> \in results}
<1>1. IsFiniteSet(1 .. MaxCalls) /\ Cardinality(1 .. MaxCalls) = MaxCalls
  BY FS_Interval, Bounds
<1>2. IsFiniteSet(S) /\ Cardinality(S) <= MaxCalls
  BY <1>1, FS_Subset
<1>3. Cardinality(S) \in Nat
  BY <1>2, FS_CardinalityType
<1> QED  BY <1>2, <1>3, Bounds DEF NextRequest

-----------------------------------------------------------------------------
\* Nothing has happened at first.
LEMMA InitInv == Init => Inv
<1> SUFFICES ASSUME Init PROVE Inv
  OBVIOUS
<1> USE DEF Init
<1>1. Types
  <2>1. GrantType /\ PropType
    <3>1. {enabled, live, other} \subseteq BOOLEAN
      OBVIOUS
    <3>2. gen \in Nat /\ used \in 0 .. Budget
      BY Bounds
    <3>3. /\ prop \in [Proposals -> {"absent", "deferred", "queued", "running", "input", "completed"}]
          /\ offered \in [Proposals -> Nat] /\ admitted \in [Proposals -> BOOLEAN]
      OBVIOUS
    <3> QED  BY <3>1, <3>2, <3>3 DEF GrantType, PropType
  <2>4. DaemonType
    BY Bounds DEF DaemonType
  <2>2. ProgType
    BY Bounds DEF ProgType
  <2>3. ChildType
    BY DEF ChildType
  <2> QED  BY <2>1, <2>2, <2>3, <2>4 DEF Types
<1>2. ProgramInv
  <2> SUFFICES ASSUME NEW p \in Programs PROVE ProgramOf(p)  BY DEF ProgramInv
  <2> QED  BY CallPair DEF ProgramOf
<1>3. DaemonInv
  <2> SUFFICES ASSUME NEW d \in Daemons PROVE DaemonOf(d)  BY DEF DaemonInv
  <2>1. NextRequest(d) = 1
    <3>1. {i \in 1 .. MaxCalls : <<d, i>> \in results} = {}
      OBVIOUS
    <3>2. Cardinality({i \in 1 .. MaxCalls : <<d, i>> \in results}) = 0
      BY <3>1, FS_EmptySet
    <3> QED  BY <3>2 DEF NextRequest
  <2> QED  BY <2>1, CallPair DEF DaemonOf, Suspended
<1>4. ChildInv /\ PropInv
  BY DEF ChildInv, ChildOf, PropInv, PropOf
<1>5. OpInv
  BY DEF OpInv, Idle
<1>6. GrantInv
  <2>1. Charged = {} /\ Granted = {}
    BY DEF Charged, Granted
  <2> QED  BY <2>1, FS_EmptySet DEF GrantInv
<1> QED  BY <1>1, <1>2, <1>3, <1>4, <1>5, <1>6 DEF Inv

-----------------------------------------------------------------------------
(* Types.                                                                  *)

\* Which steps write the policy row, and how.
LEMMA GrantMoves ==
    ASSUME [Next]_vars
    PROVE  \/ UNCHANGED grantVars
           \/ Configure \/ SetEnabled \/ Expire
           \/ \E x \in Proposals : AdmitCommit(x)
           \/ \E p \in Programs : PublishCommit(p)
           \/ \E d \in Daemons : RequestCommit(d)
<1>1. ASSUME Workspace PROVE UNCHANGED grantVars \/ \E x \in Proposals : AdmitCommit(x)
  BY <1>1 DEF Workspace, OtherOpens, OtherCloses, Propose, AdmitBegin, Proposed, Backlog
<1>2. ASSUME NEW p \in Programs, Program(p) PROVE UNCHANGED grantVars \/ PublishCommit(p)
  BY <1>2 DEF Program, Submit, CancelProgram, CancelQueued, Launch, Deferred, SliceEnds, Finish,
              PublishBegin, CancelChild, CloseParent, ResumeBegin, ResumeCommit
<1>3. ASSUME NEW d \in Daemons, Daemon(d) PROVE UNCHANGED grantVars \/ RequestCommit(d)
  BY <1>3 DEF Daemon, Enqueue, Send, Stop, CancelRequested, RequestBegin, ResultBegin,
              ResultCommit, Nudge, TickBegin, Recover, Execute, Suspend, TickEnds
<1>4. ASSUME NEW c \in Call, Child(c) PROVE UNCHANGED grantVars
  BY <1>4 DEF Child, Others, Dispatch, Record, CloseUnstarted, RecoverRun, RunSettles,
              CancelTask, Reply, Continue, Dismiss
<1>5. Crash \/ UNCHANGED vars => UNCHANGED grantVars
  BY DEF Crash, vars
<1> QED  BY <1>1, <1>2, <1>3, <1>4, <1>5 DEF Next, Grant

\* The policy row keeps its types, and spends no more than its budget.
LEMMA GrantTypeStep == Types /\ [Next]_vars => GrantType'
<1> SUFFICES ASSUME Types, [Next]_vars PROVE GrantType'
  OBVIOUS
<1>0. GrantType /\ Budget \in Nat
  BY Bounds DEF Types
<1>1. ASSUME Admitted, used < Budget PROVE GrantType'
  BY <1>0, <1>1 DEF Admitted, GrantType
<1>2. CASE UNCHANGED grantVars
  BY <1>0, <1>2 DEF GrantType, grantVars
<1>3. CASE Configure \/ SetEnabled \/ Expire
  <2>1. enabled' = ~enabled => enabled' \in BOOLEAN
    BY <1>0 DEF GrantType
  <2>2. CASE Configure
    BY <1>0, <2>2 DEF Configure, GrantType
  <2>3. CASE SetEnabled
    BY <1>0, <2>1, <2>3 DEF SetEnabled, GrantType
  <2>4. CASE Expire
    BY <1>0, <2>4 DEF Expire, GrantType
  <2> QED  BY <1>3, <2>2, <2>3, <2>4
<1>4. ASSUME NEW x \in Proposals, AdmitCommit(x) PROVE GrantType'
  BY <1>1, <1>2, <1>4 DEF AdmitCommit, GrantHolds
<1>5. ASSUME NEW p \in Programs, PublishCommit(p) PROVE GrantType'
  BY <1>1, <1>2, <1>5 DEF PublishCommit, GrantHolds, Publish
<1>6. ASSUME NEW d \in Daemons, RequestCommit(d) PROVE GrantType'
  BY <1>1, <1>2, <1>6 DEF RequestCommit, GrantHolds
<1> QED  BY <1>2, <1>3, <1>4, <1>5, <1>6, GrantMoves

\* Who writes the proposals.
LEMMA PropMoves ==
    ASSUME [Next]_vars
    PROVE  UNCHANGED ownVars \/ Workspace
<1>1. Grant => UNCHANGED ownVars
  BY DEF Grant, Configure, SetEnabled, Expire
<1>2. ASSUME NEW p \in Programs, Program(p) PROVE UNCHANGED ownVars
  BY <1>2 DEF Program, Submit, CancelProgram, CancelQueued, Launch, Deferred, SliceEnds,
         Finish, PublishBegin, PublishCommit, CancelChild, CloseParent, ResumeBegin, ResumeCommit
<1>3. ASSUME NEW d \in Daemons, Daemon(d) PROVE UNCHANGED ownVars
  BY <1>3 DEF Daemon, Enqueue, Send, Stop, CancelRequested, RequestBegin, RequestCommit,
         ResultBegin, ResultCommit, Nudge, TickBegin, Recover, Execute, Suspend, TickEnds
<1>4. ASSUME NEW c \in Call, Child(c) PROVE UNCHANGED ownVars
  BY <1>4 DEF Child, Others, Dispatch, Record, CloseUnstarted, RecoverRun, RunSettles,
         CancelTask, Reply, Continue, Dismiss
<1>5. Crash \/ UNCHANGED vars => UNCHANGED ownVars
  BY DEF Crash, vars
<1> QED  BY <1>1, <1>2, <1>3, <1>4, <1>5 DEF Next

\* The proposals keep their types.
LEMMA PropTypeStep == Types /\ [Next]_vars => PropType'
<1> SUFFICES ASSUME Types, [Next]_vars PROVE PropType'
  OBVIOUS
<1>0. PropType /\ GrantType
  BY DEF Types
<1>1. CASE UNCHANGED ownVars
  BY <1>0, <1>1 DEF PropType, ownVars, propVars
<1>2. CASE Workspace
  <2>1. CASE OtherOpens \/ OtherCloses
    BY <1>0, <2>1 DEF OtherOpens, OtherCloses, PropType, propVars
  <2>2. ASSUME NEW x \in Proposals, Propose(x) \/ AdmitBegin(x) \/ AdmitCommit(x) \/ Proposed(x)
        PROVE  PropType'
    BY <1>0, <2>2 DEF Propose, AdmitBegin, AdmitCommit, Proposed, PropType, GrantType,
                      ownVars, propVars
  <2>3. ASSUME NEW x \in Proposals, NEW to \in {"queued", "completed"}, Backlog(x, to)
        PROVE  PropType'
    BY <1>0, <2>3 DEF Backlog, PropType
  <2> QED  BY <1>2, <2>1, <2>2, <2>3 DEF Workspace
<1> QED  BY <1>1, <1>2, PropMoves

\* Who writes the programs ...
LEMMA ProgMoves ==
    ASSUME [Next]_vars
    PROVE  UNCHANGED progVars \/ Crash \/ \E p \in Programs : Program(p)
<1>1. Grant => UNCHANGED progVars
  BY DEF Grant, Configure, SetEnabled, Expire
<1>2. Workspace => UNCHANGED progVars
  BY DEF Workspace, OtherOpens, OtherCloses, Propose, AdmitBegin, AdmitCommit, Proposed, Backlog
<1>3. ASSUME NEW d \in Daemons, Daemon(d) PROVE UNCHANGED progVars
  BY <1>3 DEF Daemon, Enqueue, Send, Stop, CancelRequested, RequestBegin, RequestCommit,
         ResultBegin, ResultCommit, Nudge, TickBegin, Recover, Execute, Suspend, TickEnds
<1>4. ASSUME NEW c \in Call, Child(c) PROVE UNCHANGED progVars
  BY <1>4 DEF Child, Others, Dispatch, Record, CloseUnstarted, RecoverRun, RunSettles,
         CancelTask, Reply, Continue, Dismiss
<1>5. UNCHANGED vars => UNCHANGED progVars
  BY DEF vars
<1> QED  BY <1>1, <1>2, <1>3, <1>4, <1>5 DEF Next

\* ... the daemons and the answers ...
LEMMA DaemonMoves ==
    ASSUME [Next]_vars
    PROVE  \/ UNCHANGED <<daemonVars, results>>
           \/ \E d \in Daemons : Daemon(d)
           \/ \E p \in Programs : ResumeCommit(p)
<1>1. Grant => UNCHANGED <<daemonVars, results>>
  BY DEF Grant, Configure, SetEnabled, Expire
<1>2. Workspace => UNCHANGED <<daemonVars, results>>
  BY DEF Workspace, OtherOpens, OtherCloses, Propose, AdmitBegin, AdmitCommit, Proposed, Backlog
<1>3. ASSUME NEW p \in Programs, Program(p)
      PROVE  UNCHANGED <<daemonVars, results>> \/ ResumeCommit(p)
  BY <1>3 DEF Program, Submit, CancelProgram, CancelQueued, Launch, Deferred, SliceEnds,
         Finish, PublishBegin, PublishCommit, CancelChild, CloseParent, ResumeBegin
<1>4. ASSUME NEW c \in Call, Child(c) PROVE UNCHANGED <<daemonVars, results>>
  BY <1>4 DEF Child, Others, Dispatch, Record, CloseUnstarted, RecoverRun, RunSettles,
         CancelTask, Reply, Continue, Dismiss
<1>5. Crash \/ UNCHANGED vars => UNCHANGED <<daemonVars, results>>
  BY DEF Crash, vars
<1> QED  BY <1>1, <1>2, <1>3, <1>4, <1>5 DEF Next

\* ... and the children.
LEMMA ChildMoves ==
    ASSUME [Next]_vars
    PROVE  \/ UNCHANGED childVars \/ Crash
           \/ \E c \in Call : Child(c)
           \/ \E p \in Programs : PublishCommit(p) \/ CancelChild(p)
           \/ \E d \in Daemons : CancelRequested(d) \/ RequestCommit(d)
<1>1. Grant => UNCHANGED childVars
  BY DEF Grant, Configure, SetEnabled, Expire
<1>2. Workspace => UNCHANGED childVars
  BY DEF Workspace, OtherOpens, OtherCloses, Propose, AdmitBegin, AdmitCommit, Proposed, Backlog
<1>3. ASSUME NEW p \in Programs, Program(p)
      PROVE  UNCHANGED childVars \/ PublishCommit(p) \/ CancelChild(p)
  BY <1>3 DEF Program, Submit, CancelProgram, CancelQueued, Launch, Deferred, SliceEnds,
         Finish, PublishBegin, CloseParent, ResumeBegin, ResumeCommit
<1>4. ASSUME NEW d \in Daemons, Daemon(d)
      PROVE  UNCHANGED childVars \/ CancelRequested(d) \/ RequestCommit(d)
  BY <1>4 DEF Daemon, Enqueue, Send, Stop, RequestBegin, ResultBegin, ResultCommit, Nudge,
         TickBegin, Recover, Execute, Suspend, TickEnds
<1>5. UNCHANGED vars => UNCHANGED childVars
  BY DEF vars
<1> QED  BY <1>1, <1>2, <1>3, <1>4, <1>5 DEF Next

\* The programs keep their types.
LEMMA ProgTypeStep == Inv /\ [Next]_vars => ProgType'
<1> SUFFICES ASSUME Inv, [Next]_vars PROVE ProgType'
  OBVIOUS
<1>0. ProgType /\ GrantType /\ OpInv /\ MaxCalls \in Nat
  BY Bounds DEF Inv, Types
<1>1. CASE UNCHANGED progVars
  BY <1>0, <1>1 DEF ProgType, progVars, rowVars, execVars
<1>2. CASE Crash
  BY <1>0, <1>2 DEF Crash, ProgType, Open, execVars
<1>3. ASSUME NEW p \in Programs, NEW why \in {"none", "budget", "busy", "hour"}, Hold(p, why),
             UNCHANGED execVars
      PROVE  ProgType'
  BY <1>0, <1>3 DEF Hold, ProgType, Open, execVars
<1>4. ASSUME NEW p \in Programs, Program(p) PROVE ProgType'
  <2>1. CASE Submit(p) \/ CancelProgram(p) \/ CancelQueued(p) \/ Launch(p) \/ Deferred(p)
    <3>1. CASE Submit(p)
      BY <1>0, <3>1 DEF Submit, ProgType, GrantType, Open, execVars
    <3>2. CASE CancelProgram(p)
      BY <1>0, <3>2 DEF CancelProgram, ProgType, execVars
    <3>3. CASE CancelQueued(p)
      BY <1>0, <3>3 DEF CancelQueued, ProgType, Closed, execVars
    <3>4. CASE Launch(p)
      BY <1>0, <3>4 DEF Launch, ProgType, Open, execVars
    <3>5. CASE Deferred(p)
      BY <1>0, <3>5 DEF Deferred, ProgType, execVars
    <3> QED  BY <2>1, <3>1, <3>2, <3>3, <3>4, <3>5
  <2>2. ASSUME NEW out \in {"call", "report", "error"}, SliceEnds(p, out) PROVE ProgType'
    BY <1>0, <2>2 DEF SliceEnds, ProgType, rowVars, execVars
  <2>3. CASE Finish(p)
    BY <1>0, <2>3 DEF Finish, ProgType, Closed, execVars
  <2>4. AuthorityHold(p) \in {"none", "budget", "busy", "hour"}
    BY DEF AuthorityHold
  <2>5. CASE PublishBegin(p)
    BY <1>1, <1>3, <2>4, <2>5 DEF PublishBegin, progVars
  <2>6. ASSUME PublishCommit(p), NEW at, Publish(p, at) PROVE ProgType'
    <3>1. calls[p] + 1 \in 0 .. MaxCalls
      <4>1. calls[p] \in 0 .. MaxCalls /\ calls[p] < MaxCalls
        BY <1>0, <2>6 DEF PublishCommit, In, OpInv, ProgType
      <4> QED  BY <1>0, <4>1
    <3> QED  BY <1>0, <2>6, <3>1 DEF Publish, ProgType, Open
  <2>7. CASE PublishCommit(p)
    BY <1>1, <1>3, <2>4, <2>6, <2>7 DEF PublishCommit
  <2>8. CASE CancelChild(p) \/ ResumeBegin(p)
    BY <1>1, <2>8 DEF CancelChild, ResumeBegin
  <2>9. CASE CloseParent(p)
    BY <1>0, <2>9 DEF CloseParent, ProgType, Closed, execVars
  <2>10. CASE ResumeCommit(p)
    <3>1. /\ awaits' \in {awaits, [awaits EXCEPT ![p] = 0]}
          /\ waits' \in {waits, [waits EXCEPT ![p] = FALSE]}
          /\ UNCHANGED <<prog, cancel, hold, pinned, calls, slice>>
      BY <2>10 DEF ResumeCommit
    <3>2. awaits' \in [Programs -> 0 .. MaxCalls]
      BY <1>0, <3>1 DEF ProgType
    <3>3. waits' \in [Programs -> BOOLEAN]
      BY <1>0, <3>1 DEF ProgType
    <3> QED  BY <1>0, <3>1, <3>2, <3>3 DEF ProgType
  <2> QED  BY <1>4, <2>1, <2>2, <2>3, <2>5, <2>7, <2>8, <2>9, <2>10 DEF Program
<1> QED  BY <1>1, <1>2, <1>4, ProgMoves

\* The daemons keep their types.
LEMMA DaemonTypeStep == Inv /\ [Next]_vars => DaemonType'
<1> SUFFICES ASSUME Inv, [Next]_vars PROVE DaemonType'
  OBVIOUS
<1>0. DaemonType /\ ProgType /\ OpInv /\ DaemonInv /\ ProgramInv
  BY DEF Inv, Types
<1>1. CASE UNCHANGED <<daemonVars, results>>
  BY <1>0, <1>1 DEF DaemonType, daemonVars, recordVars
<1>2. ASSUME NEW p \in Programs, ResumeCommit(p) PROVE DaemonType'
  <2>1. Awaited(p) \in Call
    <3>1. waits[p]
      BY <1>0, <1>2 DEF ResumeCommit, In, OpInv
    <3>2. awaits[p] \in 1 .. MaxCalls
      BY <1>0, <3>1, Bounds DEF ProgramInv, ProgramOf, ProgType
    <3> QED  BY <3>2, CallPair DEF Awaited
  <2> QED  BY <1>0, <1>2, <2>1 DEF ResumeCommit, DaemonType, daemonVars, recordVars
<1>3. ASSUME NEW d \in Daemons, Daemon(d) PROVE DaemonType'
  <2>1. CASE Enqueue(d) \/ Send(d) \/ Stop(d)
    BY <1>0, <2>1 DEF Enqueue, Send, Stop, DaemonType, recordVars
  <2>2. CASE CancelRequested(d) \/ RequestBegin(d) \/ RequestCommit(d) \/ ResultBegin(d) \/ Recover(d)
    BY <1>1, <2>2 DEF CancelRequested, RequestBegin, RequestCommit, ResultBegin, Recover
  <2>3. CASE ResultCommit(d)
    <3>1. on[d] \in 1 .. MaxCalls
      BY <1>0, <2>3, Bounds DEF ResultCommit, In, OpInv, Suspended, DaemonType
    <3>2. Pending(d) \in Call
      BY <3>1, CallPair DEF Pending
    <3> QED  BY <1>0, <2>3, <3>2 DEF ResultCommit, DaemonType, daemonVars, recordVars
  <2>4. CASE Nudge(d) \/ TickBegin(d)
    BY <1>0, <2>4 DEF Nudge, TickBegin, DaemonType, recordVars
  <2>5. CASE Execute(d)
    <3>1. <<d, NextRequest(d)>> \in Call
      <4>1. NextRequest(d) \in 1 .. MaxCalls
        BY <2>5, NextType, Bounds DEF Execute
      <4> QED  BY <4>1, CallPair
    <3> QED  BY <1>0, <2>5, <3>1 DEF Execute, DaemonType, recordVars
  <2>6. CASE Suspend(d)
    <3>1. NextRequest(d) \in 0 .. MaxCalls
      <4>1. <<d, NextRequest(d)>> \in Call
        BY <1>0, <2>6 DEF Suspend, In, OpInv, DaemonType
      <4> QED  BY <4>1, CallPair, Bounds
    <3> QED  BY <1>0, <2>6, <3>1 DEF Suspend, DaemonType
  <2>7. CASE TickEnds(d)
    BY <1>0, <2>7, Bounds DEF TickEnds, DaemonType
  <2> QED  BY <1>3, <2>1, <2>2, <2>3, <2>4, <2>5, <2>6, <2>7 DEF Daemon
<1> QED  BY <1>1, <1>2, <1>3, DaemonMoves

\* The children keep their types.
LEMMA ChildTypeStep == Inv /\ [Next]_vars => ChildType'
<1> SUFFICES ASSUME Inv, [Next]_vars PROVE ChildType'
  OBVIOUS
<1>0. ChildType /\ ProgType /\ GrantType /\ OpInv
  BY DEF Inv, Types
<1>1. CASE UNCHANGED childVars
  BY <1>0, <1>1 DEF ChildType, childVars
<1>2. CASE Crash
  BY <1>0, <1>2 DEF Crash, ChildType, Open
<1>3. ASSUME NEW c, Revoke(c) PROVE ChildType'
  BY <1>0, <1>3 DEF Revoke, ChildType
<1>4. ASSUME NEW c, NEW g \in Nat, NEW at \in {"queued", "input"}, Born(c, g, at)
      PROVE  ChildType'
  BY <1>0, <1>4 DEF Born, ChildType, Open
<1>5. ASSUME NEW p \in Programs, PublishCommit(p) PROVE ChildType'
  <2>1. pinned[p] \in Nat
    BY <1>0 DEF ProgType
  <2>2. ASSUME NEW at \in {"queued", "input"}, Publish(p, at) PROVE ChildType'
    <3>1. Born(<<p, calls[p] + 1>>, pinned[p], at)
      BY <2>2 DEF Publish
    <3> QED  BY <1>4, <2>1, <3>1
  <2> QED  BY <1>1, <1>5, <2>2 DEF PublishCommit
<1>6. ASSUME NEW p \in Programs, CancelChild(p) PROVE ChildType'
  BY <1>3, <1>6 DEF CancelChild
<1>7. ASSUME NEW d \in Daemons, CancelRequested(d) PROVE ChildType'
  BY <1>3, <1>7 DEF CancelRequested
<1>8. ASSUME NEW d \in Daemons, RequestCommit(d) PROVE ChildType'
  BY <1>0, <1>1, <1>4, <1>8 DEF RequestCommit, GrantType
<1>9. ASSUME NEW c \in Call, Child(c) PROVE ChildType'
  <2>1. ASSUME NEW at \in Open \cup Closed, Becomes(c, at) PROVE ChildType'
    BY <1>0, <2>1 DEF Becomes, ChildType
  <2>2. ASSUME NEW kept \in BOOLEAN, Again(c, kept), UNCHANGED <<session, run>> PROVE ChildType'
    BY <1>0, <2>2 DEF Again, ChildType, Open
  <2>3. ASSUME NEW to \in {"none", "live", "clean", "bad", "unsure"}, RunIs(c, to) PROVE ChildType'
    BY <1>0, <2>3 DEF RunIs, ChildType
  <2>4. {"uncertain", "cancelled", "completed", "failed", "input"} \subseteq Open \cup Closed
        /\ tried[c] \in BOOLEAN
    BY <1>0 DEF Open, Closed, ChildType
  <2>5. CASE Dispatch(c)
    BY <1>0, <2>5 DEF Dispatch, ChildType, Open
  <2>6. CASE Record(c)
    <3>1. ASSUME NEW kept \in {TRUE, tried[c]}, Again(c, kept),
                 session' = [session EXCEPT ![c] = FALSE], run' = [run EXCEPT ![c] = "none"]
          PROVE  ChildType'
      BY <1>0, <2>4, <3>1 DEF Again, ChildType, Open
    <3> QED  BY <2>1, <2>2, <2>4, <2>6, <3>1 DEF Record
  <2>7. CASE CloseUnstarted(c)
    <3>1. CASE /\ child' = [child EXCEPT ![c] = "cancelled"]
               /\ revoked' = [revoked EXCEPT ![c] = FALSE]
               /\ UNCHANGED <<session, tried, run, dismissed, born>>
      BY <1>0, <3>1 DEF ChildType, Closed
    <3> QED  BY <2>1, <2>4, <2>7, <3>1 DEF CloseUnstarted
  <2>8. CASE RecoverRun(c)
    BY <2>3, <2>8 DEF RecoverRun
  <2>9. ASSUME NEW to \in {"clean", "bad", "unsure"}, RunSettles(c, to) PROVE ChildType'
    BY <2>3, <2>9 DEF RunSettles
  <2>10. CASE CancelTask(c)
    BY <1>3, <2>10 DEF CancelTask
  <2>11. CASE Reply(c) \/ Continue(c)
    BY <2>2, <2>11 DEF Reply, Continue
  <2>12. CASE Dismiss(c)
    <3>1. CASE /\ child' = [child EXCEPT ![c] = "failed"]
               /\ revoked' = [revoked EXCEPT ![c] = FALSE]
               /\ dismissed' = [dismissed EXCEPT ![c] = TRUE]
               /\ UNCHANGED <<session, tried, run, born>>
      BY <1>0, <3>1 DEF ChildType, Closed
    <3> QED  BY <2>1, <2>4, <2>12, <3>1 DEF Dismiss
  <2> QED  BY <1>9, <2>5, <2>6, <2>7, <2>8, <2>9, <2>10, <2>11, <2>12 DEF Child
<1> QED  BY <1>1, <1>2, <1>5, <1>6, <1>7, <1>8, <1>9, ChildMoves

\* All together.
LEMMA TypesStep == Inv /\ [Next]_vars => Types'
BY GrantTypeStep, ProgTypeStep, DaemonTypeStep, ChildTypeStep, PropTypeStep DEF Inv, Types

-----------------------------------------------------------------------------
(* What a step does to one child, to one answer and to one program.        *)

\* A child that is there stays, under its grant, and none appears.
Kept(c) ==
    /\ (child'[c] = "absent") <=> (child[c] = "absent")
    /\ child[c] # "absent" => born'[c] = born[c]

\* A child of a program, or of a daemon, is made.
Made(p) == PublishCommit(p) /\ \E at \in {"queued", "input"} : Publish(p, at)
Asked(d) == RequestCommit(d) /\ \E at \in {"queued", "input"} : Born(Pending(d), gen, at)

\* A row is made by a publication or a request, and never goes away.
LEMMA ChildKept ==
    ASSUME Inv, [Next]_vars, NEW c \in Call
    PROVE  \/ Kept(c)
           \/ \E p \in Programs : Made(p) /\ c = <<p, calls[p] + 1>>
           \/ \E d \in Daemons : Asked(d) /\ c = Pending(d)
<1>0. ChildType
  BY DEF Inv, Types
<1>1. UNCHANGED childVars => Kept(c)
  BY DEF Kept, childVars
<1>2. Crash => Kept(c)
  BY <1>0 DEF Crash, Kept, ChildType
<1>3. ASSUME NEW b, Revoke(b) PROVE Kept(c)
  BY <1>3 DEF Revoke, Kept
<1>4. ASSUME NEW b \in Call, Child(b) PROVE Kept(c)
  <2>1. ASSUME NEW at, Becomes(b, at), at # "absent", child[b] # "absent" PROVE Kept(c)
    BY <1>0, <2>1 DEF Becomes, Kept, ChildType
  <2>2. ASSUME NEW kept, Again(b, kept), child[b] # "absent" PROVE Kept(c)
    BY <1>0, <2>2 DEF Again, Kept, ChildType
  <2>3. ASSUME NEW to, RunIs(b, to) PROVE Kept(c)
    BY <2>3 DEF RunIs, Kept
  <2>4. CASE Dispatch(b)
    BY <1>0, <2>4 DEF Dispatch, Kept, ChildType
  <2>5. CASE Record(b)
    BY <2>1, <2>2, <2>5 DEF Record
  <2>6. CASE CloseUnstarted(b)
    <3>1. CASE child' = [child EXCEPT ![b] = "cancelled"] /\ born' = born /\ child[b] # "absent"
      BY <1>0, <3>1 DEF Kept, ChildType
    <3> QED  BY <2>1, <2>6, <3>1 DEF CloseUnstarted
  <2>7. CASE RecoverRun(b) \/ \E to \in {"clean", "bad", "unsure"} : RunSettles(b, to)
    BY <2>3, <2>7 DEF RecoverRun, RunSettles
  <2>8. CASE CancelTask(b)
    BY <1>3, <2>8 DEF CancelTask
  <2>9. CASE Reply(b) \/ Continue(b)
    BY <2>2, <2>9 DEF Reply, Continue
  <2>10. CASE Dismiss(b)
    <3>1. CASE child' = [child EXCEPT ![b] = "failed"] /\ born' = born
      BY <1>0, <2>10, <3>1 DEF Kept, ChildType, Dismiss
    <3> QED  BY <2>1, <2>10, <3>1 DEF Dismiss
  <2> QED  BY <1>4, <2>4, <2>5, <2>6, <2>7, <2>8, <2>9, <2>10 DEF Child
<1>5. ASSUME NEW b, NEW g, NEW at, Born(b, g, at), c # b PROVE Kept(c)
  BY <1>0, <1>5 DEF Born, Kept, ChildType
<1>6. ASSUME NEW p \in Programs, PublishCommit(p) \/ CancelChild(p)
      PROVE  Kept(c) \/ (Made(p) /\ c = <<p, calls[p] + 1>>)
  <2>1. ASSUME NEW at \in {"queued", "input"}, Publish(p, at), PublishCommit(p)
        PROVE  Kept(c) \/ (Made(p) /\ c = <<p, calls[p] + 1>>)
    BY <1>5, <2>1 DEF Publish, Made
  <2> QED  BY <1>1, <1>3, <1>6, <2>1 DEF PublishCommit, CancelChild
<1>7. ASSUME NEW d \in Daemons, CancelRequested(d) \/ RequestCommit(d)
      PROVE  Kept(c) \/ (Asked(d) /\ c = Pending(d))
  <2>1. ASSUME NEW at \in {"queued", "input"}, Born(Pending(d), gen, at), RequestCommit(d)
        PROVE  Kept(c) \/ (Asked(d) /\ c = Pending(d))
    BY <1>5, <2>1 DEF Asked
  <2> QED  BY <1>1, <1>3, <1>7, <2>1 DEF RequestCommit, CancelRequested
<1> QED  BY <1>1, <1>2, <1>4, <1>6, <1>7, ChildMoves

\* A provider starts only where a child is dispatched.
LEMMA LiveByDispatch ==
    ASSUME Inv, [Next]_vars, NEW c \in Call, run'[c] = "live"
    PROVE  run[c] = "live" \/ Dispatch(c)
<1>0. ChildType
  BY DEF Inv, Types
<1>1. UNCHANGED childVars => run' = run
  BY DEF childVars
<1>2. ASSUME NEW b \in Call, Child(b) PROVE run[c] = "live" \/ Dispatch(c)
  <2>1. CASE Dispatch(b)
    BY <1>0, <2>1 DEF Dispatch, ChildType
  <2>2. ASSUME NEW to, to # "live", RunIs(b, to) PROVE run[c] = "live"
    BY <1>0, <2>2 DEF RunIs, ChildType
  <2>3. CASE Record(b)
    BY <1>0, <2>3 DEF Record, Becomes, ChildType
  <2>4. CASE CloseUnstarted(b) \/ CancelTask(b) \/ Reply(b) \/ Continue(b) \/ Dismiss(b)
    BY <2>4 DEF CloseUnstarted, CancelTask, Reply, Continue, Dismiss, Becomes, Revoke
  <2> QED  BY <1>2, <2>1, <2>2, <2>3, <2>4 DEF Child, RecoverRun, RunSettles
<1>3. ASSUME NEW p \in Programs, PublishCommit(p) \/ CancelChild(p) PROVE run' = run
  BY <1>1, <1>3 DEF PublishCommit, Publish, Born, CancelChild, Revoke
<1>4. ASSUME NEW d \in Daemons, CancelRequested(d) \/ RequestCommit(d) PROVE run' = run
  BY <1>1, <1>4 DEF CancelRequested, RequestCommit, Born, Revoke
<1>5. Crash => run' = run
  BY DEF Crash
<1> QED  BY <1>1, <1>2, <1>3, <1>4, <1>5, ChildMoves

\* An answer is added for a program that resumes, or for a daemon, and none is
\* taken back.
LEMMA Answers ==
    ASSUME [Next]_vars
    PROVE  \/ results' = results
           \/ \E p \in Programs : ResumeCommit(p) /\ results' = results \cup {Awaited(p)}
           \/ \E d \in Daemons : ResultCommit(d) /\ results' = results \cup {Pending(d)}
<1>1. ASSUME NEW p \in Programs, ResumeCommit(p)
      PROVE  results' = results \/ results' = results \cup {Awaited(p)}
  BY <1>1 DEF ResumeCommit
<1>2. ASSUME NEW d \in Daemons, Daemon(d)
      PROVE  results' = results \/ (ResultCommit(d) /\ results' = results \cup {Pending(d)})
  BY <1>2 DEF Daemon, Enqueue, Send, Stop, CancelRequested, RequestBegin, RequestCommit,
         ResultBegin, ResultCommit, Nudge, TickBegin, Recover, Execute, Suspend, TickEnds
<1> QED  BY <1>1, <1>2, DaemonMoves

\* What the invariant of a program reads of its row.
RowKept(p) ==
    /\ prog'[p] = prog[p] /\ waits'[p] = waits[p] /\ awaits'[p] = awaits[p]
    /\ calls'[p] = calls[p] /\ slice'[p] = slice[p]

\* A step of one program leaves the others alone.
LEMMA OtherPrograms ==
    ASSUME Inv, NEW p \in Programs, NEW q \in Programs, q # p, Program(q)
    PROVE  RowKept(p)
<1>0. ProgType
  BY DEF Inv, Types
<1>1. ASSUME NEW why, Hold(q, why), UNCHANGED execVars PROVE RowKept(p)
  BY <1>0, <1>1 DEF Hold, RowKept, ProgType, execVars
<1>2. UNCHANGED progVars => RowKept(p)
  BY DEF progVars, rowVars, execVars, RowKept
<1>3. CASE Submit(q) \/ CancelProgram(q) \/ CancelQueued(q) \/ Launch(q) \/ Deferred(q)
  BY <1>0, <1>3 DEF Submit, CancelProgram, CancelQueued, Launch, Deferred, RowKept, ProgType,
                    execVars
<1>4. ASSUME NEW out, SliceEnds(q, out) PROVE RowKept(p)
  BY <1>0, <1>4 DEF SliceEnds, RowKept, ProgType, rowVars, execVars
<1>5. CASE Finish(q)
  BY <1>0, <1>5 DEF Finish, RowKept, ProgType, execVars
<1>6. CASE PublishBegin(q)
  BY <1>1, <1>2, <1>6 DEF PublishBegin, progVars
<1>7. CASE PublishCommit(q)
  <2>1. ASSUME NEW at, Publish(q, at) PROVE RowKept(p)
    BY <1>0, <2>1 DEF Publish, RowKept, ProgType
  <2> QED  BY <1>1, <1>2, <1>7, <2>1 DEF PublishCommit
<1>8. CASE CancelChild(q) \/ ResumeBegin(q)
  BY <1>2, <1>8 DEF CancelChild, ResumeBegin
<1>9. CASE CloseParent(q)
  BY <1>0, <1>9 DEF CloseParent, RowKept, ProgType, execVars
<1>10. CASE ResumeCommit(q)
  BY <1>0, <1>10 DEF ResumeCommit, RowKept, ProgType
<1> QED  BY <1>3, <1>4, <1>5, <1>6, <1>7, <1>8, <1>9, <1>10 DEF Program

-----------------------------------------------------------------------------
(* Programs.                                                               *)

\* The calls of a program, where it neither publishes nor resumes.
CallsKept(p) ==
    \A i \in 1 .. MaxCalls :
        /\ Kept(<<p, i>>)
        /\ (<<p, i>> \in results') <=> (<<p, i>> \in results)
        /\ run'[<<p, i>>] = "live" => waits[p] /\ i = calls[p]

\* Only a program itself makes its children and takes their answers.
LEMMA ProgramCalls ==
    ASSUME Inv, [Next]_vars, NEW p \in Programs,
           ~Made(p), ~ResumeCommit(p) \/ results' = results
    PROVE  CallsKept(p)
<1> SUFFICES ASSUME NEW i \in 1 .. MaxCalls
             PROVE  /\ Kept(<<p, i>>)
                    /\ (<<p, i>> \in results') <=> (<<p, i>> \in results)
                    /\ run'[<<p, i>>] = "live" => waits[p] /\ i = calls[p]
  BY DEF CallsKept
<1>0. <<p, i>> \in Call /\ p \notin Daemons
  BY CallPair
<1>1. Kept(<<p, i>>)
  <2>1. ASSUME NEW q \in Programs, <<p, i>> = <<q, calls[q] + 1>> PROVE q = p
    BY <2>1
  <2>2. ASSUME NEW d \in Daemons PROVE <<p, i>> # Pending(d)
    BY <1>0 DEF Pending
  <2> QED  BY <1>0, <2>1, <2>2, ChildKept
<1>2. (<<p, i>> \in results') <=> (<<p, i>> \in results)
  <2>1. ASSUME NEW q \in Programs, q # p PROVE <<p, i>> # Awaited(q)
    BY <2>1 DEF Awaited
  <2>2. ASSUME NEW d \in Daemons PROVE <<p, i>> # Pending(d)
    BY <1>0 DEF Pending
  <2> QED  BY <2>1, <2>2, Answers
<1>3. ASSUME run'[<<p, i>>] = "live" PROVE waits[p] /\ i = calls[p]
  <2>1. ProgramOf(p)
    BY DEF Inv, ProgramInv
  <2>2. CASE Dispatch(<<p, i>>)
    BY <2>1, <2>2 DEF Dispatch, MayDispatch, ProgramOf
  <2> QED  BY <1>0, <1>3, <2>1, <2>2, LiveByDispatch DEF ProgramOf
<1> QED  BY <1>1, <1>2, <1>3

\* A program keeps what it has of its calls.
LEMMA ProgramStep == Inv /\ [Next]_vars => ProgramInv'
<1> SUFFICES ASSUME Inv, [Next]_vars, NEW p \in Programs PROVE ProgramOf(p)'
  BY DEF ProgramInv
<1>0. ProgramOf(p) /\ ProgType /\ ChildType /\ OpInv
  BY DEF Inv, Types, ProgramInv
<1>1. calls[p] \in 0 .. MaxCalls /\ MaxCalls \in Nat
  BY <1>0, Bounds DEF ProgType
<1>2. ASSUME calls'[p] = calls[p], awaits'[p] = awaits[p] PROVE CallsKept(p)
  <2>1. ~Made(p)
    BY <1>0, <1>1, <1>2 DEF Made, Publish, ProgType
  <2>2. ASSUME ResumeCommit(p) PROVE results' = results
    <3>1. waits[p]
      BY <1>0, <2>2 DEF ResumeCommit, In, OpInv
    <3>2. awaits[p] # 0
      BY <1>0, <1>1, <3>1 DEF ProgramOf
    <3>3. awaits' # [awaits EXCEPT ![p] = 0]
      BY <1>0, <1>2, <3>2 DEF ProgType
    <3> QED  BY <2>2, <3>3 DEF ResumeCommit
  <2> QED  BY <2>1, <2>2, ProgramCalls
<1>3. ASSUME RowKept(p) PROVE ProgramOf(p)'
  <2>1. CallsKept(p)
    BY <1>2, <1>3 DEF RowKept
  <2> QED  BY <1>0, <1>3, <2>1 DEF ProgramOf, RowKept, CallsKept, Kept
<1>4. CASE Crash
  <2>1. CallsKept(p)
    BY <1>2, <1>4 DEF Crash, execVars
  <2>2. /\ prog'[p] = IF prog[p] = "running" THEN "queued" ELSE prog[p]
        /\ slice'[p] = "off" /\ waits'[p] = waits[p] /\ awaits' = awaits /\ calls' = calls
    BY <1>4 DEF Crash, execVars
  <2> QED  BY <1>0, <2>1, <2>2 DEF ProgramOf, CallsKept, Kept, Closed
<1>5. ASSUME NEW why, Hold(p, why), UNCHANGED execVars, slice[p] = "call"
      PROVE  ProgramOf(p)'
  <2>1. CallsKept(p)
    BY <1>2, <1>5 DEF execVars
  <2>2. /\ prog'[p] = "queued" /\ slice'[p] = "off" /\ waits'[p] = waits[p]
        /\ awaits' = awaits /\ calls' = calls /\ prog[p] = "running"
    BY <1>0, <1>5 DEF Hold, ProgType, ProgramOf, execVars
  <2> QED  BY <1>0, <2>1, <2>2 DEF ProgramOf, CallsKept, Kept, Closed
<1>6. ASSUME Program(p) PROVE ProgramOf(p)'
  <2>1. UNCHANGED execVars => CallsKept(p)
    BY <1>2 DEF execVars
  <2>2. UNCHANGED progVars => ProgramOf(p)'
    BY <1>3 DEF progVars, rowVars, execVars, RowKept
  <2>3. CASE Submit(p)
    <3>1. prog'[p] = "queued" /\ UNCHANGED <<waits, awaits, calls, slice>> /\ prog[p] = "absent"
      BY <1>0, <2>3 DEF Submit, execVars, ProgType
    <3>2. CallsKept(p)
      BY <2>1, <2>3 DEF Submit
    <3> QED  BY <1>0, <3>1, <3>2 DEF ProgramOf, CallsKept, Kept, Closed
  <2>4. CASE CancelProgram(p) \/ Deferred(p)
    <3>1. RowKept(p)
      BY <2>4 DEF CancelProgram, Deferred, RowKept, execVars
    <3> QED  BY <1>3, <3>1
  <2>5. CASE CancelQueued(p)
    <3>1. /\ prog'[p] = "cancelled" /\ UNCHANGED <<waits, awaits, calls, slice>>
          /\ prog[p] = "queued" /\ ~waits[p]
      BY <1>0, <2>5 DEF CancelQueued, execVars, ProgType
    <3>2. CallsKept(p)
      BY <2>1, <2>5 DEF CancelQueued
    <3> QED  BY <1>0, <3>1, <3>2 DEF ProgramOf, CallsKept, Kept, Closed
  <2>6. CASE Launch(p)
    <3>1. /\ prog'[p] = "running" /\ UNCHANGED <<waits, awaits, calls>>
          /\ prog[p] = "queued" /\ ~waits[p] /\ slice'[p] = "running"
      BY <1>0, <2>6 DEF Launch, execVars, ProgType
    <3>2. CallsKept(p)
      BY <2>1, <2>6 DEF Launch
    <3> QED  BY <1>0, <3>1, <3>2 DEF ProgramOf, CallsKept, Kept, Closed
  <2>7. ASSUME NEW out \in {"call", "report", "error"}, SliceEnds(p, out) PROVE ProgramOf(p)'
    <3>1. UNCHANGED <<prog, waits, awaits, calls>> /\ slice[p] = "running" /\ slice'[p] # "off"
      BY <1>0, <2>7 DEF SliceEnds, execVars, rowVars, ProgType
    <3>2. CallsKept(p)
      BY <2>1, <2>7 DEF SliceEnds
    <3> QED  BY <1>0, <3>1, <3>2 DEF ProgramOf, CallsKept, Kept
  <2>8. CASE Finish(p)
    <3>1. /\ prog'[p] \in Closed /\ UNCHANGED <<waits, awaits, calls>>
          /\ slice[p] # "off" /\ slice'[p] = "off"
      BY <1>0, <2>8 DEF Finish, execVars, ProgType, Closed
    <3>2. CallsKept(p)
      BY <2>1, <2>8 DEF Finish
    <3> QED  BY <1>0, <3>1, <3>2 DEF ProgramOf, CallsKept, Kept, Closed
  <2>9. CASE PublishBegin(p)
    BY <1>5, <2>2, <2>9 DEF PublishBegin, progVars
  <2>10. CASE PublishCommit(p)
    <3>1. slice[p] = "call" /\ calls[p] < MaxCalls
      BY <1>0, <2>10 DEF PublishCommit, In, OpInv
    <3>2. ASSUME NEW at \in {"queued", "input"}, Publish(p, at) PROVE ProgramOf(p)'
      <4>1. /\ calls'[p] = calls[p] + 1 /\ awaits'[p] = calls[p] + 1 /\ prog'[p] = "queued"
            /\ waits'[p] /\ slice'[p] = "off"
        BY <1>0, <3>2 DEF Publish, ProgType
      <4>2. prog[p] = "running" /\ ~waits[p]
        BY <1>0, <3>1 DEF ProgramOf
      <4>3. results' = results /\ run' = run
        BY <2>10, <3>2 DEF PublishCommit, Publish, Born
      <4>4. <<p, calls[p] + 1>> \in Call /\ \A i \in 1 .. MaxCalls : <<p, i>> \in Call
        BY <1>1, <3>1, CallPair
      <4>5. \A i \in 1 .. MaxCalls :
                child'[<<p, i>>] = IF i = calls[p] + 1 THEN at ELSE child[<<p, i>>]
        BY <1>0, <1>1, <3>2, <4>4 DEF Publish, Born, ChildType
      <4> QED  BY <1>0, <1>1, <4>1, <4>2, <4>3, <4>5 DEF ProgramOf, Closed
    <3> QED  BY <1>5, <2>2, <2>10, <3>1, <3>2 DEF PublishCommit
  <2>11. CASE CancelChild(p) \/ ResumeBegin(p)
    BY <2>2, <2>11 DEF CancelChild, ResumeBegin
  <2>12. CASE CloseParent(p)
    <3>1. /\ prog'[p] \in Closed /\ UNCHANGED <<awaits, calls, slice, run, results>>
          /\ waits[p] /\ ~waits'[p] /\ run[<<p, calls[p]>>] # "live"
      BY <1>0, <2>12 DEF CloseParent, execVars, childVars, ProgType, Closed, Settles, Awaited,
                         ProgramOf
    <3>2. CallsKept(p)
      BY <2>1, <2>12 DEF CloseParent
    <3> QED  BY <1>0, <3>1, <3>2 DEF ProgramOf, CallsKept, Kept, Closed
  <2>13. CASE ResumeCommit(p)
    <3>1. CASE UNCHANGED <<waits, awaits, results>>
      BY <1>3, <2>13, <3>1 DEF ResumeCommit, RowKept
    <3>2. CASE /\ results' = results \cup {Awaited(p)}
               /\ awaits' = [awaits EXCEPT ![p] = 0]
               /\ waits' = [waits EXCEPT ![p] = FALSE] /\ Fresh(Awaited(p))
      <4>1. /\ waits[p] /\ run[Awaited(p)] # "live" /\ Awaited(p) = <<p, calls[p]>>
        BY <1>0, <2>13, <3>2 DEF ResumeCommit, In, OpInv, Settles, Awaited, ProgramOf
      <4>2. ~waits'[p] /\ UNCHANGED <<prog, calls, slice, child, run>>
        BY <1>0, <2>13, <3>2 DEF ResumeCommit, ProgType, childVars
      <4>3. \A i \in 1 .. MaxCalls :
                (<<p, i>> \in results') <=> (<<p, i>> \in results \/ i = calls[p])
        BY <3>2, <4>1
      <4> QED  BY <1>0, <1>1, <4>1, <4>2, <4>3 DEF ProgramOf
    <3> QED  BY <2>13, <3>1, <3>2 DEF ResumeCommit
  <2> QED  BY <1>6, <2>3, <2>4, <2>5, <2>6, <2>7, <2>8, <2>9, <2>10, <2>11, <2>12, <2>13
           DEF Program
<1> QED  BY <1>3, <1>4, <1>6, ProgMoves, OtherPrograms DEF progVars, rowVars, execVars, RowKept

-----------------------------------------------------------------------------
(* Daemons.                                                                *)

\* What the invariant of a daemon reads of its record.
RecordKept(d) == daemon'[d] = daemon[d] /\ on'[d] = on[d]
ResultsKept(d) == \A i \in 1 .. MaxCalls : (<<d, i>> \in results') <=> (<<d, i>> \in results)
IntentsKept(d) == \A i \in 1 .. MaxCalls : (<<d, i>> \in intents') <=> (<<d, i>> \in intents)

\* The next request depends on the answers alone.
LEMMA NextKept ==
    ASSUME NEW d, ResultsKept(d)
    PROVE  NextRequest(d)' = NextRequest(d)
<1>1. {i \in 1 .. MaxCalls : <<d, i>> \in results'} = {i \in 1 .. MaxCalls : <<d, i>> \in results}
  BY DEF ResultsKept
<1> QED  BY <1>1 DEF NextRequest

\* One more answer moves it by one.
LEMMA NextMoves ==
    ASSUME NEW d, NEW k \in 1 .. MaxCalls, <<d, k>> \notin results,
           results' = results \cup {<<d, k>>}
    PROVE  NextRequest(d)' = NextRequest(d) + 1
<1> DEFINE S == {i \in 1 .. MaxCalls : <<d, i>> \in results}
<1>1. {i \in 1 .. MaxCalls : <<d, i>> \in results'} = S \cup {k}
  OBVIOUS
<1>2. IsFiniteSet(S)
  <2>1. IsFiniteSet(1 .. MaxCalls)
    BY FS_Interval, Bounds
  <2> QED  BY <2>1, FS_Subset
<1>3. k \notin S /\ Cardinality(S) \in Nat
  BY <1>2, FS_CardinalityType
<1>4. Cardinality(S \cup {k}) = Cardinality(S) + 1
  BY <1>2, <1>3, FS_AddElement
<1>5. Cardinality({i \in 1 .. MaxCalls : <<d, i>> \in results'}) = Cardinality(S) + 1
  BY <1>1, <1>4
<1> QED  BY <1>3, <1>5 DEF NextRequest

\* Only a daemon itself takes its answers.
LEMMA DaemonResults ==
    ASSUME [Next]_vars, NEW d \in Daemons, ~ResultCommit(d)
    PROVE  ResultsKept(d)
<1>1. ASSUME NEW p \in Programs, NEW i PROVE <<d, i>> # Awaited(p)
  BY CallPair DEF Awaited
<1>2. ASSUME NEW e \in Daemons, e # d, NEW i PROVE <<d, i>> # Pending(e)
  BY <1>2 DEF Pending
<1> QED  BY <1>1, <1>2, Answers DEF ResultsKept

\* An intent that is recorded stays.
LEMMA IntentsStay ==
    ASSUME [Next]_vars
    PROVE  intents \subseteq intents'
<1>1. ASSUME NEW p \in Programs, ResumeCommit(p) PROVE intents' = intents
  BY <1>1 DEF ResumeCommit, daemonVars
<1>2. ASSUME NEW d \in Daemons, Daemon(d) PROVE intents \subseteq intents'
  BY <1>2 DEF Daemon, Enqueue, Send, Stop, CancelRequested, RequestBegin, RequestCommit,
         ResultBegin, ResultCommit, Nudge, TickBegin, Recover, Execute, Suspend, TickEnds,
         daemonVars
<1> QED  BY <1>1, <1>2, DaemonMoves DEF daemonVars

\* A daemon has a child only for a recorded request.
LEMMA DaemonChildren ==
    ASSUME Inv, [Next]_vars, NEW d \in Daemons, NEW i \in 1 .. MaxCalls,
           child'[<<d, i>>] # "absent"
    PROVE  <<d, i>> \in intents'
<1>0. <<d, i>> \in Call /\ DaemonOf(d) /\ d \notin Programs
  BY CallPair DEF Inv, DaemonInv
<1>1. CASE Kept(<<d, i>>)
  BY <1>0, <1>1, IntentsStay DEF Kept, DaemonOf
<1>2. ASSUME NEW p \in Programs PROVE <<d, i>> # <<p, calls[p] + 1>>
  BY <1>0
<1>3. ASSUME NEW e \in Daemons, Asked(e), <<d, i>> = Pending(e) PROVE <<d, i>> \in intents'
  <2>1. Suspended(e)
    BY <1>3 DEF Asked, RequestCommit, In, OpInv, Inv
  <2>2. Pending(e) \in intents
    BY <2>1 DEF Inv, DaemonInv, DaemonOf
  <2> QED  BY <1>3, <2>2, IntentsStay
<1> QED  BY <1>0, <1>1, <1>2, <1>3, ChildKept

\* A step of one daemon leaves the records of the others alone.
LEMMA OtherDaemons ==
    ASSUME Inv, NEW d \in Daemons, NEW e \in Daemons, e # d, Daemon(e)
    PROVE  RecordKept(d) /\ IntentsKept(d)
<1>0. DaemonType
  BY DEF Inv, Types
<1>1. CASE Enqueue(e) \/ Send(e) \/ Stop(e)
  BY <1>0, <1>1 DEF Enqueue, Send, Stop, DaemonType, recordVars, RecordKept, IntentsKept
<1>2. CASE CancelRequested(e) \/ RequestBegin(e) \/ RequestCommit(e) \/ ResultBegin(e)
           \/ ResultCommit(e) \/ Recover(e)
  BY <1>2 DEF CancelRequested, RequestBegin, RequestCommit, ResultBegin, ResultCommit, Recover,
              daemonVars, recordVars, RecordKept, IntentsKept
<1>3. CASE Nudge(e) \/ TickBegin(e)
  BY <1>0, <1>3 DEF Nudge, TickBegin, DaemonType, recordVars, RecordKept, IntentsKept
<1>4. CASE Execute(e)
  BY <1>4 DEF Execute, recordVars, RecordKept, IntentsKept
<1>5. CASE Suspend(e) \/ TickEnds(e)
  BY <1>0, <1>5 DEF Suspend, TickEnds, DaemonType, RecordKept, IntentsKept
<1> QED  BY <1>1, <1>2, <1>3, <1>4, <1>5 DEF Daemon

\* A daemon keeps the order of its requests.
LEMMA DaemonStep == Inv /\ [Next]_vars => DaemonInv'
<1> SUFFICES ASSUME Inv, [Next]_vars, NEW d \in Daemons PROVE DaemonOf(d)'
  BY DEF DaemonInv
<1>0. DaemonOf(d) /\ DaemonType /\ OpInv /\ d \notin Programs
  BY CallPair DEF Inv, Types, DaemonInv
<1>1. NextRequest(d) \in 1 .. (MaxCalls + 1) /\ MaxCalls \in Nat
  BY NextType, Bounds
<1>2. ASSUME ~ResultCommit(d)
      PROVE  ResultsKept(d) /\ NextRequest(d)' = NextRequest(d)
  BY <1>2, DaemonResults, NextKept
<1>3. ASSUME RecordKept(d), IntentsKept(d), ResultsKept(d)
      PROVE  DaemonOf(d)'
  <2>1. (Suspended(d)' <=> Suspended(d)) /\ Pending(d)' = Pending(d)
    BY <1>3 DEF RecordKept, Suspended, Pending
  <2>2. NextRequest(d)' = NextRequest(d)
    BY <1>3, NextKept
  <2>3. \A i \in 1 .. MaxCalls : child'[<<d, i>>] # "absent" => <<d, i>> \in intents'
    BY DaemonChildren
  <2>4. <<d, NextRequest(d)>> \in intents' => <<d, NextRequest(d)>> \in intents
    <3>1. <<d, NextRequest(d)>> \in intents' => NextRequest(d) \in 1 .. MaxCalls
      BY DaemonTypeStep, CallPair DEF DaemonType
    <3> QED  BY <3>1, <1>3 DEF IntentsKept
  <2>5. Suspended(d) => Pending(d) \in intents'
    BY <1>0, IntentsStay DEF DaemonOf
  <2> QED  BY <1>0, <1>3, <2>1, <2>2, <2>3, <2>4, <2>5
           DEF DaemonOf, RecordKept, IntentsKept, ResultsKept
<1>4. ASSUME Daemon(d) PROVE DaemonOf(d)'
  <2>1. \A i \in 1 .. MaxCalls : child'[<<d, i>>] # "absent" => <<d, i>> \in intents'
    BY DaemonChildren
  <2>2. CASE Enqueue(d)
    <3>1. /\ UNCHANGED <<intents, results>> /\ daemon[d] = "absent"
          /\ daemon'[d] = "ready"
      BY <1>0, <2>2 DEF Enqueue, DaemonType
    <3>2. NextRequest(d)' = NextRequest(d)
      BY <3>1, NextKept DEF ResultsKept
    <3> QED  BY <1>0, <2>1, <3>1, <3>2 DEF DaemonOf, Suspended
  <2>3. CASE \/ Send(d) \/ Stop(d) \/ CancelRequested(d) \/ RequestBegin(d) \/ RequestCommit(d)
             \/ ResultBegin(d) \/ Recover(d) \/ Nudge(d)
    <3>1. UNCHANGED <<intents, results, daemon, on>>
      BY <2>3 DEF Send, Stop, CancelRequested, RequestBegin, RequestCommit, ResultBegin, Recover,
                  Nudge, daemonVars, recordVars
    <3> QED  BY <1>3, <3>1 DEF RecordKept, IntentsKept, ResultsKept
  <2>4. CASE ResultCommit(d)
    <3>1. /\ Suspended(d) /\ Pending(d) \notin results /\ UNCHANGED <<intents, daemon, on>>
          /\ results' = results \cup {Pending(d)}
      BY <1>0, <2>4 DEF ResultCommit, In, OpInv, daemonVars, recordVars
    <3>2. on[d] \in 1 .. MaxCalls
      BY <1>0, <1>1, <3>1 DEF Suspended, DaemonType
    <3>3. on[d] = NextRequest(d)
      BY <1>0, <1>1, <3>1, <3>2 DEF DaemonOf, Pending
    <3>4. NextRequest(d)' = NextRequest(d) + 1
      BY <3>1, <3>2, NextMoves DEF Pending
    <3>5. \A i \in 1 .. MaxCalls :
              (<<d, i>> \in results') <=> (<<d, i>> \in results \/ i = on[d])
      BY <3>1 DEF Pending
    <3>6. <<d, NextRequest(d) + 1>> \notin intents
      <4>1. SUFFICES ASSUME <<d, NextRequest(d) + 1>> \in intents PROVE FALSE
        OBVIOUS
      <4>2. NextRequest(d) + 1 \in 1 .. MaxCalls
        BY <1>0, <4>1, CallPair DEF DaemonType
      <4> QED  BY <1>0, <1>1, <4>1, <4>2 DEF DaemonOf
    <3>7. (Suspended(d)' <=> Suspended(d)) /\ Pending(d)' = Pending(d)
      BY <3>1 DEF Suspended, Pending
    <3> QED  BY <1>0, <1>1, <2>1, <3>1, <3>3, <3>4, <3>5, <3>6, <3>7 DEF DaemonOf
  <2>5. CASE TickBegin(d)
    <3>1. UNCHANGED <<intents, results>> /\ daemon'[d] = "uncertain"
      BY <1>0, <2>5 DEF TickBegin, DaemonType
    <3>2. NextRequest(d)' = NextRequest(d)
      BY <3>1, NextKept DEF ResultsKept
    <3> QED  BY <1>0, <2>1, <3>1, <3>2 DEF DaemonOf, Suspended
  <2>6. CASE Execute(d)
    <3>1. /\ UNCHANGED <<results, daemon>> /\ daemon[d] = "uncertain"
          /\ intents' = intents \cup {<<d, NextRequest(d)>>}
      BY <1>0, <2>6 DEF Execute, In, OpInv, recordVars
    <3>2. NextRequest(d)' = NextRequest(d)
      BY <3>1, NextKept DEF ResultsKept
    <3> QED  BY <1>0, <1>1, <2>1, <3>1, <3>2 DEF DaemonOf, Suspended
  <2>7. CASE Suspend(d)
    <3>1. /\ UNCHANGED <<results, intents>> /\ daemon'[d] = "suspended"
          /\ on'[d] = NextRequest(d) /\ <<d, NextRequest(d)>> \in intents
      BY <1>0, <2>7 DEF Suspend, In, OpInv, DaemonType
    <3>2. NextRequest(d)' = NextRequest(d)
      BY <3>1, NextKept DEF ResultsKept
    <3>3. Pending(d)' = <<d, NextRequest(d)>>
      BY <3>1 DEF Pending
    <3> QED  BY <1>0, <2>1, <3>1, <3>2, <3>3 DEF DaemonOf
  <2>8. CASE TickEnds(d)
    <3>1. /\ UNCHANGED <<results, intents>> /\ on'[d] = 0
          /\ <<d, NextRequest(d)>> \notin intents
      BY <1>0, <2>8 DEF TickEnds, DaemonType
    <3>2. NextRequest(d)' = NextRequest(d)
      BY <3>1, NextKept DEF ResultsKept
    <3> QED  BY <1>0, <2>1, <3>1, <3>2 DEF DaemonOf, Suspended
  <2> QED  BY <1>4, <2>2, <2>3, <2>4, <2>5, <2>6, <2>7, <2>8 DEF Daemon
<1>5. ASSUME NEW e \in Daemons, e # d, Daemon(e) PROVE DaemonOf(d)'
  BY <1>2, <1>3, <1>4, <1>5, OtherDaemons DEF Daemon
<1>6. CASE UNCHANGED <<daemonVars, results>>
  BY <1>3, <1>6 DEF daemonVars, recordVars, RecordKept, IntentsKept, ResultsKept
<1>7. ASSUME NEW p \in Programs, ResumeCommit(p) PROVE DaemonOf(d)'
  <2>1. RecordKept(d) /\ IntentsKept(d)
    BY <1>7 DEF ResumeCommit, daemonVars, recordVars, RecordKept, IntentsKept
  <2> QED  BY <1>2, <1>3, <1>4, <2>1 DEF Daemon
<1> QED  BY <1>4, <1>5, <1>6, <1>7, DaemonMoves

-----------------------------------------------------------------------------
(* Children and proposals.                                                 *)

\* The generations of the grants only grow, and an admission is of the one in
\* force.
LEMMA GenGrows ==
    ASSUME Inv, [Next]_vars
    PROVE  /\ gen \in Nat /\ gen' \in Nat /\ gen <= gen'
           /\ \A p \in Programs : Made(p) => gen' = gen /\ pinned[p] = gen /\ used' = used + 1
           /\ \A d \in Daemons : Asked(d) => gen' = gen /\ used' = used + 1
<1>1. gen \in Nat /\ gen' \in Nat
  BY GrantTypeStep DEF Inv, Types, GrantType
<1>2. gen <= gen'
  <2>1. UNCHANGED grantVars \/ Admitted \/ gen' = gen + 1 \/ gen' = gen
    BY GrantMoves DEF Configure, SetEnabled, Expire, AdmitCommit, PublishCommit, Publish,
                      RequestCommit
  <2> QED  BY <1>1, <2>1 DEF grantVars, Admitted
<1>3. ASSUME NEW p \in Programs, Made(p)
      PROVE  gen' = gen /\ pinned[p] = gen /\ used' = used + 1
  <2>1. Admitted
    BY <1>3 DEF Made, Publish
  <2>2. used' # used
    BY <2>1 DEF Admitted, Inv, Types, GrantType
  <2>3. GrantHolds(pinned[p], TRUE) \/ UNCHANGED grantVars
    BY <1>3 DEF Made, PublishCommit
  <2> QED  BY <2>1, <2>2, <2>3 DEF Admitted, GrantHolds, grantVars
<1>4. ASSUME NEW d \in Daemons, Asked(d) PROVE gen' = gen /\ used' = used + 1
  <2>1. Suspended(d) /\ child[Pending(d)] = "absent"
    BY <1>4 DEF Asked, RequestCommit, In, OpInv, Inv
  <2>2. Pending(d) \in Call
    <3>1. on[d] \in 1 .. MaxCalls
      BY <2>1, Bounds DEF Suspended, Inv, Types, DaemonType
    <3> QED  BY <3>1, CallPair DEF Pending
  <2>3. child' # child
    BY <1>4, <2>1, <2>2 DEF Asked, Born, Inv, Types, ChildType
  <2> QED  BY <1>4, <2>3 DEF Asked, RequestCommit, Admitted, childVars
<1> QED  BY <1>1, <1>2, <1>3, <1>4

\* A child that is there stays.
LEMMA ChildStays ==
    ASSUME Inv, [Next]_vars, NEW c \in Call, child[c] # "absent"
    PROVE  child'[c] # "absent"
<1>0. ChildType
  BY DEF Inv, Types
<1>1. ASSUME NEW at \in {"queued", "input"}, NEW g, Born(c, g, at) PROVE child'[c] # "absent"
  BY <1>0, <1>1 DEF Born, ChildType
<1>2. Kept(c) => child'[c] # "absent"
  BY DEF Kept
<1>3. ASSUME NEW p \in Programs, Made(p), c = <<p, calls[p] + 1>> PROVE child'[c] # "absent"
  BY <1>1, <1>3 DEF Made, Publish
<1>4. ASSUME NEW d \in Daemons, Asked(d), c = Pending(d) PROVE child'[c] # "absent"
  BY <1>1, <1>4 DEF Asked
<1> QED  BY <1>2, <1>3, <1>4, ChildKept

\* A child with a provider stays running or uncertain.
LEMMA LiveRuns ==
    ASSUME Inv, [Next]_vars, NEW c \in Call, run[c] = "live", run'[c] = "live"
    PROVE  child'[c] \in {"running", "uncertain"}
<1>0. ChildOf(c) /\ ChildType /\ OpInv
  BY DEF Inv, Types, ChildInv
<1>1. child[c] \in {"running", "uncertain"}
  BY <1>0 DEF ChildOf
<1>2. UNCHANGED childVars => child'[c] = child[c]
  BY DEF childVars
<1>3. CASE Crash
  BY <1>0, <1>1, <1>3 DEF Crash, ChildType
<1>4. ASSUME NEW b \in Call, b # c, NEW at, child' = [child EXCEPT ![b] = at]
      PROVE  child'[c] = child[c]
  BY <1>0, <1>4 DEF ChildType
<1>5. ASSUME NEW b \in Call, Child(b) PROVE child'[c] \in {"running", "uncertain"}
  <2>1. CASE b = c
    <3>1. CASE Dispatch(c) \/ CloseUnstarted(c) \/ Reply(c) \/ Continue(c) \/ Dismiss(c)
      BY <1>1, <3>1, CallPair DEF Dispatch, CloseUnstarted, Reply, Continue, Dismiss
    <3>2. CASE Record(c)
      BY <1>0, <3>2 DEF Record, Becomes, ChildType
    <3>3. CASE \/ RecoverRun(c) \/ CancelTask(c)
               \/ \E to \in {"clean", "bad", "unsure"} : RunSettles(c, to)
      BY <1>1, <3>3 DEF RecoverRun, CancelTask, RunSettles, RunIs, Revoke
    <3> QED  BY <1>5, <2>1, <3>1, <3>2, <3>3 DEF Child
  <2>2. CASE b # c
    <3>1. child' = child \/ \E at : child' = [child EXCEPT ![b] = at]
      BY <1>5 DEF Child, Dispatch, Record, CloseUnstarted, RecoverRun, RunSettles, CancelTask,
                  Reply, Continue, Dismiss, Becomes, Again, RunIs, Revoke
    <3> QED  BY <1>1, <1>4, <2>2, <3>1
  <2> QED  BY <2>1, <2>2
<1>6. ASSUME NEW p \in Programs, PublishCommit(p) \/ CancelChild(p)
      PROVE  child'[c] \in {"running", "uncertain"}
  <2>1. ASSUME NEW at, PublishCommit(p), Publish(p, at) PROVE child'[c] = child[c]
    <3>1. calls[p] < MaxCalls /\ calls[p] \in Nat
      BY <1>0, <2>1 DEF PublishCommit, In, OpInv, Inv, Types, ProgType
    <3>2. calls[p] + 1 \in 1 .. MaxCalls /\ ~(calls[p] + 1 <= calls[p])
      BY <3>1, Bounds
    <3>3. child[<<p, calls[p] + 1>>] = "absent"
      BY <3>2 DEF Inv, ProgramInv, ProgramOf
    <3> QED  BY <1>1, <1>4, <2>1, <3>2, <3>3, CallPair DEF Publish, Born
  <2> QED  BY <1>1, <1>2, <1>6, <2>1 DEF PublishCommit, CancelChild, Revoke
<1>7. ASSUME NEW d \in Daemons, CancelRequested(d) \/ RequestCommit(d)
      PROVE  child'[c] \in {"running", "uncertain"}
  <2>1. ASSUME NEW g, NEW at, RequestCommit(d), Born(Pending(d), g, at)
        PROVE  child'[c] = child[c]
    <3>1. Suspended(d) /\ child[Pending(d)] = "absent"
      BY <1>0, <2>1 DEF RequestCommit, In, OpInv
    <3>2. on[d] \in 1 .. MaxCalls
      BY <3>1, Bounds DEF Suspended, Inv, Types, DaemonType
    <3>3. Pending(d) \in Call
      BY <3>2, CallPair DEF Pending
    <3> QED  BY <1>1, <1>4, <2>1, <3>1, <3>3 DEF Born
  <2> QED  BY <1>1, <1>2, <1>7, <2>1 DEF RequestCommit, CancelRequested, Revoke
<1> QED  BY <1>1, <1>2, <1>3, <1>5, <1>6, <1>7, ChildMoves

\* An answer is to a child that is there and that no provider works on.
LEMMA AnswersSettled ==
    ASSUME Inv, [Next]_vars, NEW c \in Call, c \in results', c \notin results
    PROVE  child[c] # "absent" /\ run[c] # "live" /\ UNCHANGED childVars
<1>0. OpInv /\ ProgramInv /\ ProgType
  BY DEF Inv, Types
<1>1. ASSUME NEW p \in Programs, ResumeCommit(p), c = Awaited(p), results' # results
      PROVE  child[c] # "absent" /\ run[c] # "live" /\ UNCHANGED childVars
  <2>1. Fresh(Awaited(p)) /\ UNCHANGED childVars
    BY <1>1 DEF ResumeCommit
  <2> QED  BY <1>0, <1>1, <2>1 DEF ResumeCommit, In, OpInv, Settles
<1>2. ASSUME NEW d \in Daemons, ResultCommit(d), c = Pending(d)
      PROVE  child[c] # "absent" /\ run[c] # "live" /\ UNCHANGED childVars
  BY <1>0, <1>2 DEF ResultCommit, In, OpInv
<1> QED  BY <1>1, <1>2, Answers

\* A child keeps its answer, and its grant.
LEMMA ChildStep == Inv /\ [Next]_vars => ChildInv'
<1> SUFFICES ASSUME Inv, [Next]_vars, NEW c \in Call PROVE ChildOf(c)'
  BY DEF ChildInv
<1>0. ChildOf(c) /\ ChildType /\ GrantType
  BY DEF Inv, Types, ChildInv
<1>1. ASSUME run'[c] = "live" PROVE c \notin results' /\ child'[c] \in {"running", "uncertain"}
  <2>1. CASE Dispatch(c)
    BY <1>0, <2>1 DEF Dispatch, MayDispatch, Others, ChildType
  <2>2. CASE run[c] = "live"
    BY <1>0, <1>1, <2>2, LiveRuns, AnswersSettled DEF ChildOf
  <2> QED  BY <1>1, <2>1, <2>2, LiveByDispatch
<1>2. ASSUME c \in results' PROVE child'[c] # "absent"
  <2>1. child[c] # "absent"
    BY <1>0, <1>2, AnswersSettled DEF ChildOf
  <2> QED  BY <1>0, <2>1, ChildStays
<1>3. ASSUME child'[c] # "absent" PROVE born'[c] <= gen'
  <2>1. CASE Kept(c)
    BY <1>0, <1>3, <2>1, GenGrows DEF Kept, ChildOf, ChildType
  <2>2. ASSUME NEW p \in Programs, Made(p), c = <<p, calls[p] + 1>> PROVE born'[c] <= gen'
    <3>1. born'[c] = pinned[p]
      BY <1>0, <2>2 DEF Made, Publish, Born, ChildType
    <3> QED  BY <2>2, <3>1, GenGrows
  <2>3. ASSUME NEW d \in Daemons, Asked(d), c = Pending(d) PROVE born'[c] <= gen'
    <3>1. born'[c] = gen
      BY <1>0, <2>3 DEF Asked, Born, ChildType
    <3> QED  BY <2>3, <3>1, GenGrows
  <2> QED  BY <2>1, <2>2, <2>3, ChildKept
<1> QED  BY <1>1, <1>2, <1>3 DEF ChildOf

\* A proposal is admitted under a grant that was in force.
LEMMA PropStep == Inv /\ [Next]_vars => PropInv'
<1> SUFFICES ASSUME Inv, [Next]_vars, NEW x \in Proposals PROVE PropOf(x)'
  BY DEF PropInv
<1>0. PropOf(x) /\ PropType /\ GrantType /\ OpInv
  BY DEF Inv, Types, PropInv
<1>1. gen \in Nat /\ gen' \in Nat /\ gen <= gen'
  BY GenGrows
<1>2. CASE prop'[x] = prop[x] /\ offered'[x] = offered[x] /\ admitted'[x] = admitted[x]
  BY <1>0, <1>1, <1>2 DEF PropOf, PropType
<1>3. UNCHANGED propVars => PropOf(x)'
  BY <1>2 DEF propVars
<1>4. ASSUME NEW y \in Proposals, Propose(y) PROVE PropOf(x)'
  <2>1. CASE x = y
    BY <1>0, <1>4, <2>1 DEF Propose, PropOf, PropType
  <2> QED  BY <1>0, <1>2, <1>4, <2>1 DEF Propose, PropType
<1>5. ASSUME NEW y \in Proposals, NEW to \in {"queued", "completed"}, Backlog(y, to)
      PROVE  PropOf(x)'
  <2>1. CASE x = y
    BY <1>0, <1>5, <2>1 DEF Backlog, PropOf, PropType
  <2> QED  BY <1>0, <1>2, <1>5, <2>1 DEF Backlog, PropType
<1>6. ASSUME NEW y \in Proposals, AdmitCommit(y) PROVE PropOf(x)'
  <2>1. CASE x = y
    <3>1. CASE UNCHANGED propVars
      BY <1>3, <3>1
    <3>2. CASE /\ Fresh(<<y>>) /\ GrantHolds(offered[y], TRUE)
               /\ \/ prop' = [prop EXCEPT ![y] = "queued"]
                  \/ prop' = [prop EXCEPT ![y] = "input"]
      <4>1. prop'[x] \notin {"absent", "deferred"} /\ offered'[x] = gen
        BY <1>0, <1>6, <2>1, <3>2 DEF AdmitCommit, PropType, GrantHolds
      <4> QED  BY <1>1, <4>1 DEF PropOf
    <3> QED  BY <1>6, <3>1, <3>2 DEF AdmitCommit, propVars
  <2>2. CASE x # y
    BY <1>0, <1>2, <1>6, <2>2 DEF AdmitCommit, PropType, propVars
  <2> QED  BY <2>1, <2>2
<1>7. ASSUME NEW y \in Proposals, Proposed(y) PROVE PropOf(x)'
  <2>1. CASE x = y
    <3>1. prop'[x] \notin {"absent", "deferred"} /\ UNCHANGED <<offered, admitted>>
      BY <1>0, <1>7, <2>1 DEF Proposed, PropType
    <3> QED  BY <1>0, <1>1, <3>1 DEF PropOf, PropType
  <2> QED  BY <1>0, <1>2, <1>7, <2>1 DEF Proposed, PropType
<1>8. Workspace => PropOf(x)'
  <2>1. OtherOpens \/ OtherCloses => UNCHANGED propVars
    BY DEF OtherOpens, OtherCloses
  <2>2. ASSUME NEW y \in Proposals, AdmitBegin(y) PROVE UNCHANGED propVars
    BY <2>2 DEF AdmitBegin, ownVars
  <2> QED  BY <1>3, <1>4, <1>5, <1>6, <1>7, <2>1, <2>2 DEF Workspace
<1> QED  BY <1>3, <1>8, PropMoves DEF ownVars

-----------------------------------------------------------------------------
(* What the supervisor has read.                                           *)

\* The steps of the owner, of the workers and of other processes ...
OwnerStep ==
    /\ UNCHANGED op
    /\ \/ Grant \/ OtherOpens \/ OtherCloses
       \/ \E x \in Proposals : Propose(x) \/ \E to \in {"queued", "completed"} : Backlog(x, to)
       \/ \E p \in Programs : Submit(p) \/ CancelProgram(p)
                              \/ \E out \in {"call", "report", "error"} : SliceEnds(p, out)
       \/ \E d \in Daemons : Enqueue(d) \/ Send(d) \/ Stop(d)
       \/ \E c \in Call : \/ RecoverRun(c) \/ CancelTask(c) \/ Reply(c) \/ Continue(c)
                          \/ Dismiss(c)
                          \/ \E to \in {"clean", "bad", "unsure"} : RunSettles(c, to)

\* ... and those that begin something, or go on with it.
Begins ==
    \/ \E x \in Proposals : AdmitBegin(x)
    \/ \E p \in Programs : (PublishBegin(p) /\ op' # Idle) \/ ResumeBegin(p)
    \/ \E d \in Daemons : \/ RequestBegin(d) \/ ResultBegin(d) \/ ResultCommit(d)
                          \/ TickBegin(d) \/ Recover(d) \/ Execute(d)

\* Any other step leaves the supervisor idle.
LEMMA OpMoves ==
    ASSUME [Next]_vars
    PROVE  op' = Idle \/ UNCHANGED vars \/ OwnerStep \/ Begins
<1>1. Grant \/ OtherOpens \/ OtherCloses => OwnerStep
  BY DEF Grant, Configure, SetEnabled, Expire, OtherOpens, OtherCloses, Writes, Touches, opVars,
         OwnerStep
<1>2. ASSUME NEW x \in Proposals, NEW to \in {"queued", "completed"},
             Propose(x) \/ Backlog(x, to)
      PROVE  OwnerStep
  BY <1>2 DEF OwnerStep, Propose, Backlog, Writes, Touches
<1>3. ASSUME NEW x \in Proposals, AdmitBegin(x) \/ AdmitCommit(x) \/ Proposed(x)
      PROVE  op' = Idle \/ Begins
  BY <1>3 DEF AdmitCommit, Proposed, Done, Free, opVars, Begins
<1>4. ASSUME NEW p \in Programs, Submit(p) \/ CancelProgram(p) PROVE OwnerStep
  BY <1>4 DEF OwnerStep, Submit, CancelProgram, Writes, Touches
<1>5. ASSUME NEW p \in Programs, NEW out \in {"call", "report", "error"}, SliceEnds(p, out)
      PROVE  OwnerStep
  BY <1>5 DEF OwnerStep, SliceEnds, opVars
<1>6. ASSUME NEW p \in Programs,
             \/ CancelQueued(p) \/ Launch(p) \/ Deferred(p) \/ Finish(p) \/ PublishCommit(p)
             \/ CancelChild(p) \/ CloseParent(p) \/ ResumeCommit(p)
      PROVE  op' = Idle
  BY <1>6 DEF CancelQueued, Launch, Deferred, Finish, PublishCommit, CancelChild, CloseParent,
              ResumeCommit, Done, Free, opVars
<1>7. ASSUME NEW d \in Daemons, Enqueue(d) \/ Send(d) \/ Stop(d) PROVE OwnerStep
  BY <1>7 DEF OwnerStep, Enqueue, Send, Stop, Writes, Touches
<1>8. ASSUME NEW d \in Daemons,
             CancelRequested(d) \/ RequestCommit(d) \/ Nudge(d) \/ Suspend(d) \/ TickEnds(d)
      PROVE  op' = Idle
  BY <1>8 DEF CancelRequested, RequestCommit, Nudge, Suspend, TickEnds, Done, Free, opVars
<1>9. ASSUME NEW c \in Call, CancelTask(c) \/ Reply(c) \/ Continue(c) \/ Dismiss(c)
             \/ RecoverRun(c)
      PROVE  OwnerStep
  BY <1>9 DEF OwnerStep, CancelTask, Reply, Continue, Dismiss, RecoverRun, Writes, Touches, opVars
<1>10. ASSUME NEW c \in Call, NEW to \in {"clean", "bad", "unsure"}, RunSettles(c, to)
       PROVE  OwnerStep
  BY <1>10 DEF OwnerStep, RunSettles, opVars
<1>11. ASSUME NEW c \in Call, Dispatch(c) \/ Record(c) \/ CloseUnstarted(c)
       PROVE  op' = Idle
  BY <1>11 DEF Dispatch, Record, CloseUnstarted, Free, opVars
<1>12. Crash => op' = Idle
  BY DEF Crash
<1>13. Workspace => op' = Idle \/ OwnerStep \/ Begins
  BY <1>1, <1>2, <1>3 DEF Workspace
<1>14. ASSUME NEW p \in Programs, Program(p) PROVE op' = Idle \/ OwnerStep \/ Begins
  BY <1>4, <1>5, <1>6, <1>14 DEF Program, Begins
<1>15. ASSUME NEW d \in Daemons, Daemon(d) PROVE op' = Idle \/ OwnerStep \/ Begins
  BY <1>7, <1>8, <1>15 DEF Daemon, Begins
<1>16. ASSUME NEW c \in Call, Child(c) PROVE op' = Idle \/ OwnerStep
  BY <1>9, <1>10, <1>11, <1>16 DEF Child
<1> QED  BY <1>1, <1>12, <1>13, <1>14, <1>15, <1>16 DEF Next

\* Such a step reads nothing it should not ...
LEMMA BeginsStep ==
    ASSUME Inv, [Next]_vars, Begins
    PROVE  OpInv'
<1>0. OpInv /\ DaemonType /\ ProgramInv /\ DaemonInv
  BY DEF Inv, Types
<1>1. ASSUME NEW x \in Proposals, AdmitBegin(x) PROVE OpInv'
  BY <1>1 DEF AdmitBegin, Begin, OpInv, ownVars, propVars
<1>2. ASSUME NEW p \in Programs, PublishBegin(p), op' # Idle PROVE OpInv'
  <2>1. op' = [kind |-> "publish", at |-> p] /\ UNCHANGED <<slice, calls>>
    BY <1>2 DEF PublishBegin, Begin, Free, opVars, execVars
  <2> QED  BY <1>2, <2>1 DEF PublishBegin, OpInv
<1>3. ASSUME NEW p \in Programs, ResumeBegin(p) PROVE OpInv'
  BY <1>3 DEF ResumeBegin, Begin, OpInv, progVars, rowVars, execVars, childVars, Settles, Awaited
<1>4. ASSUME NEW d \in Daemons, RequestBegin(d) \/ ResultBegin(d) PROVE OpInv'
  <2>1. /\ Suspended(d) /\ UNCHANGED <<daemon, on, intents, results, child, run>>
        /\ op' \in {[kind |-> "request", at |-> d], [kind |-> "result", at |-> d]}
    BY <1>4 DEF RequestBegin, ResultBegin, Begin, daemonVars, recordVars, childVars
  <2>2. Pending(d) \in Call
    BY <1>0, <2>1, CallPair DEF DaemonInv, DaemonOf, DaemonType
  <2>3. child[Pending(d)] = "absent" => Pending(d) \notin results
    BY <2>2 DEF Inv, ChildInv, ChildOf
  <2>4. Suspended(d)' /\ Pending(d)' = Pending(d)
    BY <2>1 DEF Suspended, Pending
  <2>5. CASE RequestBegin(d)
    <3>1. op' = [kind |-> "request", at |-> d] /\ child[Pending(d)] = "absent"
      BY <2>5 DEF RequestBegin, Begin
    <3> QED  BY <2>1, <2>3, <2>4, <3>1 DEF OpInv
  <2>6. CASE ResultBegin(d)
    <3>1. /\ op' = [kind |-> "result", at |-> d] /\ Pending(d) \notin results
          /\ run[Pending(d)] # "live" /\ child[Pending(d)] # "absent"
      BY <2>6 DEF ResultBegin, Begin, Settles, Closed
    <3> QED  BY <2>1, <2>4, <3>1 DEF OpInv
  <2> QED  BY <1>4, <2>5, <2>6
<1>5. ASSUME NEW d \in Daemons, ResultCommit(d) PROVE OpInv'
  BY <1>5 DEF ResultCommit, OpInv
<1>6. ASSUME NEW d \in Daemons, TickBegin(d) \/ Recover(d) PROVE OpInv'
  BY <1>0, <1>6 DEF TickBegin, Recover, Begin, OpInv, DaemonType, daemonVars, recordVars
<1>7. ASSUME NEW d \in Daemons, Execute(d) PROVE OpInv'
  <2>1. /\ op' = [kind |-> "suspend", at |-> d] /\ UNCHANGED <<daemon, results>>
        /\ <<d, NextRequest(d)>> \in intents'
    BY <1>7 DEF Execute, recordVars
  <2>2. daemon[d] = "uncertain"
    BY <1>0, <1>7 DEF Execute, In, OpInv
  <2>3. NextRequest(d)' = NextRequest(d)
    BY <2>1 DEF NextRequest
  <2> QED  BY <2>1, <2>2, <2>3 DEF OpInv
<1> QED  BY <1>1, <1>2, <1>3, <1>4, <1>5, <1>6, <1>7 DEF Begins

\* What the others leave alone while the supervisor is in the middle of
\* something, or else mark as written.
OwnerKeeps ==
    /\ dirty \subseteq dirty'
    /\ UNCHANGED <<calls, awaits, waits, results, intents, on>>
    /\ \A p \in Programs : slice[p] = "call" => slice'[p] = "call"
    /\ \A d \in Daemons : daemon[d] # "absent" => daemon'[d] = daemon[d]
    /\ \A x \in Proposals : prop'[x] = prop[x] \/ <<x>> \in dirty'
ChildSame(c) ==
    /\ child'[c] = child[c] /\ run'[c] = run[c] /\ session'[c] = session[c]
    /\ tried'[c] = tried[c] /\ dismissed'[c] = dismissed[c]
OwnerKeepsChild(c) ==
    /\ ChildSame(c) \/ child[c] \in {"running", "uncertain"} \/ c \in dirty'
    /\ (child[c] = "absent") <=> (child'[c] = "absent")
    /\ run'[c] = "live" => run[c] = "live"

\* The others write no row that the supervisor relies on without a mark.
LEMMA OwnerLeaves ==
    ASSUME Inv, OwnerStep, op # Idle
    PROVE  OwnerKeeps
<1>0. ProgType /\ DaemonType /\ PropType
  BY DEF Inv, Types
<1>1. ASSUME NEW t, Touches(t) PROVE dirty' = dirty \cup {t}
  BY <1>1 DEF Touches, Idle
<1>2. CASE Grant \/ OtherOpens \/ OtherCloses
  BY <1>1, <1>2 DEF Grant, Configure, SetEnabled, Expire, OtherOpens, OtherCloses, Writes,
         progVars, rowVars, execVars, daemonVars, recordVars, ownVars, propVars, opVars, OwnerKeeps
<1>3. ASSUME NEW x \in Proposals, NEW to \in {"queued", "completed"},
             Propose(x) \/ Backlog(x, to)
      PROVE  OwnerKeeps
  <2>1. \A y \in Proposals : prop'[y] = prop[y] \/ y = x
    BY <1>0, <1>3 DEF Propose, Backlog, PropType
  <2>2. dirty' = dirty \cup {<<x>>}
    BY <1>1, <1>3 DEF Propose, Backlog, Writes
  <2> QED  BY <1>3, <2>1, <2>2 DEF Propose, Backlog, progVars, rowVars, execVars, daemonVars,
                                   recordVars, OwnerKeeps
<1>4. ASSUME NEW p \in Programs, Submit(p) \/ CancelProgram(p) PROVE OwnerKeeps
  BY <1>1, <1>4 DEF Submit, CancelProgram, Writes, execVars, daemonVars, recordVars, ownVars,
                    propVars, OwnerKeeps
<1>5. ASSUME NEW p \in Programs, NEW out \in {"call", "report", "error"}, SliceEnds(p, out)
      PROVE  OwnerKeeps
  BY <1>0, <1>5 DEF SliceEnds, ProgType, rowVars, execVars, daemonVars, recordVars, ownVars,
                    propVars, opVars, OwnerKeeps
<1>6. ASSUME NEW d \in Daemons, Enqueue(d) \/ Send(d) \/ Stop(d) PROVE OwnerKeeps
  BY <1>0, <1>1, <1>6 DEF Enqueue, Send, Stop, Writes, DaemonType, progVars, rowVars, execVars,
                          recordVars, ownVars, propVars, OwnerKeeps
<1>7. ASSUME Others, dirty \subseteq dirty' PROVE OwnerKeeps
  BY <1>7 DEF Others, progVars, rowVars, execVars, daemonVars, recordVars, ownVars, propVars,
              OwnerKeeps
<1>8. ASSUME NEW c \in Call, CancelTask(c) \/ Reply(c) \/ Continue(c) \/ Dismiss(c)
      PROVE  OwnerKeeps
  BY <1>1, <1>7, <1>8 DEF CancelTask, Reply, Continue, Dismiss, Writes
<1>9. ASSUME NEW c \in Call, NEW to \in {"clean", "bad", "unsure"},
             RecoverRun(c) \/ RunSettles(c, to)
      PROVE  OwnerKeeps
  BY <1>7, <1>9 DEF RecoverRun, RunSettles, opVars
<1> QED  BY <1>2, <1>3, <1>4, <1>5, <1>6, <1>8, <1>9 DEF OwnerStep

\* Nor do they write a child's.
LEMMA OwnerLeavesChild ==
    ASSUME Inv, OwnerStep, op # Idle, NEW c \in Call
    PROVE  OwnerKeepsChild(c)
<1>0. ChildType
  BY DEF Inv, Types
<1>1. UNCHANGED childVars => OwnerKeepsChild(c)
  BY DEF childVars, OwnerKeepsChild, ChildSame
<1>2. Grant \/ OtherOpens \/ OtherCloses => UNCHANGED childVars
  BY DEF Grant, Configure, SetEnabled, Expire, OtherOpens, OtherCloses
<1>3. ASSUME NEW x \in Proposals, NEW to, Propose(x) \/ Backlog(x, to)
      PROVE  UNCHANGED childVars
  BY <1>3 DEF Propose, Backlog
<1>4. ASSUME NEW p \in Programs, NEW out, Submit(p) \/ CancelProgram(p) \/ SliceEnds(p, out)
      PROVE  UNCHANGED childVars
  BY <1>4 DEF Submit, CancelProgram, SliceEnds
<1>5. ASSUME NEW d \in Daemons, Enqueue(d) \/ Send(d) \/ Stop(d) PROVE UNCHANGED childVars
  BY <1>5 DEF Enqueue, Send, Stop
<1>6. ASSUME NEW b \in Call, CancelTask(b) \/ Reply(b) \/ Continue(b) \/ Dismiss(b)
      PROVE  OwnerKeepsChild(c)
  <2>1. b \in dirty'
    BY <1>6 DEF CancelTask, Reply, Continue, Dismiss, Writes, Touches, Idle
  <2>2. CASE b = c
    <3>1. run' = run /\ child[c] # "absent"
      BY <1>6, <2>2 DEF CancelTask, Reply, Continue, Dismiss, Revoke, Again, Becomes, Open
    <3>2. child'[c] # "absent"
      BY <1>0, <1>6, <2>2, <3>1 DEF CancelTask, Reply, Continue, Dismiss, Revoke, Again, Becomes,
                                    ChildType
    <3> QED  BY <2>1, <2>2, <3>1, <3>2 DEF OwnerKeepsChild
  <2>3. CASE b # c
    <3>1. CASE CancelTask(b)
      BY <3>1 DEF CancelTask, Revoke, OwnerKeepsChild, ChildSame
    <3>2. CASE Reply(b) \/ Continue(b)
      BY <1>0, <2>3, <3>2 DEF Reply, Continue, Again, OwnerKeepsChild, ChildSame, ChildType
    <3>3. CASE Dismiss(b)
      BY <1>0, <2>3, <3>3 DEF Dismiss, Becomes, OwnerKeepsChild, ChildSame, ChildType
    <3> QED  BY <1>6, <3>1, <3>2, <3>3
  <2> QED  BY <2>2, <2>3
<1>7. ASSUME NEW b \in Call, NEW to \in {"clean", "bad", "unsure"},
             RecoverRun(b) \/ RunSettles(b, to)
      PROVE  OwnerKeepsChild(c)
  <2>1. /\ UNCHANGED <<child, session, tried, dismissed>>
        /\ child[b] \in {"running", "uncertain"}
        /\ \E at \in {"clean", "bad", "unsure"} : run' = [run EXCEPT ![b] = at]
    BY <1>7 DEF RecoverRun, RunSettles, RunIs
  <2> QED  BY <1>0, <2>1 DEF OwnerKeepsChild, ChildSame, ChildType
<1> QED  BY <1>1, <1>2, <1>3, <1>4, <1>5, <1>6, <1>7 DEF OwnerStep

\* So what it has read holds until it is done.
LEMMA OwnerOpStep ==
    ASSUME Inv, OwnerStep, op # Idle
    PROVE  OpInv'
<1>0. OpInv /\ op' = op /\ OwnerKeeps /\ DaemonType /\ ProgramInv /\ ProgType /\ DaemonInv
  BY OwnerLeaves DEF Inv, Types, OwnerStep
<1>1. ASSUME NEW t, Fresh(t)' PROVE Fresh(t)
  BY <1>0, <1>1 DEF OwnerKeeps, Fresh
<1>2. ASSUME NEW d \in Daemons, Suspended(d)
      PROVE  /\ Suspended(d)' /\ Pending(d)' = Pending(d) /\ Pending(d) \in Call
             /\ OwnerKeepsChild(Pending(d))
  <2>1. Suspended(d)' /\ Pending(d)' = Pending(d)
    BY <1>0, <1>2 DEF OwnerKeeps, Suspended, Pending
  <2>2. Pending(d) \in Call
    BY <1>0, <1>2 DEF DaemonInv, DaemonOf, DaemonType
  <2> QED  BY <2>1, <2>2, OwnerLeavesChild
<1>3. ASSUME op.kind = "admit"
      PROVE  op.at \in Proposals /\ (Fresh(<<op.at>>)' => prop'[op.at] = "deferred")
  BY <1>0, <1>1, <1>3 DEF OpInv, OwnerKeeps, Fresh
<1>4. ASSUME op.kind = "publish"
      PROVE  op.at \in Programs /\ slice'[op.at] = "call" /\ calls'[op.at] < MaxCalls
  BY <1>0, <1>4 DEF OpInv, OwnerKeeps
<1>5. ASSUME op.kind = "resume"
      PROVE  /\ op.at \in Programs /\ waits'[op.at]
             /\ Fresh(Awaited(op.at))' =>
                    Settles(Awaited(op.at))' /\ child'[Awaited(op.at)'] = "completed"
  <2>1. op.at \in Programs /\ waits[op.at] /\ waits' = waits /\ Awaited(op.at)' = Awaited(op.at)
    BY <1>0, <1>5 DEF OpInv, OwnerKeeps, Awaited
  <2>2. Awaited(op.at) \in Call
    <3>1. awaits[op.at] \in 1 .. MaxCalls
      BY <1>0, <2>1, Bounds DEF ProgramInv, ProgramOf, ProgType
    <3> QED  BY <2>1, <3>1, CallPair DEF Awaited
  <2>3. ASSUME Awaited(op.at) \notin dirty'
        PROVE  Settles(Awaited(op.at))' /\ child'[Awaited(op.at)] = "completed"
    <3>1. Settles(Awaited(op.at)) /\ child[Awaited(op.at)] = "completed"
      BY <1>0, <1>5, <2>3 DEF OpInv, OwnerKeeps, Fresh
    <3>2. ChildSame(Awaited(op.at))
      BY <2>2, <2>3, <3>1, OwnerLeavesChild DEF OwnerKeepsChild
    <3> QED  BY <2>1, <3>1, <3>2 DEF Settles, ChildSame
  <2> QED  BY <2>1, <2>3 DEF Fresh
<1>6. ASSUME op.kind \in {"request", "result", "nudge", "tick", "suspend"} PROVE op.at \in Daemons
  BY <1>0, <1>6 DEF OpInv
<1>7. ASSUME op.kind \in {"request", "result"}
      PROVE  Suspended(op.at)' /\ Pending(op.at)' \notin results'
  BY <1>0, <1>2, <1>6, <1>7 DEF OpInv, OwnerKeeps
<1>8. ASSUME op.kind = "request" PROVE child'[Pending(op.at)'] = "absent"
  BY <1>0, <1>2, <1>6, <1>8 DEF OpInv, OwnerKeepsChild
<1>9. ASSUME op.kind = "result"
      PROVE  child'[Pending(op.at)'] # "absent" /\ run'[Pending(op.at)'] # "live"
  BY <1>0, <1>2, <1>6, <1>9 DEF OpInv, OwnerKeepsChild
<1>10. ASSUME op.kind \in {"tick", "suspend"} PROVE daemon'[op.at] = "uncertain"
  BY <1>0, <1>6, <1>10 DEF OpInv, OwnerKeeps
<1>11. ASSUME op.kind = "suspend" PROVE <<op.at, NextRequest(op.at)'>> \in intents'
  BY <1>0, <1>11 DEF OpInv, OwnerKeeps, NextRequest
<1> QED  BY <1>0, <1>3, <1>4, <1>5, <1>6, <1>7, <1>8, <1>9, <1>10, <1>11 DEF OpInv

\* The supervisor acts on what it has read, or on nothing.
LEMMA OpStep == Inv /\ [Next]_vars => OpInv'
<1> SUFFICES ASSUME Inv, [Next]_vars PROVE OpInv'
  OBVIOUS
<1>1. op' = Idle => OpInv'
  BY DEF OpInv, Idle
<1>2. ASSUME UNCHANGED vars PROVE OpInv'
  <2>1. UNCHANGED <<op, dirty, prop, slice, calls, waits, awaits, daemon, on, intents, results>>
        /\ UNCHANGED childVars
    BY <1>2 DEF vars, opVars, ownVars, propVars, progVars, rowVars, execVars, daemonVars,
                recordVars
  <2> QED  BY <2>1 DEF OpInv, Inv, childVars, Fresh, Awaited, Settles, Suspended, Pending,
                       NextRequest
<1>3. OwnerStep => op' = op
  BY DEF OwnerStep
<1> QED  BY <1>1, <1>2, <1>3, BeginsStep, OwnerOpStep, OpMoves

-----------------------------------------------------------------------------
(* The grant.                                                              *)

\* A set that gets one more element counts one more.
LEMMA OneMore ==
    ASSUME NEW S, NEW T, NEW x, IsFiniteSet(S), x \notin S, T = S \cup {x}
    PROVE  IsFiniteSet(T) /\ Cardinality(T) = Cardinality(S) + 1 /\ Cardinality(S) \in Nat
BY FS_AddElement, FS_CardinalityType

\* The children that are charged change only where one is made.
LEMMA ChargedKept ==
    ASSUME UNCHANGED gen, \A c \in Call : Kept(c)
    PROVE  Charged' = Charged
BY DEF Charged, Kept

\* One is made under the grant in force.
LEMMA ChargedMoves ==
    ASSUME Inv, NEW c \in Call, child[c] = "absent", NEW at \in {"queued", "input"},
           Born(c, gen, at), gen' = gen
    PROVE  Charged' = Charged \cup {c} /\ c \notin Charged
<1>0. ChildType
  BY DEF Inv, Types
<1>1. \A b \in Call : b # c => child'[b] = child[b] /\ born'[b] = born[b]
  BY <1>0 DEF Born, ChildType
<1>2. child'[c] # "absent" /\ born'[c] = gen
  BY <1>0 DEF Born, ChildType
<1> QED  BY <1>1, <1>2 DEF Charged

\* The proposals that are charged change only where one is admitted.
LEMMA GrantedKept ==
    ASSUME Inv, [Next]_vars, UNCHANGED gen, \A x \in Proposals : ~AdmitCommit(x)
    PROVE  Granted' = Granted
<1>0. PropType /\ PropInv
  BY DEF Inv, Types
<1>1. UNCHANGED propVars => Granted' = Granted
  BY DEF propVars, Granted
<1>2. ASSUME NEW x \in Proposals, Propose(x) PROVE Granted' = Granted
  <2>1. ~admitted[x] /\ UNCHANGED admitted
    BY <1>0, <1>2 DEF Propose, PropInv, PropOf
  <2>2. \A y \in Proposals : y # x => offered'[y] = offered[y]
    BY <1>0, <1>2 DEF Propose, PropType
  <2> QED  BY <2>1, <2>2 DEF Granted
<1>3. ASSUME NEW x \in Proposals, NEW to, Proposed(x) \/ Backlog(x, to) \/ AdmitBegin(x)
      PROVE  Granted' = Granted
  BY <1>3 DEF Proposed, Backlog, AdmitBegin, ownVars, propVars, Granted
<1>4. OtherOpens \/ OtherCloses => UNCHANGED propVars
  BY DEF OtherOpens, OtherCloses
<1> QED  BY <1>1, <1>2, <1>3, <1>4, PropMoves DEF Workspace, ownVars

\* A new grant has admitted nothing.
LEMMA FreshGrant ==
    ASSUME Inv, Configure
    PROVE  Charged' = {} /\ Granted' = {}
<1>1. gen' = gen + 1 /\ gen \in Nat /\ UNCHANGED <<child, born, offered, admitted>>
  BY DEF Configure, Inv, Types, GrantType, childVars, ownVars, propVars
<1>2. \A c \in Call : child[c] # "absent" => born[c] # gen + 1
  BY <1>1 DEF Inv, ChildInv, ChildOf
<1>3. \A x \in Proposals : admitted[x] => offered[x] # gen + 1
  BY <1>1 DEF Inv, PropInv, PropOf
<1> QED  BY <1>1, <1>2, <1>3 DEF Charged, Granted

\* The grant counts each admission once.
LEMMA GrantStep == Inv /\ [Next]_vars => GrantInv'
<1> SUFFICES ASSUME Inv, [Next]_vars PROVE GrantInv'
  OBVIOUS
<1>0. GrantInv /\ GrantType /\ OpInv
  BY DEF Inv, Types
<1>1. CASE Charged' = Charged /\ Granted' = Granted /\ used' = used
  BY <1>0, <1>1 DEF GrantInv
<1>2. ASSUME NEW c, Charged' = Charged \cup {c}, c \notin Charged, Granted' = Granted,
             used' = used + 1
      PROVE  GrantInv'
  <2>1. IsFiniteSet(Charged') /\ Cardinality(Charged') = Cardinality(Charged) + 1
        /\ Cardinality(Charged) \in Nat
    BY <1>0, <1>2, OneMore DEF GrantInv
  <2>2. Cardinality(Granted) \in Nat
    BY <1>0, FS_CardinalityType DEF GrantInv
  <2> QED  BY <1>0, <1>2, <2>1, <2>2 DEF GrantInv
<1>3. ASSUME NEW x, Granted' = Granted \cup {x}, x \notin Granted, Charged' = Charged,
             used' = used + 1
      PROVE  GrantInv'
  <2>1. IsFiniteSet(Granted') /\ Cardinality(Granted') = Cardinality(Granted) + 1
        /\ Cardinality(Granted) \in Nat
    BY <1>0, <1>3, OneMore DEF GrantInv
  <2>2. Cardinality(Charged) \in Nat
    BY <1>0, FS_CardinalityType DEF GrantInv
  <2> QED  BY <1>0, <1>3, <2>1, <2>2 DEF GrantInv
<1>4. CASE Configure
  <2>1. Charged' = {} /\ Granted' = {} /\ used' = 0
    BY <1>4, FreshGrant DEF Configure
  <2> QED  BY <2>1, FS_EmptySet DEF GrantInv
<1>5. ASSUME NEW x \in Proposals, AdmitCommit(x) PROVE GrantInv'
  <2>1. \A c \in Call : Kept(c)
    BY <1>5 DEF AdmitCommit, childVars, Kept
  <2>2. CASE UNCHANGED <<admitted, grantVars>>
    <3>1. UNCHANGED <<gen, used, offered, admitted>>
      BY <1>5, <2>2 DEF AdmitCommit, grantVars
    <3> QED  BY <1>1, <2>1, <3>1, ChargedKept DEF Granted
  <2>3. CASE /\ Fresh(<<x>>) /\ GrantHolds(offered[x], TRUE)
             /\ admitted' = [admitted EXCEPT ![x] = TRUE] /\ Admitted
    <3>1. ~admitted[x] /\ offered[x] = gen
      BY <1>0, <1>5, <2>3 DEF AdmitCommit, In, OpInv, GrantHolds, Inv, PropInv, PropOf
    <3>2. /\ \A y \in Proposals : (admitted'[y] <=> admitted[y] \/ y = x)
          /\ UNCHANGED <<gen, offered>> /\ used' = used + 1
      BY <1>5, <2>3 DEF AdmitCommit, Admitted, Inv, Types, PropType
    <3>3. Granted' = Granted \cup {x} /\ x \notin Granted
      BY <3>1, <3>2 DEF Granted
    <3> QED  BY <1>3, <2>1, <3>2, <3>3, ChargedKept
  <2> QED  BY <1>5, <2>2, <2>3 DEF AdmitCommit, propVars
<1>6. ASSUME NEW p \in Programs, Made(p) PROVE GrantInv'
  <2>1. gen' = gen /\ pinned[p] = gen /\ used' = used + 1
    BY <1>6, GenGrows
  <2>2. calls[p] < MaxCalls /\ calls[p] \in Nat
    BY <1>0, <1>6 DEF Made, PublishCommit, In, OpInv, Inv, Types, ProgType
  <2>3. calls[p] + 1 \in 1 .. MaxCalls /\ ~(calls[p] + 1 <= calls[p])
    BY <2>2, Bounds
  <2>4. child[<<p, calls[p] + 1>>] = "absent" /\ <<p, calls[p] + 1>> \in Call
    BY <2>3, CallPair DEF Inv, ProgramInv, ProgramOf
  <2>5. PICK at \in {"queued", "input"} : Born(<<p, calls[p] + 1>>, gen, at)
    BY <1>6, <2>1 DEF Made, Publish
  <2>6. Granted' = Granted
    BY <1>6, <2>1 DEF Made, PublishCommit, ownVars, propVars, Granted
  <2> QED  BY <1>2, <2>1, <2>4, <2>5, <2>6, ChargedMoves
<1>7. ASSUME NEW d \in Daemons, Asked(d) PROVE GrantInv'
  <2>1. gen' = gen /\ used' = used + 1
    BY <1>7, GenGrows
  <2>2. Suspended(d) /\ child[Pending(d)] = "absent"
    BY <1>0, <1>7 DEF Asked, RequestCommit, In, OpInv
  <2>3. Pending(d) \in Call
    BY <2>2 DEF Inv, DaemonInv, DaemonOf, Types, DaemonType
  <2>4. PICK at \in {"queued", "input"} : Born(Pending(d), gen, at)
    BY <1>7 DEF Asked
  <2>5. Granted' = Granted
    BY <1>7, <2>1 DEF Asked, RequestCommit, ownVars, propVars, Granted
  <2> QED  BY <1>2, <2>1, <2>2, <2>3, <2>4, <2>5, ChargedMoves
<1>8. ASSUME ~Configure, \A x \in Proposals : ~AdmitCommit(x),
             \A p \in Programs : ~Made(p), \A d \in Daemons : ~Asked(d)
      PROVE  GrantInv'
  <2>1. gen' = gen /\ used' = used
    BY <1>8, GrantMoves DEF SetEnabled, Expire, PublishCommit, RequestCommit, Made, Asked, grantVars
  <2>2. \A c \in Call : Kept(c)
    BY <1>8, ChildKept
  <2> QED  BY <1>1, <1>8, <2>1, <2>2, ChargedKept, GrantedKept
<1> QED  BY <1>4, <1>5, <1>6, <1>7, <1>8

\* All together.
LEMMA Inductive ==
    /\ Init => Inv
    /\ Inv /\ [Next]_vars => Inv'
BY InitInv, TypesStep, ProgramStep, DaemonStep, ChildStep, PropStep, OpStep, GrantStep DEF Inv

\* Every state of every behaviour.
LEMMA Invariance == Spec => []Inv
BY Inductive, PTL DEF Spec

-----------------------------------------------------------------------------
\* Types, and what the code asserts of its rows.
THEOREM TypeCorrect == Spec => []TypeOK
<1>1. Inv => TypeOK
  <2> SUFFICES ASSUME Inv PROVE TypeOK
    OBVIOUS
  <2>1. /\ GrantType /\ ProgType /\ DaemonType /\ ChildType /\ PropType
        /\ ProgramInv /\ DaemonInv /\ ChildInv
    BY DEF Inv, Types
  <2>2. {enabled, live, other} \subseteq BOOLEAN
    BY <2>1 DEF GrantType, PropType
  <2>3. \A p \in Programs : /\ waits[p] => prog[p] = "queued" /\ awaits[p] = calls[p]
                            /\ (prog[p] = "running") <=> (slice[p] # "off")
    BY <2>1 DEF ProgramInv, ProgramOf
  <2>4. \A d \in Daemons : Suspended(d) => Pending(d) \in intents
    BY <2>1 DEF DaemonInv, DaemonOf
  <2>5. ASSUME NEW c \in Call, c[1] \in Daemons, child[c] # "absent" PROVE c \in intents
    <3>1. DaemonOf(c[1]) /\ c[2] \in 1 .. MaxCalls /\ c = <<c[1], c[2]>>
      BY <2>1, <2>5, CallPair DEF DaemonInv
    <3> QED  BY <2>5, <3>1 DEF DaemonOf
  <2>6. \A c \in Call : c \in results => child[c] # "absent"
    BY <2>1 DEF ChildInv, ChildOf
  <2> QED  BY <2>1, <2>2, <2>3, <2>4, <2>5, <2>6
           DEF TypeOK, GrantType, ProgType, DaemonType, ChildType, PropType
<1> QED  BY <1>1, Invariance, PTL

\* What the grant has spent is what was admitted under it, whatever the owner
\* writes between the supervisor's reads and its commits.
THEOREM GrantIsCounted == Spec => []GrantCount
<1>1. Inv => GrantCount
  BY DEF Inv, GrantInv, GrantCount, Charged, Granted
<1> QED  BY <1>1, Invariance, PTL

\* No worker outlives the program or daemon it works for: its caller waits
\* for that very call.
THEOREM ChildrenUnderCallers == Spec => []ChildUnderCaller
<1>1. ASSUME Inv, NEW c \in Call, run[c] = "live"
      PROVE  /\ c \notin results
             /\ IF c[1] \in Programs
                THEN waits[c[1]] /\ awaits[c[1]] = c[2]
                ELSE daemon[c[1]] \in {"suspended", "uncertain"} /\ NextRequest(c[1]) = c[2]
  <2>1. c \notin results /\ child[c] # "absent"
    BY <1>1 DEF Inv, ChildInv, ChildOf
  <2>2. c[1] \in Callers /\ c[2] \in 1 .. MaxCalls /\ c = <<c[1], c[2]>>
    BY CallPair
  <2>3. CASE c[1] \in Programs
    <3>1. ProgramOf(c[1])
      BY <1>1, <2>3 DEF Inv, ProgramInv
    <3> QED  BY <1>1, <2>1, <2>2, <2>3, <3>1 DEF ProgramOf
  <2>4. CASE c[1] \notin Programs
    <3>1. DaemonOf(c[1])
      BY <1>1, <2>2, <2>4 DEF Inv, DaemonInv, Callers
    <3>2. c[2] <= NextRequest(c[1]) /\ ~(c[2] < NextRequest(c[1]))
      BY <2>1, <2>2, <3>1 DEF DaemonOf
    <3>3. NextRequest(c[1]) = c[2]
      BY <2>2, <3>2, NextType, Bounds
    <3> QED  BY <2>1, <2>2, <2>4, <3>1, <3>3 DEF DaemonOf
  <2> QED  BY <2>3, <2>4
<1>2. Inv => ChildUnderCaller
  BY <1>1 DEF ChildUnderCaller
<1> QED  BY <1>2, Invariance, PTL

\* A program is resumed only by a child that is complete at that moment.
THEOREM ResumptionsAreEvident == Spec => ResumedByEvidence
<1>1. ASSUME Inv, [Next]_vars, NEW p \in Programs, waits[p], prog'[p] = "queued", ~waits'[p]
      PROVE  /\ Awaited(p) \in results' /\ Settles(Awaited(p))
             /\ child[Awaited(p)] = "completed"
  <2>0. ProgType /\ OpInv
    BY <1>1 DEF Inv, Types
  <2>1. ~UNCHANGED progVars /\ ~Crash
    BY <1>1 DEF Crash, progVars, rowVars
  <2>2. ASSUME NEW q \in Programs, q # p PROVE ~Program(q)
    BY <1>1, <2>2, OtherPrograms DEF RowKept
  <2>3. Program(p)
    BY <1>1, <2>1, <2>2, ProgMoves
  <2>4. ResumeCommit(p) /\ waits' # waits
    <3>1. UNCHANGED waits => FALSE
      BY <1>1
    <3>2. ~CloseParent(p)
      BY <1>1, <2>0 DEF CloseParent, ProgType
    <3>3. ~PublishCommit(p)
      <4>1. ASSUME NEW at, Publish(p, at) PROVE FALSE
        BY <1>1, <2>0, <4>1 DEF Publish, ProgType
      <4> QED  BY <3>1, <4>1 DEF PublishCommit, Hold, progVars, rowVars
    <3> QED  BY <2>3, <3>1, <3>2, <3>3 DEF Program, Submit, CancelProgram, CancelQueued, Launch,
                Deferred, SliceEnds, Finish, PublishBegin, Hold, CancelChild, ResumeBegin,
                progVars, rowVars
  <2>5. Fresh(Awaited(p)) /\ results' = results \cup {Awaited(p)}
    BY <2>4 DEF ResumeCommit
  <2> QED  BY <2>0, <2>4, <2>5 DEF ResumeCommit, In, OpInv
<1>2. Inv /\ [Next]_vars =>
          [\A p \in Programs : waits[p] /\ prog'[p] = "queued" /\ ~waits'[p] =>
              /\ Awaited(p) \in results' /\ Settles(Awaited(p))
              /\ child[Awaited(p)] = "completed"]_vars
  BY <1>1
<1> QED  BY <1>2, Invariance, PTL DEF Spec, ResumedByEvidence

-----------------------------------------------------------------------------
(* The ledger of the calls.                                                *)

\* What the ledger says of one caller.
Asks(o) == {i \in 1 .. MaxCalls : child[<<o, i>>] # "absent"}
Replies(o) == {i \in 1 .. MaxCalls : <<o, i>> \in results}
HasClosed(o) == IF o \in Programs THEN prog[o] \in Closed ELSE daemon[o] = "terminal"

AllAsked == [o \in Callers |-> Cardinality({i \in 1 .. MaxCalls : child[<<o, i>>] # "absent"})]
AllAnswered == [o \in Callers |-> Cardinality({i \in 1 .. MaxCalls : <<o, i>> \in results})]
AllClosed == [o \in Callers |-> IF o \in Programs THEN prog[o] \in Closed
                                ELSE daemon[o] = "terminal"]

\* Nobody closes, or one caller does and nothing else happens.
Steady == \A o \in Callers : HasClosed(o)' <=> HasClosed(o)
ClosesOnly(o) ==
    /\ ~HasClosed(o) /\ HasClosed(o)'
    /\ \A q \in Callers : q # o => (HasClosed(q)' <=> HasClosed(q))
    /\ UNCHANGED <<childVars, results>>

\* One caller, at most, closes, and it stays closed.
LEMMA Closings ==
    ASSUME Inv, [Next]_vars
    PROVE  Steady \/ \E o \in Callers : ClosesOnly(o)
<1>0. ProgType /\ DaemonType /\ OpInv /\ ProgramInv
  BY DEF Inv, Types
<1>1. ASSUME UNCHANGED progVars \/ Crash
      PROVE  \A p \in Programs : HasClosed(p)' <=> HasClosed(p)
  BY <1>0, <1>1 DEF HasClosed, Crash, Closed, progVars, rowVars
<1>2. UNCHANGED recordVars => \A d \in Daemons : HasClosed(d)' <=> HasClosed(d)
  BY CallPair DEF HasClosed, recordVars
<1>3. ASSUME NEW p \in Programs, Program(p)
      PROVE  Steady \/ ClosesOnly(p)
  <2>1. \A q \in Programs : q # p => (HasClosed(q)' <=> HasClosed(q))
    BY <1>3, OtherPrograms DEF HasClosed, RowKept
  <2>2. UNCHANGED recordVars
    BY <1>3 DEF Program, Submit, CancelProgram, CancelQueued, Launch, Deferred, SliceEnds, Finish,
                PublishBegin, PublishCommit, CancelChild, CloseParent, ResumeBegin, ResumeCommit,
                daemonVars
  <2>3. \A q \in Callers : q # p => (HasClosed(q)' <=> HasClosed(q))
    BY <1>2, <2>1, <2>2 DEF Callers
  <2>4. CASE CancelQueued(p) \/ Finish(p) \/ CloseParent(p)
    <3>1. ~HasClosed(p) /\ HasClosed(p)'
      BY <1>0, <2>4 DEF CancelQueued, Finish, CloseParent, HasClosed, Closed, ProgType, ProgramInv,
                        ProgramOf
    <3>2. UNCHANGED <<childVars, results>>
      BY <2>4 DEF CancelQueued, Finish, CloseParent
    <3> QED  BY <2>3, <3>1, <3>2 DEF ClosesOnly
  <2>5. ASSUME prog[p] \notin Closed, prog'[p] \notin Closed PROVE Steady
    BY <2>3, <2>5 DEF Steady, HasClosed
  <2>6. ASSUME prog' = prog PROVE Steady
    BY <2>3, <2>6 DEF Steady, HasClosed
  <2>7. CASE Submit(p) \/ Launch(p)
    BY <1>0, <2>5, <2>7 DEF Submit, Launch, ProgType, Closed
  <2>8. CASE CancelProgram(p) \/ Deferred(p) \/ ResumeCommit(p)
    BY <2>6, <2>8 DEF CancelProgram, Deferred, ResumeCommit
  <2>9. CASE CancelChild(p) \/ ResumeBegin(p)
             \/ \E out \in {"call", "report", "error"} : SliceEnds(p, out)
    BY <2>6, <2>9 DEF CancelChild, ResumeBegin, SliceEnds, progVars, rowVars
  <2>10. CASE PublishBegin(p) \/ PublishCommit(p)
    <3>1. prog[p] = "running"
      <4>1. slice[p] = "call"
        <5>1. CASE PublishBegin(p)
          BY <5>1 DEF PublishBegin
        <5>2. CASE PublishCommit(p)
          BY <1>0, <5>2 DEF PublishCommit, In, OpInv
        <5> QED  BY <2>10, <5>1, <5>2
      <4> QED  BY <1>0, <4>1 DEF ProgramInv, ProgramOf
    <3>2. prog' = prog \/ prog' = [prog EXCEPT ![p] = "queued"]
      BY <2>10 DEF PublishBegin, PublishCommit, Hold, Publish, progVars, rowVars
    <3> QED  BY <1>0, <2>5, <2>6, <3>1, <3>2 DEF ProgType, Closed
  <2> QED  BY <1>3, <2>4, <2>7, <2>8, <2>9, <2>10 DEF Program
<1>4. ASSUME NEW d \in Daemons, Daemon(d)
      PROVE  Steady \/ ClosesOnly(d)
  <2>1. \A e \in Daemons : e # d => (HasClosed(e)' <=> HasClosed(e))
    BY <1>4, CallPair, OtherDaemons DEF HasClosed, RecordKept
  <2>2. UNCHANGED progVars
    BY <1>4 DEF Daemon, Enqueue, Send, Stop, CancelRequested, RequestBegin, RequestCommit,
         ResultBegin, ResultCommit, Nudge, TickBegin, Recover, Execute, Suspend, TickEnds
  <2>3. \A q \in Callers : q # d => (HasClosed(q)' <=> HasClosed(q))
    BY <1>1, <2>1, <2>2 DEF Callers
  <2>4. ASSUME daemon[d] # "terminal", daemon'[d] # "terminal" PROVE Steady
    BY <2>3, <2>4, CallPair DEF Steady, HasClosed
  <2>5. ASSUME daemon' = daemon PROVE Steady
    BY <2>3, <2>5, CallPair DEF Steady, HasClosed
  <2>6. CASE Enqueue(d) \/ TickBegin(d) \/ Suspend(d)
    BY <1>0, <2>4, <2>6 DEF Enqueue, TickBegin, Suspended, Suspend, In, OpInv, DaemonType
  <2>7. CASE \/ Send(d) \/ Stop(d) \/ CancelRequested(d) \/ RequestBegin(d) \/ RequestCommit(d)
             \/ ResultBegin(d) \/ ResultCommit(d) \/ Nudge(d) \/ Recover(d) \/ Execute(d)
    BY <2>5, <2>7 DEF Send, Stop, CancelRequested, RequestBegin, RequestCommit, ResultBegin,
         ResultCommit, Nudge, Recover, Execute, daemonVars, recordVars
  <2>8. CASE TickEnds(d)
    <3>1. daemon[d] = "uncertain" /\ UNCHANGED <<childVars, results>>
      BY <1>0, <2>8 DEF TickEnds, In, OpInv
    <3>2. CASE daemon'[d] = "terminal"
      BY <2>3, <3>1, <3>2, CallPair DEF ClosesOnly, HasClosed
    <3> QED  BY <2>4, <3>1, <3>2
  <2> QED  BY <1>4, <2>6, <2>7, <2>8 DEF Daemon
<1>5. ASSUME UNCHANGED progVars \/ Crash, UNCHANGED recordVars PROVE Steady
  BY <1>1, <1>2, <1>5 DEF Steady, Callers
<1>6. UNCHANGED <<daemonVars, results>> => UNCHANGED recordVars
  BY DEF daemonVars
<1>7. ASSUME NEW p \in Programs, ResumeCommit(p) PROVE Program(p)
  BY <1>7 DEF Program
<1> QED  BY <1>3, <1>4, <1>5, <1>6, <1>7, ProgMoves, DaemonMoves, CallPair

\* A caller asks for one more, is answered one more, or is left alone.
AsksOnly(o, i) ==
    /\ i \in 1 .. MaxCalls /\ i \notin Asks(o) /\ Asks(o) = Replies(o)
    /\ Asks(o)' = Asks(o) \cup {i}
    /\ \A q \in Callers : q # o => Asks(q)' = Asks(q)
    /\ UNCHANGED results /\ ~HasClosed(o)
AnsweredOnly(o, i) ==
    /\ i \in Asks(o) /\ i \notin Replies(o)
    /\ Replies(o)' = Replies(o) \cup {i}
    /\ \A q \in Callers : q # o => Replies(q)' = Replies(q)
    /\ UNCHANGED child /\ ~HasClosed(o)

\* Each step is one of these.
LEMMA CallMoves ==
    ASSUME Inv, [Next]_vars
    PROVE  \/ \A o \in Callers : Asks(o)' = Asks(o) /\ Replies(o)' = Replies(o)
           \/ \E o \in Callers, i \in 1 .. MaxCalls : AsksOnly(o, i) \/ AnsweredOnly(o, i)
<1>0. ProgType /\ DaemonType /\ ChildType /\ OpInv /\ ProgramInv /\ DaemonInv /\ ChildInv
  BY DEF Inv, Types
<1>1. ASSUME NEW o \in Callers, NEW i \in 1 .. MaxCalls, NEW g, NEW at \in {"queued", "input"},
             Born(<<o, i>>, g, at)
      PROVE  Asks(o)' = Asks(o) \cup {i} /\ \A q \in Callers : q # o => Asks(q)' = Asks(q)
  <2>1. \A q \in Callers, j \in 1 .. MaxCalls :
            child'[<<q, j>>] = IF q = o /\ j = i THEN at ELSE child[<<q, j>>]
    BY <1>0, <1>1, CallPair DEF Born, ChildType
  <2> QED  BY <2>1 DEF Asks
<1>2. ASSUME NEW p \in Programs, Made(p) PROVE AsksOnly(p, calls[p] + 1)
  <2>1. slice[p] = "call" /\ calls[p] < MaxCalls /\ UNCHANGED results
    BY <1>0, <1>2 DEF Made, PublishCommit, In, OpInv
  <2>2. prog[p] \notin Closed /\ ~waits[p]
    BY <1>0, <2>1 DEF ProgramInv, ProgramOf, Closed
  <2>3. calls[p] \in Nat /\ calls[p] + 1 \in 1 .. MaxCalls
    BY <1>0, <2>1, Bounds DEF ProgType
  <2>4. calls[p] + 1 \notin Asks(p)
    BY <1>0, <2>3 DEF Asks, ProgramInv, ProgramOf
  <2>5. Asks(p) = Replies(p)
    BY <1>0, <2>2, <2>3 DEF Asks, Replies, ProgramInv, ProgramOf
  <2>6. PICK at \in {"queued", "input"} : Publish(p, at)
    BY <1>2 DEF Made
  <2>7. Born(<<p, calls[p] + 1>>, pinned[p], at)
    BY <2>6 DEF Publish
  <2> QED  BY <1>1, <2>1, <2>2, <2>3, <2>4, <2>5, <2>7, CallPair DEF AsksOnly, HasClosed
<1>3. ASSUME NEW d \in Daemons, Asked(d) PROVE AsksOnly(d, on[d])
  <2>1. Suspended(d) /\ Pending(d) \notin results /\ child[Pending(d)] = "absent"
        /\ UNCHANGED results
    BY <1>0, <1>3 DEF Asked, RequestCommit, In, OpInv
  <2>0. DaemonOf(d) /\ NextRequest(d) \in 1 .. (MaxCalls + 1) /\ MaxCalls \in Nat
    BY <1>0, NextType, Bounds DEF DaemonInv
  <2>2. on[d] \in 1 .. MaxCalls
    BY <1>0, <2>0, <2>1 DEF Suspended, DaemonType
  <2>3. on[d] = NextRequest(d)
    BY <2>0, <2>1, <2>2 DEF DaemonOf, Pending
  <2>4. on[d] \notin Asks(d)
    BY <2>1 DEF Asks, Pending
  <2>5. Asks(d) = Replies(d)
    <3>1. ASSUME NEW i \in 1 .. MaxCalls, child[<<d, i>>] # "absent" PROVE <<d, i>> \in results
      <4>1. i <= NextRequest(d) /\ i # NextRequest(d)
        BY <2>0, <2>3, <2>4, <3>1 DEF DaemonOf, Asks
      <4>2. i < NextRequest(d)
        BY <2>0, <4>1
      <4> QED  BY <2>0, <4>2 DEF DaemonOf
    <3>2. ASSUME NEW i \in 1 .. MaxCalls, <<d, i>> \in results PROVE child[<<d, i>>] # "absent"
      BY <1>0, <3>2, CallPair DEF ChildInv, ChildOf
    <3> QED  BY <3>1, <3>2 DEF Asks, Replies
  <2>6. PICK at \in {"queued", "input"} : Born(<<d, on[d]>>, gen, at)
    BY <1>3 DEF Asked, Pending
  <2>7. ~HasClosed(d)
    BY <2>1, CallPair DEF HasClosed, Suspended
  <2> QED  BY <1>1, <2>1, <2>2, <2>4, <2>5, <2>6, <2>7, CallPair DEF AsksOnly
<1>4. ASSUME \A c \in Call : Kept(c), NEW o \in Callers PROVE Asks(o)' = Asks(o)
  BY <1>4, CallPair DEF Asks, Kept
<1>5. ASSUME NEW o \in Callers, NEW i \in 1 .. MaxCalls, <<o, i>> \notin results,
             results' = results \cup {<<o, i>>}, ~HasClosed(o)
      PROVE  AnsweredOnly(o, i)
  <2>1. child[<<o, i>>] # "absent" /\ UNCHANGED child
    BY <1>5, CallPair, AnswersSettled DEF childVars
  <2>2. /\ i \in Asks(o) /\ i \notin Replies(o) /\ Replies(o)' = Replies(o) \cup {i}
        /\ \A q \in Callers : q # o => Replies(q)' = Replies(q)
    BY <1>5, <2>1 DEF Asks, Replies
  <2> QED  BY <1>5, <2>1, <2>2 DEF AnsweredOnly
<1>6. ASSUME NEW p \in Programs, ResumeCommit(p), results' = results \cup {Awaited(p)},
             results' # results
      PROVE  AnsweredOnly(p, awaits[p])
  <2>1. waits[p]
    BY <1>0, <1>6 DEF ResumeCommit, In, OpInv
  <2>2. awaits[p] \in 1 .. MaxCalls /\ ~HasClosed(p)
    BY <1>0, <2>1, Bounds DEF ProgramInv, ProgramOf, ProgType, HasClosed, Closed
  <2> QED  BY <1>5, <1>6, <2>2, CallPair DEF Awaited
<1>7. ASSUME NEW d \in Daemons, ResultCommit(d), results' = results \cup {Pending(d)}
      PROVE  AnsweredOnly(d, on[d])
  <2>1. Suspended(d) /\ Pending(d) \notin results
    BY <1>0, <1>7 DEF ResultCommit, In, OpInv
  <2>2. on[d] \in 1 .. MaxCalls /\ ~HasClosed(d)
    BY <1>0, <2>1, Bounds, CallPair DEF Suspended, DaemonType, HasClosed
  <2> QED  BY <1>5, <1>7, <2>1, <2>2, CallPair DEF Pending
<1>8. ASSUME \A c \in Call : Kept(c), results' = results, NEW o \in Callers
      PROVE  Asks(o)' = Asks(o) /\ Replies(o)' = Replies(o)
  BY <1>4, <1>8 DEF Replies
<1>9. ASSUME NEW o, NEW i, AsksOnly(o, i) \/ AnsweredOnly(o, i) PROVE i \in 1 .. MaxCalls
  BY <1>9 DEF AsksOnly, AnsweredOnly, Asks
<1>10. CASE \E p \in Programs : Made(p)
  BY <1>2, <1>9, <1>10, CallPair
<1>11. CASE \E d \in Daemons : Asked(d)
  BY <1>3, <1>9, <1>11, CallPair
<1>12. CASE \A c \in Call : Kept(c)
  BY <1>6, <1>7, <1>8, <1>9, <1>12, Answers, CallPair
<1> QED  BY <1>10, <1>11, <1>12, ChildKept

\* Each of these is a step of the ledger.
LEMMA LedgerMoves ==
    ASSUME Inv, [Next]_vars
    PROVE  [Ledger!Next]_(Ledger!calls)
<1>1. UNCHANGED results => AllAnswered' = AllAnswered
  BY DEF AllAnswered
<1>2. UNCHANGED child => AllAsked' = AllAsked
  BY DEF AllAsked
<1>3. Steady => AllClosed' = AllClosed
  BY DEF AllClosed, Steady, HasClosed
<1>4. ASSUME NEW o \in Callers
      PROVE  /\ AllAsked[o] = Cardinality(Asks(o)) /\ IsFiniteSet(Asks(o))
             /\ AllAnswered[o] = Cardinality(Replies(o)) /\ IsFiniteSet(Replies(o))
             /\ AllClosed[o] = HasClosed(o)
  <2>1. IsFiniteSet(1 .. MaxCalls)
    BY FS_Interval, Bounds
  <2>2. Asks(o) \subseteq 1 .. MaxCalls /\ Replies(o) \subseteq 1 .. MaxCalls
    BY DEF Asks, Replies
  <2>3. IsFiniteSet(Asks(o)) /\ IsFiniteSet(Replies(o))
    BY <2>1, <2>2, FS_Subset
  <2>4. AllAsked[o] = Cardinality(Asks(o)) /\ AllAnswered[o] = Cardinality(Replies(o))
    BY DEF AllAsked, AllAnswered, Asks, Replies
  <2>5. AllClosed[o] = HasClosed(o)
    BY DEF AllClosed, HasClosed
  <2> QED  BY <2>3, <2>4, <2>5
<1>5. ASSUME NEW o \in Callers, ClosesOnly(o) PROVE Ledger!Next
  <2>1. AllAsked' = AllAsked /\ AllAnswered' = AllAnswered
    BY <1>1, <1>2, <1>5 DEF ClosesOnly, childVars
  <2>2. AllClosed' = [AllClosed EXCEPT ![o] = TRUE]
    <3>1. \A q \in Callers : q # o => AllClosed'[q] = AllClosed[q]
      BY <1>5 DEF ClosesOnly, AllClosed, HasClosed
    <3>2. AllClosed'[o] = TRUE
      BY <1>5 DEF ClosesOnly, AllClosed, HasClosed
    <3>3. /\ AllClosed = [q \in Callers |-> AllClosed[q]]
          /\ AllClosed' = [q \in Callers |-> AllClosed'[q]]
      BY DEF AllClosed
    <3> QED  BY <3>1, <3>2, <3>3
  <2>3. ~AllClosed[o]
    BY <1>4, <1>5 DEF ClosesOnly
  <2>4. Ledger!Close(o)
    BY <2>1, <2>2, <2>3 DEF Ledger!Close, AllAsked, AllAnswered, AllClosed
  <2> QED  BY <2>4 DEF Ledger!Next
<1>6. ASSUME NEW o \in Callers, NEW i \in 1 .. MaxCalls, AsksOnly(o, i), Steady
      PROVE  Ledger!Next
  <2>1. /\ Cardinality(Asks(o)') = Cardinality(Asks(o)) + 1
        /\ Cardinality(Asks(o)) < MaxCalls
    <3>1. IsFiniteSet(Asks(o)') /\ Cardinality(Asks(o)') = Cardinality(Asks(o)) + 1
          /\ Cardinality(Asks(o)) \in Nat
      BY <1>4, <1>6, OneMore DEF AsksOnly
    <3>2. Asks(o)' \subseteq 1 .. MaxCalls
      BY DEF Asks
    <3>3. IsFiniteSet(1 .. MaxCalls) /\ Cardinality(1 .. MaxCalls) = MaxCalls
      BY FS_Interval, Bounds
    <3>4. Cardinality(Asks(o)') <= MaxCalls
      BY <3>2, <3>3, FS_Subset
    <3> QED  BY <3>1, <3>4, Bounds
  <2>2. AllAsked' = [AllAsked EXCEPT ![o] = @ + 1]
    <3>1. \A q \in Callers : Cardinality(Asks(q)') =
              IF q = o THEN Cardinality(Asks(o)) + 1 ELSE Cardinality(Asks(q))
      BY <1>6, <2>1 DEF AsksOnly
    <3>2. AllAsked = [q \in Callers |-> Cardinality(Asks(q))]
          /\ AllAsked' = [q \in Callers |-> Cardinality(Asks(q)')]
      BY DEF AllAsked, Asks
    <3> QED  BY <3>1, <3>2
  <2>3. AllAnswered' = AllAnswered /\ AllClosed' = AllClosed
    BY <1>1, <1>3, <1>6 DEF AsksOnly
  <2>4. ~AllClosed[o] /\ AllAsked[o] = AllAnswered[o] /\ AllAsked[o] < MaxCalls
    BY <1>4, <1>6, <2>1 DEF AsksOnly
  <2>5. Ledger!Ask(o)
    BY <2>2, <2>3, <2>4 DEF Ledger!Ask, AllAsked, AllAnswered, AllClosed
  <2> QED  BY <2>5 DEF Ledger!Next
<1>7. ASSUME NEW o \in Callers, NEW i \in 1 .. MaxCalls, AnsweredOnly(o, i), Steady
      PROVE  Ledger!Next
  <2>1. /\ Cardinality(Replies(o)') = Cardinality(Replies(o)) + 1
        /\ Cardinality(Replies(o)) < Cardinality(Asks(o))
    <3>1. IsFiniteSet(Replies(o)') /\ Cardinality(Replies(o)') = Cardinality(Replies(o)) + 1
          /\ Cardinality(Replies(o)) \in Nat
      BY <1>4, <1>7, OneMore DEF AnsweredOnly
    <3>2. Replies(o) \subseteq Asks(o)
      BY CallPair DEF Replies, Asks, Inv, ChildInv, ChildOf
    <3>3. Replies(o)' \subseteq Asks(o)
      BY <1>7, <3>2 DEF AnsweredOnly
    <3>4. Cardinality(Replies(o)') <= Cardinality(Asks(o)) /\ Cardinality(Asks(o)) \in Nat
      BY <1>4, <3>3, FS_Subset, FS_CardinalityType
    <3> QED  BY <3>1, <3>4
  <2>2. AllAnswered' = [AllAnswered EXCEPT ![o] = @ + 1]
    <3>1. \A q \in Callers : Cardinality(Replies(q)') =
              IF q = o THEN Cardinality(Replies(o)) + 1 ELSE Cardinality(Replies(q))
      BY <1>7, <2>1 DEF AnsweredOnly
    <3>2. AllAnswered = [q \in Callers |-> Cardinality(Replies(q))]
          /\ AllAnswered' = [q \in Callers |-> Cardinality(Replies(q)')]
      BY DEF AllAnswered, Replies
    <3> QED  BY <3>1, <3>2
  <2>3. AllAsked' = AllAsked /\ AllClosed' = AllClosed
    BY <1>2, <1>3, <1>7 DEF AnsweredOnly
  <2>4. ~AllClosed[o] /\ AllAnswered[o] < AllAsked[o]
    BY <1>4, <1>7, <2>1 DEF AnsweredOnly
  <2>5. Ledger!Answer(o)
    BY <2>2, <2>3, <2>4 DEF Ledger!Answer, AllAsked, AllAnswered, AllClosed
  <2> QED  BY <2>5 DEF Ledger!Next
<1>8. ASSUME \A o \in Callers : Asks(o)' = Asks(o) /\ Replies(o)' = Replies(o), Steady
      PROVE  UNCHANGED Ledger!calls
  <2>1. AllAsked' = AllAsked
    <3>1. AllAsked = [q \in Callers |-> Cardinality(Asks(q))]
          /\ AllAsked' = [q \in Callers |-> Cardinality(Asks(q)')]
      BY DEF AllAsked, Asks
    <3> QED  BY <1>8, <3>1
  <2>2. AllAnswered' = AllAnswered
    <3>1. AllAnswered = [q \in Callers |-> Cardinality(Replies(q))]
          /\ AllAnswered' = [q \in Callers |-> Cardinality(Replies(q)')]
      BY DEF AllAnswered, Replies
    <3> QED  BY <1>8, <3>1
  <2> QED  BY <1>3, <1>8, <2>1, <2>2 DEF Ledger!calls, AllAsked, AllAnswered, AllClosed
<1> QED  BY <1>5, <1>6, <1>7, <1>8, Closings, CallMoves

\* The calls of programs and daemons are asked and answered one at a time.
THEOREM ImplementsCalls == Spec => CallSpec
<1>1. Init => Ledger!Init
  <2> SUFFICES ASSUME Init PROVE Ledger!Init
    OBVIOUS
  <2>1. \A o \in Callers : Asks(o) = {} /\ Replies(o) = {} /\ HasClosed(o) = FALSE
    BY CallPair DEF Init, Asks, Replies, HasClosed, Closed, Callers
  <2>2. AllAsked = [o \in Callers |-> 0]
    <3>1. AllAsked = [q \in Callers |-> Cardinality(Asks(q))]
      BY DEF AllAsked, Asks
    <3> QED  BY <2>1, <3>1, FS_EmptySet
  <2>3. AllAnswered = [o \in Callers |-> 0]
    <3>1. AllAnswered = [q \in Callers |-> Cardinality(Replies(q))]
      BY DEF AllAnswered, Replies
    <3> QED  BY <2>1, <3>1, FS_EmptySet
  <2>4. AllClosed = [o \in Callers |-> FALSE]
    BY <2>1 DEF AllClosed, HasClosed
  <2> QED  BY <2>2, <2>3, <2>4 DEF Ledger!Init, AllAsked, AllAnswered, AllClosed
<1>2. Inv /\ [Next]_vars => [Ledger!Next]_(Ledger!calls)
  BY LedgerMoves
<1> QED  BY <1>1, <1>2, Invariance, PTL DEF Spec, CallSpec, Ledger!Spec
=============================================================================
