-------------------------- MODULE CommandJobs_proofs --------------------------
(***************************************************************************)
(* Safety of the offline commands of a turn, for every set of commands and *)
(* every bound: what a turn says of its edits is true, the manifest names  *)
(* the guest that a command of unknown end was sent to, and a turn lets go *)
(* of a command only when nothing of it can run any more (GuestJobs).      *)
(***************************************************************************)
EXTENDS CommandJobs, TLAPS

(* Where the owning process is before, on and after the way to the guest.  *)
Unsent == {"off", "prepare", "record", "own", "admit", "check", "mark", "start"}
Waiting == {"send", "wait", "save"}
Joined == {"clear", "ack", "publish", "publishing", "settle", "release"}

(* A turn holds its command from `Record' until `Release', and what happens *)
(* to it in another process happens after its own process is dead.         *)
TurnInv(c) ==
    /\ host[c] \in {"off", "prepare", "record"} => held[c] = "no"
    /\ host[c] \in (Unsent \ {"off", "prepare", "record"}) \cup Waiting \cup Joined \cup {"held"}
          => held[c] = "yes"
    /\ host[c] = "off" <=> phase[c] = "idle"
    /\ phase[c] = "settled" => host[c] = "ended"
    /\ rec[c] # "off" => host[c] = "dead"

(* The files of the job directory follow the way of the process, and       *)
(* recovery has its proof on disk before it goes on.                       *)
ReceiptInv(c) ==
    /\ host[c] \in Unsent => c \notin started /\ ~JoinedReceipt(c)
    /\ host[c] \in Waiting => c \in started /\ ~JoinedReceipt(c)
    /\ host[c] \in Joined => JoinedReceipt(c)
    /\ rec[c] \in {"receipt", "clear"} => JoinedReceipt(c)
    /\ rec[c] = "proved" => c \notin started \/ JoinedReceipt(c)

(* The guest works on a request once, its result is final, and a receipt   *)
(* of a join speaks for a result that proves it.                           *)
GuestInv(c) ==
    /\ host[c] \in Unsent \cup {"send"} \/ c \notin started
          => c \notin flying /\ unit[c] = "none"
    /\ c \in flying => unit[c] = "none"
    /\ result[c] # "none" <=> unit[c] = "done"
    /\ c \in alive => unit[c] = "phase" \/ result[c] = "open"
    /\ JoinedReceipt(c) /\ c \in started => Proves(result[c])

(* A command that is out has a marker, so the process that passed the scan *)
(* of the markers and kept the lock finds none that is out.                *)
MarkInv(c) ==
    /\ c \in started /\ ~JoinedReceipt(c) => c \in marked
    /\ host[c] = "start" => c \in marked
    /\ host[c] \in {"check", "mark", "start"} => \A d \in started : JoinedReceipt(d)

(* A command is prepared for the boot of the manifest.  The boots only      *)
(* grow, so one that found the guest at its own boot finds the manifest    *)
(* there too, and its marker keeps the manifest where it is.               *)
PinInv(c) ==
    /\ jobBoot[c] <= pinned
    /\ host[c] \in {"mark", "start"} => jobBoot[c] = pinned
    /\ c \in started /\ ~JoinedReceipt(c) => jobBoot[c] = pinned

(* What is in the worktree, and what the tool call has said of it, at      *)
(* every place of the way.                                                 *)
EditsInv(c) ==
    /\ host[c] \in Unsent \cup Waiting \cup {"clear", "ack", "publish"} =>
          ws[c] = "untouched" /\ said[c] = "none"
    /\ host[c] \in {"save", "clear", "ack"} => c \in raw
    /\ host[c] \in {"publish", "publishing"} /\ c \in started => c \in raw
    /\ host[c] = "publishing" => ws[c] = "partial"
    /\ ws[c] # "untouched" => c \in raw \cap ok /\ result[c] = "joined"
    /\ host[c] \in {"settle", "release", "done", "ended"} =>
          ws[c] # "partial" /\ (ws[c] = "written" <=> said[c] = "published")
    /\ host[c] \in {"release", "done", "ended"} => tool[c] = "settled"

CommandInv(c) ==
    /\ TurnInv(c) /\ ReceiptInv(c) /\ GuestInv(c)
    /\ MarkInv(c) /\ PinInv(c) /\ EditsInv(c)

(* The inductive invariant.                                                *)
Inv == TypeOK /\ pinned <= boot /\ \A c \in Commands : CommandInv(c)

-----------------------------------------------------------------------------
(* Types.                                                                  *)

(* The initial state satisfies the invariant.                              *)
LEMMA InvInit == Init => Inv
<1> SUFFICES ASSUME Init PROVE Inv
  OBVIOUS
<1>1. TypeOK
  BY BoundsAssumption DEF Init, TypeOK, Phases, Holding, Steps
<1>2. ASSUME NEW c \in Commands PROVE CommandInv(c)
  BY <1>2 DEF Init, CommandInv, TurnInv, ReceiptInv, GuestInv, MarkInv, PinInv,
              EditsInv, JoinedReceipt, Unsent, Waiting, Joined, Proves
<1> QED
  BY <1>1, <1>2 DEF Inv, Init

(* The calls of the host keep the types, and take and give back the lock.   *)
LEMMA TypeCall ==
    ASSUME TypeOK, \A d \in Commands : TurnInv(d), NEW c \in Commands, Call(c)
    PROVE  TypeOK'
<1> USE BoundsAssumption DEF TypeOK, Holding, Steps, Phases
<1> USE DEF At, Go, Doing, Then, hostVars, turnVars, jobVars, fileVars, wireVars,
            guestVars, bootVars
<1>1. CASE Begin(c)  BY <1>1 DEF Begin, TurnInv
<1>2. CASE Prepare(c)  BY <1>2 DEF Prepare
<1>3. CASE Abandon(c)  BY <1>3 DEF Abandon
<1>4. CASE Record(c)  BY <1>4 DEF Record
<1>5. CASE Own(c)  BY <1>5 DEF Own
<1>6. CASE Admit(c)  BY <1>6 DEF Admit, Scan
<1>7. CASE Busy(c)  BY <1>7 DEF Busy, Unstarted, Scan, Receipt
<1>8. CASE Check(c)  BY <1>8 DEF Check, Unstarted, Receipt
<1>9. CASE Mark(c)  BY <1>9 DEF Mark
<1>10. CASE Start(c)  BY <1>10 DEF Start
<1>11. CASE Send(c)  BY <1>11 DEF Send
<1>12. CASE Cancel(c)  BY <1>12 DEF Cancel
<1>13. CASE Tell(c)  BY <1>13 DEF Tell
<1>14. CASE Answered(c)  BY <1>14 DEF Answered
<1>15. CASE Unanswered(c)  BY <1>15 DEF Unanswered, Receipt
<1>16. CASE Save(c)  BY <1>16 DEF Save, Receipt, Proves
<1>17. CASE Clear(c)  BY <1>17 DEF Clear
<1>18. CASE Ack(c)  BY <1>18 DEF Ack, Acknowledge
<1>19. CASE Keep(c)  BY <1>19 DEF Keep
<1>20. CASE Publish(c)  BY <1>20 DEF Publish
<1>21. CASE Published(c)  BY <1>21 DEF Published
<1>22. CASE Torn(c)  BY <1>22 DEF Torn
<1>23. CASE SettleTool(c)  BY <1>23 DEF SettleTool
<1>24. CASE Release(c)  BY <1>24 DEF Release
<1>25. CASE Settle(c)  BY <1>25 DEF Settle
<1>26. CASE HostDies(c)  BY <1>26 DEF HostDies
<1> QED
  BY <1>1, <1>2, <1>3, <1>4, <1>5, <1>6, <1>7, <1>8, <1>9, <1>10, <1>11,
     <1>12, <1>13, <1>14, <1>15, <1>16, <1>17, <1>18, <1>19, <1>20, <1>21,
     <1>22, <1>23, <1>24, <1>25, <1>26 DEF Call

(* So does the guest ...                                                   *)
LEMMA TypeGuest ==
    ASSUME TypeOK, NEW c \in Commands, Guest(c)
    PROVE  TypeOK'
<1> USE BoundsAssumption DEF TypeOK, Holding, Steps, Phases
<1> USE DEF At, Go, Doing, Then, hostVars, turnVars, jobVars, fileVars, wireVars,
            guestVars, bootVars
<1>1. CASE Receive(c)  BY <1>1 DEF Receive, Fails
<1>2. CASE Launch(c)  BY <1>2 DEF Launch
<1>3. CASE WireBreaks(c)  BY <1>3 DEF WireBreaks, Fails
<1>4. CASE Undelivered(c)  BY <1>4 DEF Undelivered, Fails
<1>5. CASE ReceiveDies(c)  BY <1>5 DEF ReceiveDies, Fails
<1>6. CASE RunPhase(c)  BY <1>6 DEF RunPhase
<1>7. CASE Drain(c)  BY <1>7 DEF Drain
<1>8. CASE Supervised(c)  BY <1>8 DEF Supervised, Joins
<1>9. CASE UnitDies(c)  BY <1>9 DEF UnitDies
<1>10. CASE Reply(c)  BY <1>10 DEF Reply, Fails
<1> QED
  BY <1>1, <1>2, <1>3, <1>4, <1>5, <1>6, <1>7, <1>8, <1>9, <1>10 DEF Guest

(* ... and what the owner does from other processes.                       *)
LEMMA TypeOwner ==
    ASSUME TypeOK, NEW c \in Commands, Owner(c)
    PROVE  TypeOK'
<1> USE BoundsAssumption DEF TypeOK, Holding, Steps, Phases
<1> USE DEF At, Go, Doing, Then, hostVars, turnVars, jobVars, fileVars, wireVars,
            guestVars, bootVars
<1>1. CASE Discard(c)  BY <1>1 DEF Discard
<1>2. CASE RecoverRecorded(c)  BY <1>2 DEF RecoverRecorded
<1>3. CASE RecoverStatus(c)  BY <1>3 DEF RecoverStatus
<1>4. CASE RecoverClear(c)  BY <1>4 DEF RecoverClear
<1>5. CASE RecoverAck(c)  BY <1>5 DEF RecoverAck, Acknowledge
<1>6. CASE Reconcile(c)  BY <1>6 DEF Reconcile
<1>7. CASE RecoverDies(c)  BY <1>7 DEF RecoverDies
<1>8. CASE RecoverRun(c)  BY <1>8 DEF RecoverRun
<1>9. CASE Prune(c)  BY <1>9 DEF Prune
<1> QED
  BY <1>1, <1>2, <1>3, <1>4, <1>5, <1>6, <1>7, <1>8, <1>9 DEF Owner

-----------------------------------------------------------------------------
(* The inductive invariant, step by step.                                  *)

(* A call of the host keeps it.  `Admit' needs the scan, `Start' the lock.  *)
LEMMA CallKeeps ==
    ASSUME Inv, NEW c \in Commands, Call(c)
    PROVE  \A d \in Commands : CommandInv(d)'
<1> SUFFICES ASSUME NEW d \in Commands PROVE CommandInv(d)'
  OBVIOUS
<1> USE BoundsAssumption DEF Inv, TypeOK, CommandInv, TurnInv, ReceiptInv, GuestInv,
            MarkInv, PinInv, EditsInv, JoinedReceipt, Proves, Unsent, Waiting, Joined
<1> USE DEF At, Go, Doing, Then, hostVars, turnVars, jobVars, fileVars, wireVars,
            guestVars, bootVars
<1>1. CASE Begin(c)  BY <1>1 DEF Begin
<1>2. CASE Prepare(c)  BY <1>2 DEF Prepare
<1>3. CASE Abandon(c)  BY <1>3 DEF Abandon
<1>4. CASE Record(c)  BY <1>4 DEF Record
<1>5. CASE Own(c)  BY <1>5 DEF Own
<1>6. CASE Admit(c)  BY <1>6 DEF Admit, Scan, Admitted, JobState, Holding
<1>7. CASE Busy(c)
  <2>1. TurnInv(d)' /\ ReceiptInv(d)' /\ GuestInv(d)' /\ PinInv(d)' /\ EditsInv(d)'
    BY <1>7 DEF Busy, Unstarted, Receipt
  <2>2. \A e \in marked \ marked' : e \in started => JoinedReceipt(e)
    BY <1>7 DEF Busy, Scan, JobState
  <2>3. MarkInv(d)'
    BY <1>7, <2>2 DEF Busy, Unstarted, Receipt, Holding
  <2> QED
    BY <2>1, <2>3
<1>8. CASE Check(c)  BY <1>8 DEF Check, Unstarted, Receipt
<1>9. CASE Mark(c)  BY <1>9 DEF Mark
<1>10. CASE Start(c)  BY <1>10 DEF Start, Holding
<1>11. CASE Send(c)  BY <1>11 DEF Send
<1>12. CASE Cancel(c)  BY <1>12 DEF Cancel
<1>13. CASE Tell(c)  BY <1>13 DEF Tell
<1>14. CASE Answered(c)  BY <1>14 DEF Answered
<1>15. CASE Unanswered(c)  BY <1>15 DEF Unanswered, Receipt
<1>16. CASE Save(c)  BY <1>16 DEF Save, Receipt, Proves
<1>17. CASE Clear(c)  BY <1>17 DEF Clear
<1>18. CASE Ack(c)  BY <1>18 DEF Ack, Acknowledge
<1>19. CASE Keep(c)  BY <1>19 DEF Keep
<1>20. CASE Publish(c)  BY <1>20 DEF Publish, Eligible
<1>21. CASE Published(c)  BY <1>21 DEF Published
<1>22. CASE Torn(c)  BY <1>22 DEF Torn
<1>23. CASE SettleTool(c)  BY <1>23 DEF SettleTool
<1>24. CASE Release(c)  BY <1>24 DEF Release
<1>25. CASE Settle(c)  BY <1>25 DEF Settle
<1>26. CASE HostDies(c)  BY <1>26 DEF HostDies
<1> QED
  BY <1>1, <1>2, <1>3, <1>4, <1>5, <1>6, <1>7, <1>8, <1>9, <1>10, <1>11,
     <1>12, <1>13, <1>14, <1>15, <1>16, <1>17, <1>18, <1>19, <1>20, <1>21,
     <1>22, <1>23, <1>24, <1>25, <1>26 DEF Call

(* The guest keeps it: it never works on a request a second time.          *)
LEMMA GuestKeeps ==
    ASSUME Inv, NEW c \in Commands, Guest(c)
    PROVE  \A d \in Commands : CommandInv(d)'
<1> SUFFICES ASSUME NEW d \in Commands PROVE CommandInv(d)'
  OBVIOUS
<1> USE BoundsAssumption DEF Inv, TypeOK, CommandInv, TurnInv, ReceiptInv, GuestInv,
            MarkInv, PinInv, EditsInv, JoinedReceipt, Proves, Unsent, Waiting, Joined
<1> USE DEF At, Go, Doing, Then, hostVars, turnVars, jobVars, fileVars, wireVars,
            guestVars, bootVars
<1>1. CASE Receive(c)  BY <1>1 DEF Receive, Fails, Refuses
<1>2. CASE Launch(c)  BY <1>2 DEF Launch
<1>3. CASE WireBreaks(c)  BY <1>3 DEF WireBreaks, Fails
<1>4. CASE Undelivered(c)  BY <1>4 DEF Undelivered, Fails
<1>5. CASE ReceiveDies(c)  BY <1>5 DEF ReceiveDies, Fails
<1>6. CASE RunPhase(c)  BY <1>6 DEF RunPhase
<1>7. CASE Drain(c)  BY <1>7 DEF Drain
<1>8. CASE Supervised(c)  BY <1>8 DEF Supervised, Joins
<1>9. CASE UnitDies(c)  BY <1>9 DEF UnitDies
<1>10. CASE Reply(c)  BY <1>10 DEF Reply, Fails
<1> QED
  BY <1>1, <1>2, <1>3, <1>4, <1>5, <1>6, <1>7, <1>8, <1>9, <1>10 DEF Guest

(* Recovery keeps it: it needs a dead owner, and its own proof.            *)
LEMMA OwnerKeeps ==
    ASSUME Inv, NEW c \in Commands, Owner(c)
    PROVE  \A d \in Commands : CommandInv(d)'
<1> SUFFICES ASSUME NEW d \in Commands PROVE CommandInv(d)'
  OBVIOUS
<1> USE BoundsAssumption DEF Inv, TypeOK, CommandInv, TurnInv, ReceiptInv, GuestInv,
            MarkInv, PinInv, EditsInv, JoinedReceipt, Proves, Unsent, Waiting, Joined
<1> USE DEF At, Go, Doing, Then, hostVars, turnVars, jobVars, fileVars, wireVars,
            guestVars, bootVars
<1>1. CASE Discard(c)  BY <1>1 DEF Discard, NoStart, Recoverable, OwnerGone
<1>2. CASE RecoverRecorded(c)  BY <1>2 DEF RecoverRecorded, Recoverable, OwnerGone
<1>3. CASE RecoverStatus(c)  BY <1>3 DEF RecoverStatus, Recoverable, OwnerGone
<1>4. CASE RecoverClear(c)  BY <1>4 DEF RecoverClear
<1>5. CASE RecoverAck(c)  BY <1>5 DEF RecoverAck, Acknowledge
<1>6. CASE Reconcile(c)  BY <1>6 DEF Reconcile, OwnerGone
<1>7. CASE RecoverDies(c)  BY <1>7 DEF RecoverDies
<1>8. CASE RecoverRun(c)  BY <1>8 DEF RecoverRun, OwnerGone
<1>9. CASE Prune(c)  BY <1>9 DEF Prune
<1> QED
  BY <1>1, <1>2, <1>3, <1>4, <1>5, <1>6, <1>7, <1>8, <1>9 DEF Owner

(* A restart of the guest stops what runs there and lets no request pass.  *)
(* The setup names its boot only while no command is out or on its way.    *)
LEMMA BootKeeps == ASSUME Inv, Reboot \/ Refresh PROVE Inv'
<1> USE BoundsAssumption DEF hostVars, turnVars, jobVars, fileVars, wireVars, guestVars
<1>1. TypeOK'
  BY DEF Inv, TypeOK, Reboot, Refresh
<1>2. ASSUME NEW d \in Commands PROVE CommandInv(d)'
  <2>1. TurnInv(d)' /\ ReceiptInv(d)' /\ MarkInv(d)' /\ EditsInv(d)'
    BY DEF Inv, CommandInv, TurnInv, ReceiptInv, MarkInv, EditsInv, JoinedReceipt,
           Reboot, Refresh
  <2>2. GuestInv(d)'
    BY DEF Inv, TypeOK, CommandInv, GuestInv, JoinedReceipt, Proves, Reboot, Refresh
  <2>3. PinInv(d)'
    <3>1. CASE Reboot
      BY <3>1 DEF Inv, CommandInv, PinInv, JoinedReceipt, Reboot
    <3>2. CASE Refresh
      <4>1. d \in started => JoinedReceipt(d)
        BY <3>2 DEF Refresh, Inv, CommandInv, MarkInv
      <4>2. host[d] \notin {"mark", "start"}
        BY <3>2 DEF Refresh, Inv, TypeOK, Holding
      <4>3. jobBoot[d] <= boot
        BY DEF Inv, TypeOK, CommandInv, PinInv
      <4> QED
        BY <3>2, <4>1, <4>2, <4>3 DEF PinInv, JoinedReceipt, Refresh
    <3> QED
      BY <3>1, <3>2
  <2> QED
    BY <2>1, <2>2, <2>3 DEF CommandInv
<1>3. (pinned <= boot)'
  BY DEF Inv, TypeOK, Reboot, Refresh
<1> QED
  BY <1>1, <1>2, <1>3 DEF Inv

(* Nothing but the restart and the refresh touches the boots.              *)
LEMMA BootsKept ==
    ASSUME NEW c \in Commands, Call(c) \/ Guest(c) \/ Owner(c)
    PROVE  UNCHANGED bootVars
<1>1. CASE Call(c)
  BY <1>1 DEF Call, Begin, Prepare, Abandon, Record, Own, Admit, Busy, Check, Mark,
     Start, Send, Cancel, Tell, Answered, Unanswered, Save, Clear, Ack, Keep, Publish,
     Published, Torn, SettleTool, Release, Settle, HostDies
<1>2. CASE Guest(c)
  BY <1>2 DEF Guest, Receive, Launch, WireBreaks, Undelivered, ReceiveDies, RunPhase,
     Drain, Supervised, UnitDies, Reply
<1>3. CASE Owner(c)
  BY <1>3 DEF Owner, Discard, RecoverRecorded, RecoverStatus, RecoverClear, RecoverAck,
     Reconcile, RecoverDies, RecoverRun, Prune
<1> QED
  BY <1>1, <1>2, <1>3

(* Every step keeps the invariant.                                         *)
LEMMA InvStep == Inv /\ [Next]_vars => Inv'
<1> SUFFICES ASSUME Inv, [Next]_vars PROVE Inv'
  OBVIOUS
<1>1. ASSUME NEW c \in Commands, Call(c) \/ Guest(c) \/ Owner(c) PROVE Inv'
  <2>1. TypeOK'
    BY <1>1, TypeCall, TypeGuest, TypeOwner DEF Inv, CommandInv
  <2>2. \A d \in Commands : CommandInv(d)'
    BY <1>1, CallKeeps, GuestKeeps, OwnerKeeps
  <2>3. (pinned <= boot)'
    BY <1>1, BootsKept DEF Inv, bootVars
  <2> QED
    BY <2>1, <2>2, <2>3 DEF Inv
<1>2. CASE UNCHANGED vars
  BY <1>2 DEF Inv, TypeOK, CommandInv, TurnInv, ReceiptInv, GuestInv, MarkInv, PinInv,
     EditsInv, JoinedReceipt, vars, hostVars, turnVars, jobVars, fileVars, wireVars, guestVars, bootVars
<1> QED
  BY <1>1, <1>2, BootKeeps DEF Next

-----------------------------------------------------------------------------
(* Safety.                                                                 *)

(* Every reachable state satisfies the inductive invariant.                *)
LEMMA InvHolds == Spec => []Inv
  BY InvInit, InvStep, PTL DEF Spec

(* For all commands and bounds: the variables have their types, and the    *)
(* admission lock is held by the process between its admission and the end *)
(* of execute_owned, whoever dies.                                         *)
THEOREM TypeCorrect == Spec => []TypeOK
<1>1. Inv => TypeOK
  BY DEF Inv
<1> QED
  BY <1>1, InvHolds, PTL

(* For all commands and bounds: a settled turn has told its worker the     *)
(* truth about its edits, and edits come from commands that exited well.   *)
THEOREM EditsAreAccounted == Spec => []EditsAccounted
<1>1. Inv => EditsAccounted
  BY DEF Inv, CommandInv, TurnInv, EditsInv, EditsAccounted
<1> QED
  BY <1>1, InvHolds, PTL

(* For all commands and bounds: while the end of a command is unknown, the *)
(* manifest names the boot of the guest it was sent to.                    *)
THEOREM OutStaysPinned == Spec => []OutIsPinned
<1>1. Inv => OutIsPinned
  BY DEF Inv, CommandInv, PinInv, OutIsPinned
<1> QED
  BY <1>1, InvHolds, PTL

-----------------------------------------------------------------------------
(* The calls implement GuestJobs.                                          *)

(* A command that has not started, or whose result proves that it is over, *)
(* neither runs in the guest nor can still start there.                    *)
LEMMA OverIsQuiet ==
    ASSUME Inv, NEW c \in Commands, c \notin started \/ Proves(result[c])
    PROVE  c \notin Live
<1>1. c \notin flying /\ unit[c] \in {"none", "done"} /\ c \notin alive
  BY DEF Inv, TypeOK, CommandInv, GuestInv, Proves
<1> QED
  BY <1>1 DEF Live

(* The mapped command of every turn stays where it is.                     *)
StagesKept == \A d \in Commands : Stage(d)' = Stage(d)

(* Only the command of one turn moves.                                     *)
Moves(c, from, to) ==
    /\ Stage(c) \in from /\ Stage(c)' = to
    /\ \A d \in Commands \ {c} : Stage(d)' = Stage(d)

(* A step that moves no command and starts nothing ends something, if it   *)
(* does anything that the abstract specification sees.                     *)
LEMMA Rests ==
    ASSUME StagesKept, Live' \subseteq Live
    PROVE  Custody!Next
<1>1. [c \in Commands |-> Stage(c)]' = [c \in Commands |-> Stage(c)]
  BY DEF StagesKept
<1> QED
  BY <1>1 DEF Custody!Next, Custody!End

(* What one turn does to its command is a move of the abstract one.        *)
LEMMA MovesAbstract ==
    ASSUME NEW c \in Commands, NEW from, NEW to, Moves(c, from, to)
    PROVE  Custody!Move(c, from, to)
  BY DEF Moves, Custody!Move

(* Most calls of the host are nothing to the owner of the account: what    *)
(* they write is before the start, after the join, or proves nothing.      *)
LEMMA CallRests ==
    ASSUME Inv, NEW c \in Commands,
           Begin(c) \/ Prepare(c) \/ Abandon(c) \/ Own(c) \/ Admit(c) \/
           Busy(c) \/ Check(c) \/ Mark(c) \/ Cancel(c) \/ Tell(c) \/
           Answered(c) \/ Unanswered(c) \/ Clear(c) \/ Ack(c) \/ Keep(c) \/
           Publish(c) \/ Published(c) \/ Torn(c) \/ SettleTool(c) \/ Settle(c)
           \/ HostDies(c)
    PROVE  StagesKept /\ Live' \subseteq Live
<1> USE DEF StagesKept, Stage, Live, JoinedReceipt
<1> USE DEF At, Go, Doing, Then, hostVars, turnVars, jobVars, fileVars, wireVars,
            guestVars, bootVars
<1>1. CASE Begin(c)  BY <1>1 DEF Begin
<1>2. CASE Prepare(c)  BY <1>2 DEF Prepare, Inv, CommandInv, GuestInv, Unsent
<1>3. CASE Abandon(c)  BY <1>3 DEF Abandon
<1>4. CASE Own(c)  BY <1>4 DEF Own
<1>5. CASE Admit(c)  BY <1>5 DEF Admit, Scan
<1>6. CASE Busy(c)  BY <1>6 DEF Busy, Unstarted, Scan, Receipt
<1>7. CASE Check(c)  BY <1>7 DEF Check, Unstarted, Receipt, Inv, TypeOK
<1>8. CASE Mark(c)  BY <1>8 DEF Mark
<1>9. CASE Cancel(c)  BY <1>9 DEF Cancel
<1>10. CASE Tell(c)  BY <1>10 DEF Tell
<1>11. CASE Answered(c)  BY <1>11 DEF Answered
<1>12. CASE Unanswered(c)  BY <1>12 DEF Unanswered, Receipt, Inv, CommandInv, ReceiptInv, Waiting
<1>13. CASE Clear(c)  BY <1>13 DEF Clear
<1>14. CASE Ack(c)  BY <1>14 DEF Ack, Acknowledge
<1>15. CASE Keep(c)  BY <1>15 DEF Keep
<1>16. CASE Publish(c)  BY <1>16 DEF Publish
<1>17. CASE Published(c)  BY <1>17 DEF Published
<1>18. CASE Torn(c)  BY <1>18 DEF Torn
<1>19. CASE SettleTool(c)  BY <1>19 DEF SettleTool
<1>20. CASE Settle(c)  BY <1>20 DEF Settle
<1>21. CASE HostDies(c)  BY <1>21 DEF HostDies
<1> QED
  BY <1>1, <1>2, <1>3, <1>4, <1>5, <1>6, <1>7, <1>8, <1>9, <1>10, <1>11,
     <1>12, <1>13, <1>14, <1>15, <1>16, <1>17, <1>18, <1>19, <1>20, <1>21

(* Nothing in the guest starts that was not out already.                   *)
LEMMA GuestRests ==
    ASSUME Inv, NEW c \in Commands,
           Receive(c) \/ Launch(c) \/ WireBreaks(c) \/ Undelivered(c) \/
           ReceiveDies(c) \/ RunPhase(c) \/ Drain(c) \/ Supervised(c) \/
           UnitDies(c) \/ Reply(c)
    PROVE  StagesKept /\ Live' \subseteq Live
<1> USE DEF StagesKept, Stage, Live, JoinedReceipt
<1> USE DEF At, Go, Doing, Then, hostVars, turnVars, jobVars, fileVars, wireVars,
            guestVars, bootVars
<1>1. CASE Receive(c)  BY <1>1 DEF Receive, Fails, Refuses, Inv, TypeOK
<1>2. CASE Launch(c)  BY <1>2 DEF Launch
<1>3. CASE WireBreaks(c)  BY <1>3 DEF WireBreaks, Fails
<1>4. CASE Undelivered(c)  BY <1>4 DEF Undelivered, Fails
<1>5. CASE ReceiveDies(c)  BY <1>5 DEF ReceiveDies, Fails
<1>6. CASE RunPhase(c)  BY <1>6 DEF RunPhase, Inv, TypeOK
<1>7. CASE Drain(c)  BY <1>7 DEF Drain
<1>8. CASE Supervised(c)  BY <1>8 DEF Supervised, Joins
<1>9. CASE UnitDies(c)  BY <1>9 DEF UnitDies, Inv, TypeOK
<1>10. CASE Reply(c)  BY <1>10 DEF Reply, Fails, Inv, TypeOK
<1> QED
  BY <1>1, <1>2, <1>3, <1>4, <1>5, <1>6, <1>7, <1>8, <1>9, <1>10

(* Most of the recovery is nothing to the owner of the account either.     *)
LEMMA OwnerRests ==
    ASSUME Inv, NEW c \in Commands,
           Discard(c) \/ RecoverRecorded(c) \/ RecoverClear(c) \/
           RecoverAck(c) \/ RecoverDies(c) \/ RecoverRun(c) \/ Prune(c)
    PROVE  StagesKept /\ Live' \subseteq Live
<1> USE DEF StagesKept, Stage, Live, JoinedReceipt
<1> USE DEF At, Go, Doing, Then, hostVars, turnVars, jobVars, fileVars, wireVars,
            guestVars, bootVars
<1>1. CASE Discard(c)  BY <1>1 DEF Discard
<1>2. CASE RecoverRecorded(c)  BY <1>2 DEF RecoverRecorded
<1>3. CASE RecoverClear(c)  BY <1>3 DEF RecoverClear
<1>4. CASE RecoverAck(c)  BY <1>4 DEF RecoverAck, Acknowledge
<1>5. CASE RecoverDies(c)  BY <1>5 DEF RecoverDies
<1>6. CASE RecoverRun(c)  BY <1>6 DEF RecoverRun
<1>7. CASE Prune(c)  BY <1>7 DEF Prune
<1> QED
  BY <1>1, <1>2, <1>3, <1>4, <1>5, <1>6, <1>7

(* A host that records its custody begins to hold.                         *)
LEMMA RecordHolds == ASSUME Inv, NEW c \in Commands, Record(c) PROVE Custody!Hold(c)
<1> USE DEF At, Go, hostVars, turnVars, jobVars, fileVars, wireVars, guestVars, bootVars
<1>1. Moves(c, {"idle"}, "held")
  BY DEF Record, Moves, Stage, JoinedReceipt, Inv, TypeOK, CommandInv, TurnInv,
         ReceiptInv, Unsent
<1>2. UNCHANGED Live
  BY DEF Record, Live
<1> QED
  BY <1>1, <1>2, MovesAbstract DEF Custody!Hold

(* A start record is written only while no other command is out: the host  *)
(* holds the lock since it found every marked command joined or unstarted. *)
LEMMA StartSubmits == ASSUME Inv, NEW c \in Commands, Start(c) PROVE Custody!Submit(c)
<1> USE DEF At, Go, hostVars, turnVars, jobVars, fileVars, wireVars, guestVars, bootVars
<1>1. Moves(c, {"held"}, "out")
  BY DEF Start, Moves, Stage, JoinedReceipt, Inv, TypeOK, CommandInv, TurnInv,
         ReceiptInv, Unsent
<1>2. \A d \in Commands : Stage(d) # "out"
  BY DEF Start, Stage, Inv, CommandInv, MarkInv
<1>3. UNCHANGED Live
  BY DEF Start, Live
<1> QED
  BY <1>1, <1>2, <1>3, MovesAbstract DEF Custody!Submit

(* A request that is sent may start the command, unless the guest has      *)
(* restarted since: then it will be refused.                               *)
LEMMA SendStarts == ASSUME Inv, NEW c \in Commands, Send(c) PROVE Custody!Next
<1> USE DEF At, Go, hostVars, turnVars, jobVars, fileVars, wireVars, guestVars, bootVars
<1>1. StagesKept
  BY DEF Send, StagesKept, Stage, JoinedReceipt
<1>2. Live' = Live \/ Live' = Live \cup {c}
  <2>1. CASE jobBoot[c] = boot
    BY <2>1 DEF Send, Live
  <2>2. CASE jobBoot[c] # boot
    BY <2>2 DEF Send, Live
  <2> QED
    BY <2>1, <2>2
<1>3. Stage(c) = "out"
  BY DEF Send, Stage, JoinedReceipt, Inv, CommandInv, TurnInv, ReceiptInv, Waiting
<1>4. CASE Live' = Live \cup {c}
  <2>1. [d \in Commands |-> Stage(d)]' = [d \in Commands |-> Stage(d)]
    BY <1>1 DEF StagesKept
  <2>2. Custody!Start(c)
    BY <1>3, <1>4, <2>1 DEF Custody!Start
  <2> QED
    BY <2>2 DEF Custody!Next
<1> QED
  BY <1>1, <1>2, <1>4, Rests

(* A receipt that proves nothing leaves the command out.  One that proves  *)
(* the join is of a result that nothing of the command outlives.           *)
LEMMA SaveStops == ASSUME Inv, NEW c \in Commands, Save(c) PROVE Custody!Next
<1> USE DEF At, Go, hostVars, turnVars, jobVars, fileVars, wireVars, guestVars, bootVars
<1>1. UNCHANGED Live
  BY DEF Save, Receipt, Live
<1>2. CASE Proves(result[c])
  <2>1. Moves(c, {"out"}, "stopped")
    BY <1>2 DEF Save, Receipt, Moves, Stage, JoinedReceipt, Inv, TypeOK, CommandInv, TurnInv,
           ReceiptInv, Waiting
  <2> QED
    BY <1>1, <1>2, <2>1, MovesAbstract, OverIsQuiet DEF Custody!Stop, Custody!Next
<1>3. CASE ~Proves(result[c])
  <2>1. StagesKept
    BY <1>3 DEF Save, Receipt, StagesKept, Stage, JoinedReceipt, Inv, TypeOK, CommandInv, ReceiptInv,
           Waiting
  <2> QED
    BY <1>1, <2>1, Rests
<1> QED
  BY <1>2, <1>3

(* Recovery from the guest's own result stops the command if the result    *)
(* proves that it is over.                                                 *)
LEMMA StatusStops == ASSUME Inv, NEW c \in Commands, RecoverStatus(c) PROVE Custody!Next
<1> USE DEF Doing, Then, hostVars, turnVars, jobVars, fileVars, wireVars, guestVars, bootVars
<1>1. UNCHANGED Live
  BY DEF RecoverStatus, Live
<1>2. CASE Proves(result[c])
  <2>1. Moves(c, {"out"}, "stopped")
    BY <1>2 DEF RecoverStatus, Recoverable, Moves, Stage, JoinedReceipt
  <2> QED
    BY <1>1, <1>2, <2>1, MovesAbstract, OverIsQuiet DEF Custody!Stop, Custody!Next
<1>3. CASE ~Proves(result[c])
  <2>1. StagesKept
    BY <1>3 DEF RecoverStatus, StagesKept, Stage, JoinedReceipt
  <2> QED
    BY <1>1, <2>1, Rests
<1> QED
  BY <1>2, <1>3

(* The host and the owner let go of a command that was never started or    *)
(* that a receipt says has joined.                                         *)
LEMMA ReleaseFrees ==
    ASSUME Inv, NEW c \in Commands, Release(c) \/ Reconcile(c)
    PROVE  Custody!Release(c)
<1> USE DEF At, Go, Doing, Then, hostVars, turnVars, jobVars, fileVars, wireVars,
            guestVars, bootVars
<1>1. c \notin started \/ JoinedReceipt(c)
  BY DEF Release, Reconcile, Inv, CommandInv, ReceiptInv, Joined
<1>2. c \notin Live
  BY <1>1, OverIsQuiet DEF Inv, CommandInv, GuestInv
<1>3. Moves(c, {"held", "stopped"}, "free")
  BY <1>1 DEF Release, Reconcile, Moves, Stage, JoinedReceipt, Inv, TypeOK
<1>4. UNCHANGED Live
  BY DEF Release, Reconcile, Live
<1> QED
  BY <1>2, <1>3, <1>4, MovesAbstract DEF Custody!Release

(* A restart of the guest ends what runs there, and a request of an        *)
(* earlier boot can start nothing any more.                                *)
LEMMA BootRests == ASSUME Inv, Reboot \/ Refresh PROVE Custody!Next
<1> USE DEF hostVars, turnVars, jobVars, fileVars, wireVars, guestVars
<1>1. StagesKept
  BY DEF Reboot, Refresh, StagesKept, Stage, JoinedReceipt
<1>2. CASE Reboot
  <2>1. \A d \in Commands : jobBoot[d] <= boot
    BY DEF Inv, TypeOK, CommandInv, PinInv
  <2>2. Live' = {}
    BY <1>2, <2>1 DEF Reboot, Live, Inv, TypeOK, CommandInv, GuestInv
  <2> QED
    BY <1>1, <2>2, Rests
<1>3. CASE Refresh
  <2>1. UNCHANGED Live
    BY <1>3 DEF Refresh, Live
  <2> QED
    BY <1>1, <2>1, Rests
<1> QED
  BY <1>2, <1>3

(* Every step is a step of GuestJobs, or nothing to it.                    *)
LEMMA StepImplements ==
    ASSUME Inv, [Next]_vars
    PROVE  [Custody!Next]_(<<[c \in Commands |-> Stage(c)], Live>>)
<1>1. ASSUME NEW c \in Commands, Call(c) PROVE Custody!Next
  <2>1. CASE Record(c) \/ Start(c) \/ Release(c)
    BY <2>1, RecordHolds, StartSubmits, ReleaseFrees DEF Custody!Next
  <2> QED
    BY <1>1, <2>1, CallRests, Rests, SendStarts, SaveStops DEF Call
<1>2. ASSUME NEW c \in Commands, Guest(c) PROVE Custody!Next
  BY <1>2, GuestRests, Rests DEF Guest
<1>3. ASSUME NEW c \in Commands, Owner(c) PROVE Custody!Next
  <2>1. CASE Reconcile(c)
    BY <2>1, ReleaseFrees DEF Custody!Next
  <2> QED
    BY <1>3, <2>1, OwnerRests, Rests, StatusStops DEF Owner
<1>4. CASE UNCHANGED vars
  <2>1. StagesKept /\ UNCHANGED Live
    BY <1>4 DEF vars, hostVars, turnVars, jobVars, fileVars, wireVars, guestVars, bootVars,
       StagesKept, Stage, JoinedReceipt, Live
  <2> QED
    BY <2>1, Rests
<1> QED
  BY <1>1, <1>2, <1>3, <1>4, BootRests DEF Next

(* The first state is the abstract one: no turn holds anything.            *)
LEMMA InitImplements == Init => Custody!Init
<1> SUFFICES ASSUME Init PROVE Custody!Init
  OBVIOUS
<1>1. \A c \in Commands : Stage(c) = "idle"
  BY DEF Init, Stage
<1>2. Live = {}
  BY DEF Init, Live
<1> QED
  BY <1>1, <1>2 DEF Custody!Init

(* For all commands and bounds: CommandJobs implements GuestJobs.  A turn  *)
(* lets go of its command only when nothing of it can run any more, and    *)
(* one command at a time is out, whoever dies or restarts.                 *)
THEOREM ImplementsCustody == Spec => JobSpec
<1>1. Inv /\ [Next]_vars => [Custody!Next]_(<<[c \in Commands |-> Stage(c)], Live>>)
  BY StepImplements
<1> QED
  BY <1>1, InitImplements, InvHolds, PTL DEF Spec, JobSpec, Custody!Spec
=============================================================================
