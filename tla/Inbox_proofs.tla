---------------------------- MODULE Inbox_proofs ----------------------------
(***************************************************************************)
(* The inbox, for every set of tasks and events and every limit: pending   *)
(* events follow their task, a batch belongs to one turn, an event is      *)
(* staged once, a settlement drops no guidance that it did not see, and    *)
(* together they are the mailbox that senders were promised.               *)
(***************************************************************************)
EXTENDS Inbox, FiniteSetTheorems, SequenceTheorems, TLAPS

(* What the supervisor may be in the middle of.                            *)
Op == [kind : {"none", "launch", "finish"}, t : Tasks \cup {None},
       events : SUBSET Ids, state : TaskState \cup {"none"},
       delivered : BOOLEAN, unstarted : BOOLEAN]

(* Every accepted event has a number of its own, and none is above their   *)
(* count.                                                                  *)
NumberInv ==
    /\ IsFiniteSet(Known)
    /\ \A i \in Known : ev[i].seq <= Cardinality(Known)
    /\ \A i, j \in Known : ev[i].seq = ev[j].seq => i = j

(* An event is known from its acceptance on; only a report waits, for a    *)
(* source that is open; what is prepared is in a batch, and what waits for *)
(* a turn was never submitted.                                             *)
EventOf(i) ==
    /\ status[i] = "none" <=> ev[i] = NoEvent
    /\ ev[i] # NoEvent => ev[i].source # ev[i].task
    /\ status[i] = "waiting" => /\ ev[i].kind = "completion" /\ ev[i].source \in Tasks
                                /\ state[ev[i].source] \notin Closed
    /\ status[i] = "prepared" => i \in batch[ev[i].task]
    /\ Place(i) \in {"none", "pending"} => i \notin sent

(* A batch is of its task and of its turn, in front of what still waits.   *)
BatchOf(t) ==
    /\ batch[t] # {} => /\ state[t] \in {"Running", "Uncertain", "Cancelled"}
                        /\ state[t] = "Cancelled" => record[t].class = "cancelled"
    /\ \A i \in batch[t] : /\ ev[i].task = t
                           /\ status[i] = IF state[t] = "Running" THEN "prepared" ELSE "held"
    /\ \A i \in Pending(t) : status[i] = GradeOf(t)
    /\ \A i \in batch[t], j \in Pending(t) :
           ev[j].kind = "completion" \/ ev[i].seq < ev[j].seq

(* How far the turn got with the prompt, as its traces tell.               *)
TurnOf(t) ==
    /\ worker[t] # "off" => state[t] = "Running"
    /\ worker[t] \in {"appended", "open", "sending", "sent"} => appended[t]
    /\ worker[t] \notin {"off", "ended"} => record[t] = NoReceipt
    /\ (worker[t] \in {"ready", "appended", "open"} \/ ~appended[t] \/ record[t].sub = "no")
           => batch[t] \cap sent = {}
    /\ (worker[t] = "sent" \/ record[t].sub = "yes") => batch[t] \subseteq sent
    /\ batch[t] \subseteq sent \/ batch[t] \cap sent = {}

(* The inputs of a task hold what went into its turns, the batch last, and *)
(* no event twice.                                                         *)
StageOf(t) ==
    /\ batch[t] # {} => /\ inputs[t] # <<>>
                        /\ inputs[t][Len(inputs[t])] = batch[t]
    /\ \A n \in DOMAIN inputs[t] : \A i \in inputs[t][n] :
           /\ ev[i].task = t /\ status[i] # "waiting" /\ i \notin Pending(t)
           /\ \A m \in DOMAIN inputs[t] : i \in inputs[t][m] => m = n

(* What the supervisor read still holds unless it has been told otherwise. *)
OpInv ==
    /\ op \in Op /\ stale \in BOOLEAN /\ stamped \in BOOLEAN
    /\ op.kind = "none" => op = Idle /\ ~stale /\ ~stamped
    /\ op.kind # "none" => op.t \in Tasks
    /\ op.kind = "launch" => Cardinality(op.events) <= MaxBatch
    /\ op.kind = "launch" /\ ~stale =>
           /\ state[op.t] = "Queued" /\ ~cancel[op.t] /\ ~deferred[op.t]
           /\ op.events \subseteq Pending(op.t)
           /\ \A i \in op.events, j \in Pending(op.t) \ op.events :
                  ev[j].kind = "completion" \/ ev[i].seq < ev[j].seq
    /\ op.kind = "finish" =>
           /\ state[op.t] = "Running" /\ worker[op.t] \in {"off", "ended"}
           /\ op.state \in TaskState
           /\ op.delivered => appended[op.t] /\ record[op.t].sub = "yes"
           /\ op.unstarted => ~appended[op.t] \/ record[op.t].sub = "no"
           /\ \/ op.delivered \/ op.unstarted \/ batch[op.t] = {} \/ op.state = "Uncertain"
              \/ op.state = "Cancelled" /\ record[op.t].class = "cancelled"
           /\ (op.state = "Completed" /\ ~stale /\ ~stamped /\ ~cancel[op.t])
                  => Pending(op.t) = {}

EventInv == \A i \in Ids : EventOf(i)
BatchInv == \A t \in Tasks : BatchOf(t)
TurnInv == \A t \in Tasks : TurnOf(t)
StageInv == \A t \in Tasks : StageOf(t)

Inv == TypeOK /\ NumberInv /\ EventInv /\ BatchInv /\ TurnInv /\ StageInv /\ OpInv

-----------------------------------------------------------------------------
(* A pending event gets one of three grades.                               *)
LEMMA GradeType ==
    ASSUME NEW st, NEW canc, NEW def
    PROVE  Grade(st, canc, def) \in {"queued", "held", "closed"}
BY DEF Grade

(* What an insertion does: one event more, with the highest number.        *)
LEMMA InsertEffect ==
    ASSUME TypeOK, NumberInv,
           NEW i \in Ids, NEW t \in Tasks, NEW kind \in Kind,
           NEW source \in Tasks \cup {None}, NEW mark \in Status,
           Insert(i, t, kind, source, mark)
    PROVE  /\ ev[i] = NoEvent /\ ev'[i] # NoEvent /\ status'[i] = mark
           /\ ev'[i].task = t /\ ev'[i].kind = kind /\ ev'[i].source = source
           /\ \A j \in Ids : j # i => ev'[j] = ev[j] /\ status'[j] = status[j]
           /\ \A j \in Ids : ev[j] # NoEvent => ev[j].seq < ev'[i].seq
           /\ ev' \in [Ids -> Event \cup {NoEvent}]
           /\ status' \in [Ids -> Status \cup {"none"}]
           /\ NumberInv'
<1>1. Cardinality(Known) \in Nat
  BY FS_CardinalityType DEF NumberInv
<1>2. /\ ev[i] = NoEvent /\ status'[i] = mark
      /\ ev'[i] = [task |-> t, kind |-> kind, source |-> source,
                   seq |-> 1 + Cardinality(Known)]
      /\ \A j \in Ids : j # i => ev'[j] = ev[j] /\ status'[j] = status[j]
      /\ status' \in [Ids -> Status \cup {"none"}]
  BY DEF TypeOK, Insert, Known
<1>3. ev'[i] \in Event /\ ev'[i] # NoEvent
  <2>1. ev'[i] \in Event  BY <1>1, <1>2 DEF Event
  <2>2. ev'[i].kind = kind  BY <1>2
  <2> QED  BY <2>1, <2>2 DEF Kind, NoEvent
<1>4. ev' \in [Ids -> Event \cup {NoEvent}]
  BY <1>2, <1>3 DEF TypeOK, Insert
<1>5. /\ ev'[i].task = t /\ ev'[i].kind = kind /\ ev'[i].source = source
      /\ ev'[i].seq = 1 + Cardinality(Known)
  BY <1>2
<1>6. \A j \in Ids : ev[j] # NoEvent => ev[j].seq \in Nat /\ ev[j].seq < ev'[i].seq
  <2> SUFFICES ASSUME NEW j \in Ids, ev[j] # NoEvent
               PROVE  ev[j].seq \in Nat /\ ev[j].seq < ev'[i].seq
    OBVIOUS
  <2>1. ev[j] \in Event  BY DEF TypeOK
  <2>2. ev[j].seq \in Nat  BY <2>1 DEF Event
  <2>3. ev[j].seq <= Cardinality(Known)  BY DEF NumberInv, Known
  <2> QED  BY <2>2, <2>3, <1>1, <1>5
<1>7. Known' = Known \cup {i}
  BY <1>2, <1>3 DEF Known
<1>8. IsFiniteSet(Known') /\ Cardinality(Known') = 1 + Cardinality(Known)
  <2>1. i \notin Known /\ IsFiniteSet(Known)  BY <1>2 DEF Known, NumberInv
  <2>2. /\ IsFiniteSet(Known \cup {i})
        /\ Cardinality(Known \cup {i}) = Cardinality(Known) + 1
    BY <2>1, FS_AddElement
  <2> QED  BY <1>1, <1>7, <2>2
<1>9. NumberInv'
  <2>0. \A j \in Known : j \in Ids /\ j # i /\ ev[j] # NoEvent /\ ev'[j] = ev[j]
    BY <1>2 DEF Known
  <2>1. \A j \in Known' : ev'[j].seq <= Cardinality(Known')
    BY <1>1, <1>5, <1>6, <1>7, <1>8, <2>0 DEF NumberInv
  <2>2. \A j, k \in Known' : ev'[j].seq = ev'[k].seq => j = k
    BY <1>1, <1>5, <1>6, <1>7, <2>0 DEF NumberInv
  <2> QED  BY <1>8, <2>1, <2>2 DEF NumberInv
<1> QED  BY <1>2, <1>3, <1>4, <1>5, <1>6, <1>9

(* What a transition does to the rows and to every event, with what the    *)
(* functions of tasks and events are spelled out.                          *)
Moved(t, st, canc, def, b, e) ==
    /\ state' \in [Tasks -> TaskState] /\ cancel' \in [Tasks -> BOOLEAN]
    /\ deferred' \in [Tasks -> BOOLEAN] /\ batch' \in [Tasks -> SUBSET Ids]
    /\ state'[t] = st /\ cancel'[t] = canc /\ deferred'[t] = def /\ batch'[t] = b
    /\ \A u \in Tasks : u # t => /\ state'[u] = state[u] /\ cancel'[u] = cancel[u]
                                 /\ deferred'[u] = deferred[u] /\ batch'[u] = batch[u]
    /\ ev' = ev
    /\ status' \in [Ids -> Status \cup {"none"}]
    /\ \A i \in Ids :
           LET n == IF /\ st \in Closed /\ ev[i].kind = "completion"
                       /\ ev[i].source = t /\ e[i] = "waiting"
                    THEN GradeOf(ev[i].task) ELSE e[i]
           IN status'[i] = IF ev[i].task = t /\ n \in {"queued", "held"} /\ i \notin b
                           THEN Grade(st, canc, def) ELSE n

(* The transition of a row (transition_task) does just that, whatever it   *)
(* settles of the batch.                                                   *)
LEMMA TransitionEffect ==
    ASSUME TypeOK,
           NEW t \in Tasks, NEW st \in TaskState, NEW canc \in BOOLEAN,
           NEW def \in BOOLEAN, NEW b \in SUBSET Ids,
           NEW e \in [Ids -> Status \cup {"none"}],
           Transition(t, st, canc, def, b, e)
    PROVE  Moved(t, st, canc, def, b, e)
<1>1. \A u : GradeOf(u) \in {"queued", "held", "closed"}
  BY GradeType DEF GradeOf
<1>2. Grade(st, canc, def) \in {"queued", "held", "closed"}
  BY GradeType
<1> DEFINE r == Reported(e, t, st)
<1>3. \A i \in Ids : r[i] = IF /\ st \in Closed /\ ev[i].kind = "completion"
                               /\ ev[i].source = t /\ e[i] = "waiting"
                            THEN GradeOf(ev[i].task) ELSE e[i]
  BY DEF Reported
<1>4. r \in [Ids -> Status \cup {"none"}]
  BY <1>1, SMT DEF Reported, Status
<1> HIDE DEF r
<1>5. status' = [i \in Ids |-> IF ev[i].task = t /\ r[i] \in {"queued", "held"} /\ i \notin b
                               THEN Grade(st, canc, def) ELSE r[i]]
  BY DEF Transition, Regraded, Mark, Waiting, Inserted, r
<1>6. status' \in [Ids -> Status \cup {"none"}]
  BY <1>2, <1>4, <1>5, SMT DEF Status
<1>7. \A i \in Ids : LET n == IF /\ st \in Closed /\ ev[i].kind = "completion"
                                 /\ ev[i].source = t /\ e[i] = "waiting"
                              THEN GradeOf(ev[i].task) ELSE e[i]
          IN status'[i] = IF ev[i].task = t /\ n \in {"queued", "held"} /\ i \notin b
                          THEN Grade(st, canc, def) ELSE n
  BY <1>3, <1>5
<1> QED  BY <1>6, <1>7 DEF Moved, Transition, TypeOK

(* What the marks of a settlement are.                                     *)
LEMMA MarkType ==
    ASSUME TypeOK, NEW S \in SUBSET Ids, NEW mark \in Status
    PROVE  /\ Mark(status, S, mark) \in [Ids -> Status \cup {"none"}]
           /\ \A i \in Ids : Mark(status, S, mark)[i] = IF i \in S THEN mark ELSE status[i]
BY DEF Mark, TypeOK

(* The inputs of a task grow by one element or lose their last one.        *)
LEMMA InputsAppend ==
    ASSUME NEW S, NEW s \in Seq(S), NEW x \in S
    PROVE  /\ Append(s, x) \in Seq(S) /\ Append(s, x) # <<>>
           /\ Len(Append(s, x)) = Len(s) + 1
           /\ DOMAIN s = 1 .. Len(s) /\ Len(s) \in Nat
           /\ DOMAIN Append(s, x) = 1 .. (Len(s) + 1)
           /\ \A n \in DOMAIN s : Append(s, x)[n] = s[n]
           /\ Append(s, x)[Len(s) + 1] = x
<1>1. /\ Append(s, x) \in Seq(S) /\ Len(Append(s, x)) = Len(s) + 1
      /\ \A n \in 1 .. Len(s) : Append(s, x)[n] = s[n]
      /\ Append(s, x)[Len(s) + 1] = x
  BY AppendProperties
<1>2. /\ DOMAIN s = 1 .. Len(s) /\ Len(s) \in Nat
      /\ DOMAIN Append(s, x) = 1 .. Len(Append(s, x))
  BY <1>1, LenProperties
<1> QED  BY <1>1, <1>2, EmptySeq

(* Without the last element the rest of the inputs stays as it was.        *)
LEMMA InputsPop ==
    ASSUME NEW S, NEW s \in Seq(S), s # <<>>
    PROVE  LET p == SubSeq(s, 1, Len(s) - 1)
           IN /\ p \in Seq(S)
              /\ DOMAIN s = 1 .. Len(s) /\ Len(s) \in Nat \ {0}
              /\ DOMAIN p = 1 .. (Len(s) - 1)
              /\ \A n \in DOMAIN p : p[n] = s[n]
<1> DEFINE p == SubSeq(s, 1, Len(s) - 1)
<1>1. DOMAIN s = 1 .. Len(s) /\ Len(s) \in Nat \ {0}
  BY LenProperties, EmptySeq
<1>2. \A n \in 1 .. Len(s) - 1 : s[n] \in S
  BY <1>1, ElementOfSeq
<1>3. /\ p \in Seq(S)
      /\ Len(p) = IF 1 <= Len(s) - 1 THEN (Len(s) - 1) - 1 + 1 ELSE 0
      /\ \A n \in 1 .. (Len(s) - 1) - 1 + 1 : p[n] = s[1 + n - 1]
  <2>1. 1 \in Int /\ Len(s) - 1 \in Int  BY <1>1
  <2> HIDE DEF p
  <2> QED  BY <1>2, <2>1, SubSeqProperties DEF p
<1> HIDE DEF p
<1>4. DOMAIN p = 1 .. Len(p)
  BY <1>3, LenProperties
<1>5. PICK l \in Nat \ {0} : l = Len(s)
  BY <1>1
<1>6. Len(p) = l - 1
  <2>1. Len(p) = IF 1 <= l - 1 THEN (l - 1) - 1 + 1 ELSE 0  BY <1>3, <1>5
  <2> QED  BY <2>1
<1>7. \A n \in 1 .. l - 1 : p[n] = s[n]
  <2> SUFFICES ASSUME NEW n \in 1 .. l - 1 PROVE p[n] = s[n]
    OBVIOUS
  <2>1. n \in 1 .. (l - 1) - 1 + 1 /\ 1 + n - 1 = n
    OBVIOUS
  <2>2. p[n] = s[1 + n - 1]  BY <1>3, <1>5, <2>1
  <2> QED  BY <2>1, <2>2
<1>8. DOMAIN p = 1 .. (Len(s) - 1)
  BY <1>4, <1>5, <1>6
<1>9. \A n \in DOMAIN p : p[n] = s[n]
  BY <1>5, <1>7, <1>8
<1> QED  BY <1>1, <1>3, <1>8, <1>9 DEF p

(* What is popped from the inputs of a task is its batch, at their end.    *)
LEMMA PoppedEffect ==
    ASSUME TypeOK, NEW t \in Tasks, NEW delivered, NEW unstarted
    PROVE  LET p == Popped(t, delivered, unstarted)
           IN /\ p \in Seq(SUBSET Ids)
              /\ DOMAIN inputs[t] = 1 .. Len(inputs[t]) /\ Len(inputs[t]) \in Nat
              /\ DOMAIN p \subseteq DOMAIN inputs[t]
              /\ \A n \in DOMAIN p : p[n] = inputs[t][n]
              /\ (unstarted /\ ~delivered /\ batch[t] # {} /\ inputs[t] # <<>>
                  /\ inputs[t][Len(inputs[t])] = batch[t])
                     => DOMAIN p = 1 .. (Len(inputs[t]) - 1)
<1>1. inputs[t] \in Seq(SUBSET Ids)
  BY DEF TypeOK
<1>2. DOMAIN inputs[t] = 1 .. Len(inputs[t]) /\ Len(inputs[t]) \in Nat
  BY <1>1, LenProperties
<1>3. CASE unstarted /\ ~delivered /\ batch[t] # {} /\ inputs[t] # <<>>
           /\ inputs[t][Len(inputs[t])] = batch[t]
  <2> DEFINE q == SubSeq(inputs[t], 1, Len(inputs[t]) - 1)
  <2>1. Popped(t, delivered, unstarted) = q
    BY <1>3 DEF Popped
  <2>2. /\ q \in Seq(SUBSET Ids)
        /\ Len(inputs[t]) \in Nat \ {0}
        /\ DOMAIN q = 1 .. (Len(inputs[t]) - 1)
        /\ \A n \in DOMAIN q : q[n] = inputs[t][n]
    BY <1>1, <1>3, InputsPop
  <2> HIDE DEF q
  <2> QED  BY <1>2, <2>1, <2>2
<1>4. CASE ~(unstarted /\ ~delivered /\ batch[t] # {} /\ inputs[t] # <<>>
             /\ inputs[t][Len(inputs[t])] = batch[t])
  <2>1. Popped(t, delivered, unstarted) = inputs[t]
    BY <1>4 DEF Popped
  <2> QED  BY <1>1, <1>2, <1>4, <2>1
<1> QED  BY <1>3, <1>4

-----------------------------------------------------------------------------
(* The inductive invariant holds of an empty inbox.                        *)
LEMMA InitInv == Init => Inv
<1> SUFFICES ASSUME Init PROVE Inv
  OBVIOUS
<1> USE DEF Init
<1>1. TypeOK
  <2>1. <<>> \in Seq(SUBSET Ids)  BY EmptySeq
  <2>2. Cardinality({}) = 0  BY FS_EmptySet
  <2> QED
    BY <2>1, <2>2, LimitAssumption
       DEF TypeOK, TaskState, Terminal, Closed, Status, Worker
<1>2. Known = {}
  BY DEF Known
<1>3. NumberInv
  BY <1>2, FS_EmptySet DEF NumberInv
<1>4. EventInv
  <2> SUFFICES ASSUME NEW i \in Ids PROVE EventOf(i)  BY DEF EventInv
  <2> QED  BY DEF EventOf
<1>5. BatchInv
  <2> SUFFICES ASSUME NEW t \in Tasks PROVE BatchOf(t)  BY DEF BatchInv
  <2>1. Pending(t) = {}  BY DEF Pending, Waiting, Inserted
  <2> QED  BY <2>1 DEF BatchOf
<1>6. TurnInv
  BY DEF TurnInv, TurnOf, NoReceipt
<1>7. StageInv
  <2>1. DOMAIN <<>> = 1 .. 0  BY EmptySeq, LenProperties
  <2> QED  BY <2>1 DEF StageInv, StageOf
<1>8. OpInv
  BY DEF OpInv, Op, Idle
<1> QED  BY <1>1, <1>3, <1>4, <1>5, <1>6, <1>7, <1>8 DEF Inv


(* What a settlement leaves.                                               *)
LEMMA SettleEffect ==
    ASSUME TypeOK, NEW t \in Tasks, NEW st \in TaskState,
           NEW delivered \in BOOLEAN, NEW unstarted \in BOOLEAN,
           Settle(t, st, delivered, unstarted)
    PROVE  /\ Moved(t, st, cancel[t], deferred[t],
                    IF delivered \/ unstarted THEN {} ELSE batch[t],
                    Finished(t, delivered, unstarted))
           /\ inputs' = [inputs EXCEPT ![t] = Popped(t, delivered, unstarted)]
           /\ inputs' \in [Tasks -> Seq(SUBSET Ids)]
<1> DEFINE b == IF delivered \/ unstarted THEN {} ELSE batch[t]
           mark == IF delivered THEN "delivered" ELSE IF unstarted THEN "queued" ELSE "held"
           e == Finished(t, delivered, unstarted)
<1>1. b \in SUBSET Ids
  BY DEF TypeOK
<1>2. e \in [Ids -> Status \cup {"none"}]
  <2>1. mark \in Status /\ batch[t] \in SUBSET Ids  BY DEF Status, TypeOK
  <2>2. e = Mark(status, batch[t], mark)  BY DEF Finished
  <2> HIDE DEF e, mark
  <2>3. Mark(status, batch[t], mark) \in [Ids -> Status \cup {"none"}]  BY <2>1, MarkType
  <2> QED  BY <2>2, <2>3
<1>3. cancel[t] \in BOOLEAN /\ deferred[t] \in BOOLEAN
  BY DEF TypeOK
<1>4. Transition(t, st, cancel[t], deferred[t], b, e)
  BY DEF Settle
<1>5. inputs' = [inputs EXCEPT ![t] = Popped(t, delivered, unstarted)]
  BY DEF Settle
<1>6. inputs' \in [Tasks -> Seq(SUBSET Ids)]
  <2>1. Popped(t, delivered, unstarted) \in Seq(SUBSET Ids)  BY PoppedEffect
  <2> QED  BY <1>5, <2>1 DEF TypeOK
<1>7. Moved(t, st, cancel[t], deferred[t], b, e)
  <2> HIDE DEF b, e, mark
  <2> QED  BY <1>1, <1>2, <1>3, <1>4, TransitionEffect
<1> QED  BY <1>5, <1>6, <1>7

(* What a row that keeps its batch does to its events, as a table.         *)
LEMMA UnchangedType ==
    ASSUME TypeOK, NEW t \in Tasks, NEW st
    PROVE  Unchanged(t, st) \in [Ids -> Status \cup {"none"}]
<1>1. "held" \in Status /\ batch[t] \in SUBSET Ids  BY DEF Status, TypeOK
<1>2. Mark(status, batch[t], "held") \in [Ids -> Status \cup {"none"}]
  BY <1>1, MarkType
<1> QED  BY <1>2 DEF Unchanged, TypeOK

(* The actions that write a row without a settlement.                      *)
Moves(t) ==
    /\ CancelTask(t) => Moved(t, state[t], TRUE, deferred[t], batch[t], Unchanged(t, state[t]))
    /\ Release(t) => Moved(t, "Queued", FALSE, FALSE, batch[t], status)
    /\ Reply(t) => Moved(t, "Queued", FALSE, deferred[t], batch[t], status)
    /\ Dismiss(t) => Moved(t, "Failed", FALSE, deferred[t], {}, Mark(status, batch[t], "closed"))
    /\ LaunchFull(t) => Moved(t, "NeedsInput", cancel[t], deferred[t], batch[t], status)
    /\ Prepare(t) => Moved(t, "Running", FALSE, deferred[t],
                           IF op.events = {} THEN batch[t] ELSE op.events,
                           Mark(status, op.events, "prepared"))
    /\ CancelIdle(t) => Moved(t, "Cancelled", FALSE, FALSE, batch[t], Unchanged(t, "Cancelled"))
    /\ StartupUncertain(t) => Moved(t, "Uncertain", cancel[t], deferred[t], batch[t],
                                    Unchanged(t, "Uncertain"))

(* Each of those actions is one transition of its row.                     *)
LEMMA ActionMoves ==
    ASSUME TypeOK, OpInv, NEW t \in Tasks
    PROVE  Moves(t)
<1>1. state[t] \in TaskState /\ cancel[t] \in BOOLEAN /\ deferred[t] \in BOOLEAN
      /\ batch[t] \in SUBSET Ids /\ {} \in SUBSET Ids /\ FALSE \in BOOLEAN /\ TRUE \in BOOLEAN
      /\ status \in [Ids -> Status \cup {"none"}]
  BY DEF TypeOK
<1>2. {"Queued", "Running", "NeedsInput", "Cancelled", "Failed", "Uncertain", "Completed"}
          \subseteq TaskState
  BY DEF TaskState, Terminal, Closed
<1>3. \A st : Unchanged(t, st) \in [Ids -> Status \cup {"none"}]
  BY UnchangedType
<1> USE <1>1, <1>2, <1>3, TransitionEffect
<1>4. ASSUME CancelTask(t)
      PROVE  Moved(t, state[t], TRUE, deferred[t], batch[t], Unchanged(t, state[t]))
  BY <1>4 DEF CancelTask
<1>5. ASSUME Release(t) PROVE Moved(t, "Queued", FALSE, FALSE, batch[t], status)
  BY <1>5 DEF Release
<1>6. ASSUME Reply(t) PROVE Moved(t, "Queued", FALSE, deferred[t], batch[t], status)
  BY <1>6 DEF Reply
<1>7. ASSUME Dismiss(t)
      PROVE  Moved(t, "Failed", FALSE, deferred[t], {}, Mark(status, batch[t], "closed"))
  <2>1. Mark(status, batch[t], "closed") \in [Ids -> Status \cup {"none"}]
    BY MarkType DEF Status
  <2> QED  BY <1>7, <2>1 DEF Dismiss
<1>8. ASSUME LaunchFull(t)
      PROVE  Moved(t, "NeedsInput", cancel[t], deferred[t], batch[t], status)
  BY <1>8 DEF LaunchFull
<1>9. ASSUME Prepare(t)
      PROVE  Moved(t, "Running", FALSE, deferred[t],
                   IF op.events = {} THEN batch[t] ELSE op.events,
                   Mark(status, op.events, "prepared"))
  <2> DEFINE b == IF op.events = {} THEN batch[t] ELSE op.events
             e == Mark(status, op.events, "prepared")
  <2>1. op.events \in SUBSET Ids
    BY DEF OpInv, Op
  <2>2. e \in [Ids -> Status \cup {"none"}]
    BY <2>1, MarkType DEF Status
  <2>3. b \in SUBSET Ids /\ Transition(t, "Running", FALSE, deferred[t], b, e)
    BY <1>9, <2>1 DEF Prepare
  <2> HIDE DEF b, e
  <2>4. Moved(t, "Running", FALSE, deferred[t], b, e)
    BY <2>2, <2>3
  <2> QED  BY <2>4 DEF b, e
<1>10. ASSUME CancelIdle(t)
       PROVE  Moved(t, "Cancelled", FALSE, FALSE, batch[t], Unchanged(t, "Cancelled"))
  BY <1>10 DEF CancelIdle
<1>11. ASSUME StartupUncertain(t)
       PROVE  Moved(t, "Uncertain", cancel[t], deferred[t], batch[t], Unchanged(t, "Uncertain"))
  BY <1>11 DEF StartupUncertain
<1> QED  BY <1>4, <1>5, <1>6, <1>7, <1>8, <1>9, <1>10, <1>11 DEF Moves

(* ... and with one: a receipt, the supervisor, a restart.                 *)
Settled(t, st, delivered, unstarted) ==
    /\ st \in TaskState /\ delivered \in BOOLEAN /\ unstarted \in BOOLEAN
    /\ Moved(t, st, cancel[t], deferred[t], IF delivered \/ unstarted THEN {} ELSE batch[t],
             Finished(t, delivered, unstarted))
    /\ inputs' = [inputs EXCEPT ![t] = Popped(t, delivered, unstarted)]
    /\ inputs' \in [Tasks -> Seq(SUBSET Ids)]

(* What a receipt may settle an uncertain row as.                          *)
Receipted(t, st, delivered, unstarted) ==
    /\ state[t] = "Uncertain" /\ record[t] # NoReceipt
    /\ unstarted <=> batch[t] # {} /\ record[t].sub = "no"
    /\ delivered <=> batch[t] # {} /\ appended[t] /\ record[t].sub = "yes"
    /\ batch[t] # {} => unstarted \/ delivered
    /\ st \in {"Cancelled", "NeedsInput", "Completed", "Failed"}

(* The receipt of a lost turn settles it as one transition, with flags     *)
(* that the receipt bears out.                                             *)
LEMMA ReconcileMoves ==
    ASSUME TypeOK, NEW t \in Tasks, Reconcile(t)
    PROVE  \E st \in TaskState, delivered, unstarted \in BOOLEAN :
               Receipted(t, st, delivered, unstarted) /\ Settled(t, st, delivered, unstarted)
<1> DEFINE unstarted == batch[t] # {} /\ record[t].sub = "no"
           delivered == batch[t] # {} /\ appended[t] /\ record[t].sub = "yes"
           st == IF unstarted THEN IF cancel[t] THEN "Cancelled" ELSE "NeedsInput"
                 ELSE CASE record[t].class \in {"completed", "silent"} -> "Completed"
                        [] record[t].class = "question" -> "NeedsInput"
                        [] record[t].class = "cancelled" -> "Cancelled"
                        [] OTHER -> "Failed"
<1>1. unstarted \in BOOLEAN /\ delivered \in BOOLEAN
  BY DEF TypeOK
<1>2. st \in {"Cancelled", "NeedsInput", "Completed", "Failed"}
  OBVIOUS
<1>3. st \in TaskState
  BY <1>2 DEF TaskState, Terminal, Closed
<1>4. Settle(t, st, delivered, unstarted)
  BY DEF Reconcile
<1>5. Receipted(t, st, delivered, unstarted)
  <2>1. state[t] = "Uncertain" /\ record[t] # NoReceipt /\ (batch[t] # {} => unstarted \/ delivered)
    BY DEF Reconcile
  <2> QED  BY <1>2, <2>1 DEF Receipted
<1> HIDE DEF unstarted, delivered, st
<1>6. Settled(t, st, delivered, unstarted)
  BY <1>1, <1>3, <1>4, SettleEffect DEF Settled
<1> QED  BY <1>1, <1>3, <1>5, <1>6

(* So does the commit of a finished turn, with the flags that were read.   *)
LEMMA FinishMoves ==
    ASSUME TypeOK, OpInv, NEW t \in Tasks, FinishCommit(t)
    PROVE  Settled(t, op.state, op.delivered, op.unstarted)
<1>1. op.state \in TaskState /\ op.delivered \in BOOLEAN /\ op.unstarted \in BOOLEAN
  BY DEF FinishCommit, OpInv, Op
<1>2. Settle(t, op.state, op.delivered, op.unstarted)
  BY DEF FinishCommit
<1> QED  BY <1>1, <1>2, SettleEffect DEF Settled

(* So does the restart, for a row whose run was never created.             *)
LEMMA StartupMoves ==
    ASSUME TypeOK, NEW t \in Tasks, StartupRequeue(t)
    PROVE  Settled(t, "Queued", FALSE, TRUE)
<1>1. "Queued" \in TaskState
  BY DEF TaskState, Terminal, Closed
<1>2. Settle(t, "Queued", FALSE, TRUE)
  BY DEF StartupRequeue
<1> QED  BY <1>1, <1>2, SettleEffect DEF Settled

-----------------------------------------------------------------------------
(* The three ways into the inbox, as one.                                  *)
Accepted(t, i) ==
    /\ ev[i] = NoEvent /\ ev'[i] # NoEvent
    /\ ev'[i].task = t /\ ev'[i].source # t
    /\ status'[i] # "none"
    /\ \/ status'[i] = GradeOf(t)
       \/ /\ status'[i] = "waiting" /\ ev'[i].kind = "completion"
          /\ ev'[i].source \in Tasks /\ state[ev'[i].source] \notin Closed
    /\ \A j \in Ids : j # i => ev'[j] = ev[j] /\ status'[j] = status[j]
    /\ \A j \in Ids : ev[j] # NoEvent => ev[j].seq < ev'[i].seq
    /\ ev' \in [Ids -> Event \cup {NoEvent}]
    /\ status' \in [Ids -> Status \cup {"none"}]
    /\ NumberInv'
    /\ UNCHANGED <<rowVars, batch, turnVars, sent>>
    /\ Write

(* Steering, a message and a watch are all accepted so.                    *)
LEMMA Acceptance ==
    ASSUME TypeOK, NumberInv, NEW t \in Tasks, NEW i \in Ids,
           Steer(t, i) \/ \E s \in Tasks : Send(s, t, i) \/ Watch(t, s, i)
    PROVE  Accepted(t, i)
<1>1. /\ "steering" \in Kind /\ "message" \in Kind /\ "completion" \in Kind
      /\ None \in Tasks \cup {None}
      /\ "waiting" \in Status /\ GradeOf(t) \in Status
      /\ GradeOf(t) # "none" /\ t # None
  BY GradeType, NoneAssumption DEF Kind, Status, GradeOf
<1>e. ASSUME NEW kind \in Kind, Insert(i, t, kind, None, GradeOf(t)), Write,
             UNCHANGED <<rowVars, batch>>, UNCHANGED <<turnVars, sent>>
      PROVE  Accepted(t, i)
  <2>1. /\ ev[i] = NoEvent /\ ev'[i] # NoEvent /\ status'[i] = GradeOf(t)
        /\ ev'[i].task = t /\ ev'[i].source = None
        /\ \A j \in Ids : j # i => ev'[j] = ev[j] /\ status'[j] = status[j]
        /\ \A j \in Ids : ev[j] # NoEvent => ev[j].seq < ev'[i].seq
        /\ ev' \in [Ids -> Event \cup {NoEvent}]
        /\ status' \in [Ids -> Status \cup {"none"}]
        /\ NumberInv'
    BY <1>1, <1>e, InsertEffect
  <2> QED  BY <1>1, <1>e, <2>1 DEF Accepted
<1>2. CASE Steer(t, i)
  <2>1. Insert(i, t, "steering", None, GradeOf(t)) /\ UNCHANGED <<rowVars, batch>> /\ Write
    BY <1>2 DEF Steer, Others
  <2>2. UNCHANGED <<turnVars, sent>>
    BY <2>1 DEF Write
  <2>3. PICK kind \in Kind : Insert(i, t, kind, None, GradeOf(t))
    BY <1>1, <2>1
  <2> QED  BY <1>e, <2>1, <2>2, <2>3
<1>3. ASSUME NEW s \in Tasks, Send(s, t, i) PROVE Accepted(t, i)
  <2>1. Insert(i, t, "message", None, GradeOf(t)) /\ UNCHANGED <<rowVars, batch>> /\ Write
    BY <1>3 DEF Send, Others
  <2>2. UNCHANGED <<turnVars, sent>>
    BY <2>1 DEF Write
  <2>3. PICK kind \in Kind : Insert(i, t, kind, None, GradeOf(t))
    BY <1>1, <2>1
  <2> QED  BY <1>e, <2>1, <2>2, <2>3
<1>4. ASSUME NEW s \in Tasks, Watch(t, s, i) PROVE Accepted(t, i)
  <2> DEFINE mark == IF state[s] \in Closed THEN GradeOf(t) ELSE "waiting"
  <2>1. Insert(i, t, "completion", s, mark) /\ UNCHANGED <<rowVars, batch>> /\ Write /\ s # t
    BY <1>4 DEF Watch, Others
  <2>2. UNCHANGED <<turnVars, sent>>
    BY <2>1 DEF Write
  <2>3. mark \in Status /\ mark # "none"
        /\ (mark = GradeOf(t) \/ (mark = "waiting" /\ state[s] \notin Closed))
    BY <1>1
  <2> HIDE DEF mark
  <2> QED  BY <1>1, <2>1, <2>2, <2>3, InsertEffect DEF Accepted
<1> QED  BY <1>2, <1>3, <1>4

-----------------------------------------------------------------------------
(* Type correctness.                                                       *)
(* A transition keeps the types, if it leaves a batch within the limit.    *)
LEMMA MovedType ==
    ASSUME TypeOK, NEW t \in Tasks, NEW st, NEW canc, NEW def, NEW b, NEW e,
           Moved(t, st, canc, def, b, e), Cardinality(b) <= MaxBatch,
           inputs' \in [Tasks -> Seq(SUBSET Ids)], UNCHANGED <<appended, run, record, lost, sent>>,
           worker' \in [Tasks -> Worker]
    PROVE  TypeOK'
BY DEF TypeOK, Moved

(* So does a settlement, which leaves the batch as it was or none.         *)
LEMMA SettledType ==
    ASSUME TypeOK, NEW t \in Tasks, NEW st, NEW delivered, NEW unstarted,
           Settled(t, st, delivered, unstarted), UNCHANGED <<appended, run, record, lost, sent>>,
           worker' \in [Tasks -> Worker]
    PROVE  TypeOK'
<1>1. Cardinality(IF delivered \/ unstarted THEN {} ELSE batch[t]) <= MaxBatch
  <2>1. Cardinality({}) = 0  BY FS_EmptySet
  <2> QED  BY <2>1, LimitAssumption DEF TypeOK
<1> QED  BY <1>1, MovedType DEF Settled

(* Every step keeps the types.                                             *)
LEMMA TypeStep == Inv /\ [Next]_vars => TypeOK'
<1> SUFFICES ASSUME Inv, [Next]_vars PROVE TypeOK'
  OBVIOUS
<1>0. TypeOK /\ NumberInv /\ OpInv
  BY DEF Inv
<1>a. \A t \in Tasks : Cardinality(batch[t]) <= MaxBatch
  BY <1>0 DEF TypeOK
<1>b. Cardinality({}) <= MaxBatch /\ {} \in SUBSET Ids
  BY FS_EmptySet, LimitAssumption
<1>c. inputs \in [Tasks -> Seq(SUBSET Ids)] /\ worker \in [Tasks -> Worker]
  BY <1>0 DEF TypeOK
<1>d. \A t \in Tasks : Moves(t)
  BY <1>0, ActionMoves
<1>e. ASSUME NEW t \in Tasks, NEW x \in SUBSET Ids
      PROVE  [inputs EXCEPT ![t] = Append(@, x)] \in [Tasks -> Seq(SUBSET Ids)]
  <2>1. inputs[t] \in Seq(SUBSET Ids)  BY <1>c
  <2>2. Append(inputs[t], x) \in Seq(SUBSET Ids)  BY <2>1, InputsAppend
  <2> QED  BY <1>c, <2>2
<1>1. ASSUME NEW t \in Tasks, Command(t) PROVE TypeOK'
  <2>1. ASSUME NEW i \in Ids, Accepted(t, i) PROVE TypeOK'
    BY <1>0, <2>1 DEF Accepted, TypeOK, rowVars, turnVars
  <2>2. CASE CancelTask(t)
    BY <1>0, <1>a, <1>c, <1>d, <2>2, MovedType DEF Moves, CancelTask, Others, Write, turnVars
  <2>3. CASE Release(t)
    BY <1>0, <1>a, <1>c, <1>d, <2>3, MovedType DEF Moves, Release, Others, Write, turnVars
  <2>4. CASE Reply(t)
    <3>1. inputs' \in [Tasks -> Seq(SUBSET Ids)]
      BY <1>b, <1>e, <2>4 DEF Reply
    <3> QED
      BY <1>0, <1>a, <1>c, <1>d, <2>4, <3>1, MovedType DEF Moves, Reply, Others, Write, turnVars
  <2>5. CASE Dismiss(t)
    BY <1>0, <1>b, <1>c, <1>d, <2>5, MovedType DEF Moves, Dismiss, Owner, Write, turnVars
  <2>6. CASE Reconcile(t)
    <3>1. \E st, delivered, unstarted : Settled(t, st, delivered, unstarted)
      BY <1>0, <2>6, ReconcileMoves
    <3>2. UNCHANGED <<turnVars, sent>>
      BY <2>6 DEF Reconcile, Owner, Write
    <3> QED  BY <1>0, <1>c, <3>1, <3>2, SettledType DEF turnVars
  <2>7. CASE RecoverRun(t)
    BY <1>0, <2>7 DEF RecoverRun, TypeOK, rowVars, mailVars
  <2> QED
    BY <1>0, <1>1, <2>1, <2>2, <2>3, <2>4, <2>5, <2>6, <2>7, Acceptance DEF Command
<1>2. ASSUME NEW t \in Tasks, Supervise(t) PROVE TypeOK'
  <2>1. CASE LaunchRead(t)
    BY <1>0, <2>1 DEF LaunchRead, TypeOK, rowVars, mailVars, turnVars
  <2>2. CASE LaunchFull(t)
    BY <1>0, <1>a, <1>c, <1>d, <2>2, MovedType DEF Moves, LaunchFull, turnVars
  <2>3. CASE Prepare(t)
    <3>1. op.events \in SUBSET Ids /\ Cardinality(op.events) <= MaxBatch
      BY <1>0, <2>3 DEF Prepare, OpInv, Op
    <3>2. inputs' \in [Tasks -> Seq(SUBSET Ids)]
      BY <1>c, <1>e, <2>3, <3>1 DEF Prepare
    <3>3. /\ worker' \in [Tasks -> Worker] /\ appended' \in [Tasks -> BOOLEAN]
          /\ lost' \in [Tasks -> BOOLEAN] /\ run' \in [Tasks -> {"none", "open", "settled"}]
          /\ record' \in [Tasks -> Receipt \cup {NoReceipt}] /\ sent' = sent
      BY <1>0, <2>3 DEF Prepare, TypeOK, Worker
    <3>4. Moved(t, "Running", FALSE, deferred[t], IF op.events = {} THEN batch[t] ELSE op.events,
                Mark(status, op.events, "prepared"))
      BY <1>d, <2>3 DEF Moves
    <3> QED  BY <1>0, <1>a, <3>1, <3>2, <3>3, <3>4 DEF TypeOK, Moved
  <2>4. CASE LaunchConflict(t)
    BY <1>0, <2>4 DEF LaunchConflict, TypeOK, rowVars, mailVars, turnVars
  <2>5. CASE CancelIdle(t)
    BY <1>0, <1>a, <1>c, <1>d, <2>5, MovedType DEF Moves, CancelIdle, turnVars
  <2>6. CASE FinishRead(t)
    BY <1>0, <2>6 DEF FinishRead, TypeOK, rowVars, mailVars, turnVars
  <2>7. CASE FinishCommit(t)
    <3>1. worker' \in [Tasks -> Worker] /\ UNCHANGED <<appended, run, record, lost, sent>>
      BY <1>0, <2>7 DEF FinishCommit, TypeOK, Worker
    <3> QED  BY <1>0, <2>7, <3>1, FinishMoves, SettledType
  <2>8. CASE FinishConflict(t)
    BY <1>0, <2>8 DEF FinishConflict, TypeOK, rowVars, mailVars, turnVars
  <2>9. CASE StartupRequeue(t)
    <3>1. worker' \in [Tasks -> Worker] /\ UNCHANGED <<appended, run, record, lost, sent>>
      BY <1>c, <2>9 DEF StartupRequeue, turnVars
    <3> QED  BY <1>0, <2>9, <3>1, StartupMoves, SettledType
  <2>10. CASE StartupUncertain(t)
    BY <1>0, <1>a, <1>c, <1>d, <2>10, MovedType DEF Moves, StartupUncertain, turnVars
  <2> QED
    BY <1>2, <2>1, <2>2, <2>3, <2>4, <2>5, <2>6, <2>7, <2>8, <2>9, <2>10 DEF Supervise
<1>3. ASSUME NEW t \in Tasks, Work(t) PROVE TypeOK'
  <2> USE <1>0 DEF WorkerStep, TypeOK, Worker, rowVars, mailVars
  <2>1. CASE AppendInput(t)  BY <2>1 DEF AppendInput
  <2>2. CASE PrepareRun(t)  BY <2>2 DEF PrepareRun
  <2>3. CASE StartPrompt(t)  BY <2>3 DEF StartPrompt
  <2>4. CASE PromptStarted(t)  BY <2>4 DEF PromptStarted
  <2>5. CASE SettleTurn(t)
    <3>1. PICK class \in EndsAs(t), sure \in {TRUE, worker[t] # "sent"} :
              record' = [record EXCEPT ![t] =
                  [sub |-> Submission(t), sure |-> sure, class |-> class]]
      BY <2>5 DEF SettleTurn
    <3>2. [sub |-> Submission(t), sure |-> sure, class |-> class] \in Receipt
      BY DEF Receipt, Submission, EndsAs, Class
    <3> QED  BY <2>5, <3>1, <3>2 DEF SettleTurn
  <2>6. CASE AbandonTurn(t)  BY <2>6 DEF AbandonTurn
  <2>7. CASE FailTurn(t)  BY <2>7 DEF FailTurn
  <2> QED  BY <1>3, <2>1, <2>2, <2>3, <2>4, <2>5, <2>6, <2>7 DEF Work
<1>4. CASE Crash
  BY <1>0, <1>4 DEF Crash, TypeOK, Worker, rowVars, mailVars
<1>5. CASE UNCHANGED vars
  BY <1>0, <1>5 DEF TypeOK, vars, rowVars, mailVars, turnVars
<1> QED  BY <1>1, <1>2, <1>3, <1>4, <1>5 DEF Next

-----------------------------------------------------------------------------
(* Events enter in one way and stay what they were accepted as.            *)
LEMMA EventsStay ==
    ASSUME Inv, [Next]_vars
    PROVE  ev' = ev \/ \E t \in Tasks, i \in Ids : Accepted(t, i)
<1>0. TypeOK /\ NumberInv /\ OpInv
  BY DEF Inv
<1>1. \A t \in Tasks : Moves(t)
  BY <1>0, ActionMoves
<1>2. ASSUME NEW t \in Tasks, Command(t)
      PROVE  ev' = ev \/ \E i \in Ids : Accepted(t, i)
  <2>1. CASE Reconcile(t)
    BY <1>0, <2>1, ReconcileMoves DEF Settled, Moved
  <2>2. CASE CancelTask(t) \/ Release(t) \/ Reply(t) \/ Dismiss(t)
    BY <1>1, <2>2 DEF Moves, Moved
  <2>3. CASE RecoverRun(t)
    BY <2>3 DEF RecoverRun, mailVars
  <2> QED  BY <1>0, <1>2, <2>1, <2>2, <2>3, Acceptance DEF Command
<1>3. ASSUME NEW t \in Tasks, Supervise(t) PROVE ev' = ev
  <2>1. CASE FinishCommit(t)
    BY <1>0, <2>1, FinishMoves DEF Settled, Moved
  <2>2. CASE StartupRequeue(t)
    BY <1>0, <2>2, StartupMoves DEF Settled, Moved
  <2>3. CASE LaunchFull(t) \/ Prepare(t) \/ CancelIdle(t) \/ StartupUncertain(t)
    BY <1>1, <2>3 DEF Moves, Moved
  <2>4. CASE LaunchRead(t) \/ LaunchConflict(t) \/ FinishRead(t) \/ FinishConflict(t)
    BY <2>4 DEF LaunchRead, LaunchConflict, FinishRead, FinishConflict, mailVars
  <2> QED  BY <1>3, <2>1, <2>2, <2>3, <2>4 DEF Supervise
<1>4. ASSUME NEW t \in Tasks, Work(t) PROVE ev' = ev
  BY <1>4 DEF Work, AppendInput, PrepareRun, StartPrompt, PromptStarted, SettleTurn,
              AbandonTurn, FailTurn, WorkerStep, mailVars
<1>5. ASSUME Crash \/ UNCHANGED vars PROVE ev' = ev
  BY <1>5 DEF Crash, vars, mailVars
<1> QED  BY <1>2, <1>3, <1>4, <1>5 DEF Next

(* Every step keeps the numbers unique.                                    *)
LEMMA NumberStep == Inv /\ [Next]_vars => NumberInv'
<1> SUFFICES ASSUME Inv, [Next]_vars PROVE NumberInv'
  OBVIOUS
<1>1. CASE ev' = ev
  BY <1>1 DEF Inv, NumberInv, Known
<1>2. CASE \E t \in Tasks, i \in Ids : Accepted(t, i)
  BY <1>2 DEF Accepted
<1> QED  BY <1>1, <1>2, EventsStay

(* What a settlement says of a batch is what its turn did.                 *)
Truthful(t, delivered, unstarted) ==
    /\ delivered => batch[t] \subseteq sent
    /\ unstarted => batch[t] \cap sent = {}

(* Every settlement tells the truth of its batch: acknowledged only if     *)
(* submitted, given back only if not.                                      *)
LEMMA SettlementIsTruthful ==
    ASSUME Inv, NEW t \in Tasks
    PROVE  /\ \A st, delivered, unstarted :
                  Receipted(t, st, delivered, unstarted) => Truthful(t, delivered, unstarted)
           /\ FinishCommit(t) => Truthful(t, op.delivered, op.unstarted)
           /\ StartupRequeue(t) => Truthful(t, FALSE, TRUE)
<1>1. TurnOf(t) /\ OpInv
  BY DEF Inv, TurnInv
<1> QED
  BY <1>1 DEF TurnOf, OpInv, Truthful, Receipted, FinishCommit, StartupRequeue

(* A transition as one event sees it.                                      *)
EventMoved(i, t, st, b, e) ==
    /\ ev' = ev /\ state'[t] = st /\ batch'[t] = b
    /\ \A u \in Tasks : u # t => state'[u] = state[u] /\ batch'[u] = batch[u]
    /\ \/ status'[i] = e[i]
       \/ /\ status'[i] \in {"queued", "held", "closed"}
          /\ \/ ev[i].task = t /\ i \notin b /\ e[i] \in {"queued", "held"}
             \/ e[i] = "waiting"
    /\ status'[i] = "waiting" => \/ ev[i].kind # "completion" \/ ev[i].source # t
                                 \/ st \notin Closed

(* Every transition is one for each of its events.                         *)
LEMMA MovedEvent ==
    ASSUME NEW t \in Tasks, NEW st, NEW canc, NEW def, NEW b, NEW e,
           Moved(t, st, canc, def, b, e), NEW i \in Ids
    PROVE  EventMoved(i, t, st, b, e)
<1>1. \A u : GradeOf(u) \in {"queued", "held", "closed"}
  BY GradeType DEF GradeOf
<1> QED  BY <1>1, GradeType, SMT DEF Moved, EventMoved

(* Each event keeps its invariant.                                         *)
LEMMA EventStep == Inv /\ [Next]_vars => EventInv'
<1> SUFFICES ASSUME Inv, [Next]_vars, NEW i \in Ids PROVE EventOf(i)'
  BY DEF EventInv
<1>0. TypeOK /\ NumberInv /\ OpInv /\ EventOf(i)
  BY DEF Inv, EventInv
<1>a. /\ ev[i] \in Event \cup {NoEvent} /\ status[i] \in Status \cup {"none"}
      /\ ev[i] # NoEvent => ev[i].task \in Tasks
      /\ status \in [Ids -> Status \cup {"none"}]
  BY <1>0 DEF TypeOK, Event
<1>b. ASSUME NEW t \in Tasks PROVE BatchOf(t) /\ TurnOf(t) /\ Moves(t)
  BY <1>0, ActionMoves DEF Inv, BatchInv, TurnInv
<1>c. \A t : GradeOf(t) \in {"queued", "held", "closed"}
  BY GradeType DEF GradeOf
<1>d. \A t \in Tasks : batch[t] \subseteq Ids
  BY <1>0 DEF TypeOK
<1>1. ASSUME NEW t \in Tasks, NEW j \in Ids, Accepted(t, j) PROVE EventOf(i)'
  <2>1. CASE j # i
    BY <1>0, <1>1, <2>1 DEF Accepted, EventOf, Place, rowVars
  <2>2. CASE j = i
    <3>1. ev[i] = NoEvent /\ status[i] = "none" /\ ev[i].task # t
      BY <1>0, <1>1, <2>2, NoneAssumption DEF Accepted, EventOf, NoEvent
    <3>2. i \notin batch[t]
      BY <1>b, <3>1 DEF BatchOf
    <3>3. i \notin sent
      BY <1>0, <3>1 DEF EventOf, Place
    <3>4. batch' = batch /\ sent' = sent /\ state' = state
      BY <1>1 DEF Accepted, rowVars
    <3>5. /\ ev'[i] # NoEvent /\ ev'[i].source # ev'[i].task /\ ev'[i].task = t
          /\ status'[i] \in {"queued", "held", "closed", "waiting"}
          /\ status'[i] = "waiting" => /\ ev'[i].kind = "completion" /\ ev'[i].source \in Tasks
                                       /\ state[ev'[i].source] \notin Closed
      BY <1>1, <1>c, <2>2 DEF Accepted
    <3> QED  BY <3>2, <3>3, <3>4, <3>5 DEF EventOf, Place
  <2> QED  BY <2>1, <2>2
<1>2. ASSUME NEW t \in Tasks, NEW st, NEW delivered, NEW unstarted,
             Settled(t, st, delivered, unstarted), Truthful(t, delivered, unstarted),
             sent' = sent
      PROVE  EventOf(i)'
  <2>1. /\ ev' = ev /\ state'[t] = st
        /\ \A u \in Tasks : u # t => state'[u] = state[u] /\ batch'[u] = batch[u]
        /\ batch'[t] = IF delivered \/ unstarted THEN {} ELSE batch[t]
    BY <1>2 DEF Settled, Moved
  <2>2. CASE i \in batch[t]
    <3>1. ev[i].task = t /\ status[i] \notin {"none", "waiting"} /\ ev[i] # NoEvent
      BY <1>0, <1>b, <2>2 DEF BatchOf, EventOf
    <3>2. CASE delivered
      <4>1. status'[i] = "delivered"
        BY <1>2, <1>d, <2>2, <3>1, <3>2 DEF Settled, Moved, Finished, Mark
      <4> QED  BY <1>0, <2>1, <3>1, <4>1 DEF EventOf, Place
    <3>3. CASE ~delivered /\ unstarted
      <4>1. status'[i] \in {"queued", "held", "closed"}
        BY <1>2, <1>d, <2>2, <3>1, <3>3, GradeType DEF Settled, Moved, Finished, Mark
      <4>2. i \notin sent
        BY <1>2, <2>2, <3>3 DEF Truthful
      <4> QED  BY <1>0, <1>2, <2>1, <3>1, <4>1, <4>2 DEF EventOf, Place
    <3>4. CASE ~delivered /\ ~unstarted
      <4>1. status'[i] = "held"
        BY <1>2, <1>d, <2>2, <3>1, <3>4 DEF Settled, Moved, Finished, Mark
      <4> QED  BY <1>0, <2>1, <2>2, <3>1, <3>4, <4>1 DEF EventOf, Place
    <3> QED  BY <3>2, <3>3, <3>4
  <2>3. CASE i \notin batch[t]
    <3>1. Finished(t, delivered, unstarted)[i] = status[i]
      BY <2>3 DEF Finished, Mark
    <3> DEFINE n == IF /\ st \in Closed /\ ev[i].kind = "completion"
                       /\ ev[i].source = t /\ status[i] = "waiting"
                    THEN GradeOf(ev[i].task) ELSE status[i]
    <3>2. status'[i] = IF ev[i].task = t /\ n \in {"queued", "held"}
                       THEN Grade(st, cancel[t], deferred[t]) ELSE n
      BY <1>2, <2>3, <3>1, SMT DEF Settled, Moved
    <3>3. n \in {"queued", "held", "closed"} \/ n = status[i]
      BY <1>c
    <3>4. status[i] = "waiting" /\ st \in Closed /\ ev[i].source = t => n # "waiting"
      BY <1>0, <1>c DEF EventOf
    <3>5. n = status[i] \/ status[i] = "waiting"
      OBVIOUS
    <3> HIDE DEF n
    <3> QED  BY <1>0, <1>2, <1>a, <2>1, <2>3, <3>2, <3>3, <3>4, <3>5, GradeType DEF EventOf, Place
  <2> QED  BY <2>2, <2>3
<1>3. ASSUME NEW t \in Tasks, NEW st, NEW canc, NEW def,
             Moved(t, st, canc, def, batch[t], status), UNCHANGED sent
      PROVE  EventOf(i)'
  BY <1>0, <1>3, <1>a, <1>c, GradeType, SMT DEF Moved, EventOf, Place
<1>4. ASSUME NEW t \in Tasks, NEW st, NEW canc, NEW def,
             Moved(t, st, canc, def, batch[t], Unchanged(t, st)), UNCHANGED sent
      PROVE  EventOf(i)'
  <2>1. ASSUME i \in batch[t]
        PROVE  ev[i].task = t /\ status[i] \notin {"none", "waiting", "closed", "delivered"}
    BY <1>0, <1>b, <2>1, SMT DEF BatchOf, EventOf
  <2>2. Unchanged(t, st)[i] = IF st = "Uncertain" /\ i \in batch[t] THEN "held" ELSE status[i]
    BY SMT DEF Unchanged, Mark
  <2> QED  BY <1>0, <1>4, <1>a, <1>c, <2>1, <2>2, GradeType, SMT DEF Moved, EventOf, Place
<1>5. ASSUME NEW t \in Tasks, Command(t) PROVE EventOf(i)'
  <2>1. CASE CancelTask(t)
    BY <1>4, <1>b, <2>1 DEF Moves, CancelTask, Others, Write
  <2>2. CASE Release(t)
    BY <1>3, <1>b, <2>2 DEF Moves, Release, Others, Write
  <2>3. CASE Reply(t)
    BY <1>3, <1>b, <2>3 DEF Moves, Reply, Others, Write
  <2>4. CASE Dismiss(t)
    <3>e. PICK e : e = Mark(status, batch[t], "closed")
      OBVIOUS
    <3>1. Moved(t, "Failed", FALSE, deferred[t], {}, e) /\ sent' = sent
      BY <1>b, <2>4, <3>e DEF Moves, Dismiss, Owner, Write
    <3>2. ASSUME i \in batch[t] PROVE ev[i].task = t /\ ev[i] # NoEvent
      BY <1>0, <1>b, <3>2, SMT DEF BatchOf, EventOf
    <3>3. e[i] = IF i \in batch[t] THEN "closed" ELSE status[i]
      BY <3>e, SMT DEF Mark
    <3>5. EventMoved(i, t, "Failed", {}, e)
      BY <3>1, MovedEvent
    <3>4. CASE i \in batch[t]
      <4>1. status'[i] = "closed" /\ ev' = ev
        BY <3>3, <3>4, <3>5 DEF EventMoved
      <4> QED  BY <1>0, <3>2, <3>4, <4>1 DEF EventOf, Place
    <3>6. CASE i \notin batch[t]
      <4>1. e[i] = status[i]
        BY <3>3, <3>6
      <4>2. /\ ev' = ev /\ i \notin batch'[t]
            /\ \A u \in Tasks : u # t => state'[u] = state[u] /\ batch'[u] = batch[u]
            /\ \/ status'[i] = status[i]
               \/ /\ status'[i] \in {"queued", "held", "closed"}
                  /\ \/ ev[i].task = t /\ status[i] \in {"queued", "held"}
                     \/ status[i] = "waiting"
            /\ status'[i] = "waiting" => ev[i].kind # "completion" \/ ev[i].source # t
        BY <3>5, <4>1 DEF EventMoved, Closed
      <4> QED  BY <1>0, <1>a, <3>1, <3>6, <4>2 DEF EventOf, Place
    <3> QED  BY <3>4, <3>6
  <2>5. CASE Reconcile(t)
    <3>1. PICK st \in TaskState, delivered, unstarted \in BOOLEAN :
              Receipted(t, st, delivered, unstarted) /\ Settled(t, st, delivered, unstarted)
      BY <1>0, <2>5, ReconcileMoves
    <3>2. Truthful(t, delivered, unstarted)
      BY <3>1, SettlementIsTruthful
    <3>3. sent' = sent
      BY <2>5 DEF Reconcile, Owner, Write
    <3> QED  BY <1>2, <3>1, <3>2, <3>3
  <2>6. CASE RecoverRun(t)
    BY <1>0, <2>6 DEF RecoverRun, EventOf, Place, rowVars, mailVars
  <2> QED
    BY <1>0, <1>1, <1>5, <2>1, <2>2, <2>3, <2>4, <2>5, <2>6, Acceptance DEF Command
<1>6. ASSUME NEW t \in Tasks, Supervise(t) PROVE EventOf(i)'
  <2>1. CASE LaunchFull(t)
    BY <1>3, <1>b, <2>1 DEF Moves, LaunchFull
  <2>2. CASE Prepare(t)
    <3>e. PICK e, b : /\ e = Mark(status, op.events, "prepared")
                      /\ b = IF op.events = {} THEN batch[t] ELSE op.events
      OBVIOUS
    <3>1. Moved(t, "Running", FALSE, deferred[t], b, e) /\ sent' = sent
      BY <1>b, <2>2, <3>e DEF Moves, Prepare
    <3>2. state[t] = "Queued" /\ op.events \subseteq Pending(t)
      BY <1>0, <2>2 DEF Prepare, OpInv
    <3>3. batch[t] = {} /\ b = op.events
      BY <1>b, <3>2, <3>e DEF BatchOf
    <3>4. i \in op.events => ev[i].task = t /\ status[i] \in {"queued", "held"} /\ i \notin batch[t]
      BY <3>2 DEF Pending, Waiting, Inserted
    <3>5. e[i] = IF i \in op.events THEN "prepared" ELSE status[i]
      BY <3>e, SMT DEF Mark
    <3>8. EventMoved(i, t, "Running", b, e)
      BY <3>1, MovedEvent
    <3>6. CASE i \in op.events
      <4>1. status'[i] = "prepared" /\ ev' = ev /\ batch'[t] = op.events
        BY <3>3, <3>5, <3>6, <3>8 DEF EventMoved
      <4>2. ev[i] # NoEvent
        BY <1>0, <3>4, <3>6 DEF EventOf
      <4> QED  BY <1>0, <3>4, <3>6, <4>1, <4>2 DEF EventOf, Place
    <3>7. CASE i \notin op.events
      <4>1. e[i] = status[i]
        BY <3>5, <3>7
      <4>2. /\ ev' = ev /\ state'[t] = "Running" /\ "Running" \notin Closed /\ i \notin batch'[t]
            /\ \A u \in Tasks : u # t => state'[u] = state[u] /\ batch'[u] = batch[u]
            /\ \/ status'[i] = status[i]
               \/ /\ status'[i] \in {"queued", "held", "closed"}
                  /\ \/ ev[i].task = t /\ status[i] \in {"queued", "held"}
                     \/ status[i] = "waiting"
        BY <3>3, <3>7, <3>8, <4>1 DEF EventMoved, Closed
      <4> QED  BY <1>0, <1>a, <3>1, <3>3, <4>2 DEF EventOf, Place
    <3> QED  BY <3>6, <3>7
  <2>3. CASE CancelIdle(t)
    BY <1>4, <1>b, <2>3 DEF Moves, CancelIdle
  <2>4. CASE FinishCommit(t)
    BY <1>0, <1>2, <2>4, FinishMoves, SettlementIsTruthful DEF FinishCommit
  <2>5. CASE StartupRequeue(t)
    BY <1>0, <1>2, <2>5, StartupMoves, SettlementIsTruthful DEF StartupRequeue
  <2>6. CASE StartupUncertain(t)
    BY <1>4, <1>b, <2>6 DEF Moves, StartupUncertain
  <2>7. CASE LaunchRead(t) \/ LaunchConflict(t) \/ FinishRead(t) \/ FinishConflict(t)
    BY <1>0, <2>7 DEF LaunchRead, LaunchConflict, FinishRead, FinishConflict, EventOf, Place,
                      rowVars, mailVars
  <2> QED  BY <1>6, <2>1, <2>2, <2>3, <2>4, <2>5, <2>6, <2>7 DEF Supervise
<1>7. ASSUME NEW t \in Tasks, Work(t) PROVE EventOf(i)'
  <2>1. UNCHANGED <<state, ev, status, batch>> /\ sent' \in {sent, sent \cup batch[t]}
    BY <1>7 DEF Work, AppendInput, PrepareRun, StartPrompt, PromptStarted, SettleTurn,
                AbandonTurn, FailTurn, WorkerStep, mailVars, rowVars
  <2>2. i \in batch[t] => ev[i].task = t /\ status[i] # "none"
    BY <1>0, <1>b DEF BatchOf, EventOf
  <2> QED  BY <1>0, <2>1, <2>2 DEF EventOf, Place
<1>8. CASE Crash \/ UNCHANGED vars
  BY <1>0, <1>8 DEF Crash, vars, EventOf, Place, rowVars, mailVars
<1> QED  BY <1>5, <1>6, <1>7, <1>8 DEF Next

-----------------------------------------------------------------------------
(* A transition as the rows see it.                                        *)
RowMoved(t, st, b) ==
    /\ state'[t] = st /\ batch'[t] = b /\ ev' = ev
    /\ \A u \in Tasks : u # t => state'[u] = state[u] /\ batch'[u] = batch[u]

(* Every transition is one for the rows.                                   *)
LEMMA MovedRow ==
    ASSUME NEW t, NEW st, NEW canc, NEW def, NEW b, NEW e, Moved(t, st, canc, def, b, e)
    PROVE  RowMoved(t, st, b)
BY DEF Moved, RowMoved

(* The trace of a turn and what it submitted.                              *)
LEMMA TurnStep == Inv /\ [Next]_vars => TurnInv'
<1> SUFFICES ASSUME Inv, [Next]_vars, NEW u \in Tasks PROVE TurnOf(u)'
  BY DEF TurnInv
<1>0. TypeOK /\ NumberInv /\ OpInv /\ TurnOf(u)
  BY DEF Inv, TurnInv
<1>a. /\ worker \in [Tasks -> Worker] /\ appended \in [Tasks -> BOOLEAN]
      /\ record \in [Tasks -> Receipt \cup {NoReceipt}]
  BY <1>0 DEF TypeOK
<1>b. ASSUME NEW t \in Tasks PROVE BatchOf(t) /\ TurnOf(t) /\ Moves(t)
  BY <1>0, ActionMoves DEF Inv, BatchInv, TurnInv
<1>1. ASSUME NEW t \in Tasks, NEW st, NEW b, RowMoved(t, st, b), UNCHANGED <<turnVars, sent>>,
             b = {} \/ b = batch[t], worker[t] = "off" \/ st = state[t]
      PROVE  TurnOf(u)'
  BY <1>0, <1>1 DEF RowMoved, TurnOf, turnVars
<1>2. ASSUME NEW t \in Tasks, Command(t) PROVE TurnOf(u)'
  <2>1. ASSUME NEW i \in Ids, Accepted(t, i) PROVE TurnOf(u)'
    BY <1>0, <2>1 DEF Accepted, TurnOf, rowVars, turnVars
  <2>2. CASE CancelTask(t)
    BY <1>1, <1>b, <2>2, MovedRow DEF Moves, CancelTask, Others, Write
  <2>3. CASE Release(t)
    BY <1>1, <1>b, <2>3, MovedRow DEF Moves, Release, Others, Write
  <2>4. CASE Reply(t)
    <3>1. worker[t] = "off"
      BY <1>b, <2>4 DEF Reply, TurnOf
    <3>2. RowMoved(t, "Queued", batch[t])
      BY <1>b, <2>4, MovedRow DEF Moves
    <3>3. UNCHANGED <<turnVars, sent>>
      BY <2>4 DEF Reply, Others, Write
    <3> QED  BY <1>1, <3>1, <3>2, <3>3
  <2>5. CASE Dismiss(t)
    <3>1. worker[t] = "off"
      BY <1>b, <2>5 DEF Dismiss, TurnOf
    <3>2. RowMoved(t, "Failed", {})
      BY <1>b, <2>5, MovedRow DEF Moves
    <3>3. UNCHANGED <<turnVars, sent>>
      BY <2>5 DEF Dismiss, Owner, Write
    <3> QED  BY <1>1, <3>1, <3>2, <3>3
  <2>6. CASE Reconcile(t)
    <3>1. \E st, delivered, unstarted : Settled(t, st, delivered, unstarted)
      BY <1>0, <2>6, ReconcileMoves
    <3>2. \E st, b : RowMoved(t, st, b) /\ (b = {} \/ b = batch[t])
      BY <3>1, MovedRow DEF Settled
    <3>3. worker[t] = "off" /\ UNCHANGED <<turnVars, sent>>
      BY <1>b, <2>6 DEF Reconcile, TurnOf, Owner, Write
    <3> QED  BY <1>1, <3>2, <3>3
  <2>7. CASE RecoverRun(t)
    BY <1>0, <2>7 DEF RecoverRun, TurnOf, rowVars, mailVars
  <2> QED
    BY <1>0, <1>2, <2>1, <2>2, <2>3, <2>4, <2>5, <2>6, <2>7, Acceptance DEF Command
<1>3. ASSUME NEW t \in Tasks, Supervise(t) PROVE TurnOf(u)'
  <2>1. CASE LaunchRead(t) \/ LaunchConflict(t) \/ FinishRead(t) \/ FinishConflict(t)
    BY <1>0, <2>1 DEF LaunchRead, LaunchConflict, FinishRead, FinishConflict, TurnOf,
                      rowVars, mailVars, turnVars
  <2>2. CASE LaunchFull(t)
    BY <1>1, <1>b, <2>2, MovedRow DEF Moves, LaunchFull
  <2>3. CASE Prepare(t)
    <3>1. state[t] = "Queued" /\ op.events \subseteq Pending(t)
      BY <1>0, <2>3 DEF Prepare, OpInv
    <3>2. batch[t] = {}
      BY <1>b, <3>1 DEF BatchOf
    <3>3. op.events \cap sent = {}
      <4>1. \A i \in Pending(t) : i \in Ids /\ Place(i) = "pending"
        BY DEF Pending, Waiting, Inserted, Place
      <4> QED  BY <3>1, <4>1 DEF Inv, EventInv, EventOf
    <3>4. \E b : b = op.events /\ RowMoved(t, "Running", b)
      BY <1>b, <2>3, <3>2, MovedRow DEF Moves
    <3>5. /\ worker' = [worker EXCEPT ![t] = "ready"]
          /\ appended' = [appended EXCEPT ![t] = FALSE]
          /\ record' = [record EXCEPT ![t] = NoReceipt] /\ sent' = sent
      BY <2>3 DEF Prepare
    <3> QED  BY <1>0, <1>a, <3>3, <3>4, <3>5 DEF RowMoved, TurnOf, NoReceipt
  <2>4. CASE CancelIdle(t)
    BY <1>1, <1>b, <2>4, MovedRow DEF Moves, CancelIdle
  <2>5. CASE FinishCommit(t)
    <3>1. \E st, b : RowMoved(t, st, b) /\ (b = {} \/ b = batch[t])
      BY <1>0, <2>5, FinishMoves, MovedRow DEF Settled
    <3>2. worker' = [worker EXCEPT ![t] = "off"] /\ UNCHANGED <<appended, record, sent>>
      BY <2>5 DEF FinishCommit
    <3> QED  BY <1>0, <1>a, <3>1, <3>2 DEF RowMoved, TurnOf
  <2>6. CASE StartupRequeue(t)
    <3>1. \E st, b : RowMoved(t, st, b) /\ (b = {} \/ b = batch[t])
      BY <1>0, <2>6, StartupMoves, MovedRow DEF Settled
    <3>2. worker[t] = "off" /\ UNCHANGED <<turnVars, sent>>
      BY <2>6 DEF StartupRequeue, Orphan
    <3> QED  BY <1>1, <3>1, <3>2
  <2>7. CASE StartupUncertain(t)
    <3>1. RowMoved(t, "Uncertain", batch[t])
      BY <1>b, <2>7, MovedRow DEF Moves
    <3>2. worker[t] = "off" /\ UNCHANGED <<turnVars, sent>>
      BY <2>7 DEF StartupUncertain, Orphan
    <3> QED  BY <1>1, <3>1, <3>2
  <2> QED  BY <1>3, <2>1, <2>2, <2>3, <2>4, <2>5, <2>6, <2>7 DEF Supervise
<1>4. ASSUME NEW t \in Tasks, Work(t) PROVE TurnOf(u)'
  <2>0. UNCHANGED <<state, batch>>
    BY <1>4 DEF Work, AppendInput, PrepareRun, StartPrompt, PromptStarted, SettleTurn,
                AbandonTurn, FailTurn, WorkerStep, mailVars, rowVars
  <2>1. u # t => batch[u] \cap batch[t] = {}
    BY <1>b DEF BatchOf
  <2> USE <1>0, <1>a, <2>0, <1>b DEF TurnOf, WorkerStep
  <2>2. CASE AppendInput(t)  BY <2>2 DEF AppendInput
  <2>3. CASE PrepareRun(t)  BY <2>3 DEF PrepareRun
  <2>4. CASE StartPrompt(t)  BY <2>1, <2>4 DEF StartPrompt, NoReceipt
  <2>5. CASE PromptStarted(t)  BY <2>1, <2>5 DEF PromptStarted, NoReceipt
  <2>6. CASE SettleTurn(t)
    <3>a. PICK class \in EndsAs(t), sure \in {TRUE, worker[t] # "sent"} :
              record' = [record EXCEPT ![t] =
                  [sub |-> Submission(t), sure |-> sure, class |-> class]]
      BY <2>6 DEF SettleTurn
    <3>b. PICK r : r = [sub |-> Submission(t), sure |-> sure, class |-> class]
      OBVIOUS
    <3>1. /\ record' = [record EXCEPT ![t] = r] /\ r.sub = Submission(t)
          /\ worker[t] \in {"open", "sending", "sent"}
          /\ worker' = [worker EXCEPT ![t] = "ended"] /\ UNCHANGED <<appended, sent>>
      BY <2>6, <3>a, <3>b DEF SettleTurn
    <3>2. /\ Submission(t) = "no" => worker[t] = "open"
          /\ Submission(t) = "yes" => worker[t] = "sent"
      BY <3>1 DEF Submission
    <3> QED  BY <3>1, <3>2
  <2>7. CASE AbandonTurn(t)  BY <2>7 DEF AbandonTurn, NoReceipt
  <2>8. CASE FailTurn(t)  BY <2>8 DEF FailTurn, NoReceipt
  <2> QED  BY <1>4, <2>2, <2>3, <2>4, <2>5, <2>6, <2>7, <2>8 DEF Work
<1>5. CASE Crash
  BY <1>0, <1>a, <1>5 DEF Crash, TurnOf, rowVars, mailVars
<1>6. CASE UNCHANGED vars
  BY <1>0, <1>6 DEF vars, TurnOf, rowVars, mailVars, turnVars
<1> QED  BY <1>2, <1>3, <1>4, <1>5, <1>6 DEF Next

-----------------------------------------------------------------------------
(* After a transition what is pending has the grade of its task, whatever  *)
(* the transition did to the batch of its own.                             *)
LEMMA MovedGraded ==
    ASSUME NEW t \in Tasks, NEW st, NEW canc, NEW def, NEW b, NEW e,
           Moved(t, st, canc, def, b, e), BatchInv,
           \A i \in Ids : ev[i].task # t => e[i] = status[i],
           NEW u \in Tasks, NEW i \in Pending(u)'
    PROVE  status'[i] = GradeOf(u)'
<1>0. /\ i \in Ids /\ ev' = ev /\ ev[i].task = u /\ i \notin batch'[u]
      /\ status'[i] \in {"queued", "held"}
  BY DEF Pending, Waiting, Inserted, Moved
<1>1. CASE u = t
  <2>1. /\ i \notin b /\ state'[t] = st /\ cancel'[t] = canc /\ deferred'[t] = def
    BY <1>0, <1>1 DEF Moved
  <2>2. GradeOf(t)' = Grade(st, canc, def)
    BY <2>1 DEF GradeOf
  <2>3. \E n : status'[i] = IF ev[i].task = t /\ n \in {"queued", "held"} /\ i \notin b
                            THEN Grade(st, canc, def) ELSE n
    BY <1>0, SMT DEF Moved
  <2> QED  BY <1>0, <1>1, <2>1, <2>2, <2>3
<1>2. CASE u # t
  <2>1. state'[u] = state[u] /\ cancel'[u] = cancel[u] /\ deferred'[u] = deferred[u]
        /\ batch'[u] = batch[u]
    BY <1>2 DEF Moved
  <2>2. GradeOf(u)' = GradeOf(u)
    BY <2>1 DEF GradeOf
  <2>3. status'[i] = GradeOf(u) \/ status'[i] = status[i]
    BY <1>0, <1>2, SMT DEF Moved
  <2>4. status[i] \in {"queued", "held"} => status[i] = GradeOf(u)
    BY <1>0, <2>1 DEF BatchInv, BatchOf, Pending, Waiting, Inserted
  <2> QED  BY <1>0, <2>2, <2>3, <2>4
<1> QED  BY <1>1, <1>2

(* A batch stays of its task and of its turn.                              *)
LEMMA BatchStep == Inv /\ [Next]_vars => BatchInv'
<1> SUFFICES ASSUME Inv, [Next]_vars, NEW u \in Tasks PROVE BatchOf(u)'
  BY DEF BatchInv
<1>0. TypeOK /\ NumberInv /\ OpInv /\ BatchInv /\ BatchOf(u)
  BY DEF Inv, BatchInv
<1>b. ASSUME NEW t \in Tasks PROVE BatchOf(t) /\ TurnOf(t) /\ Moves(t) /\ batch[t] \subseteq Ids
  BY <1>0, ActionMoves DEF Inv, BatchInv, TurnInv, TypeOK
<1>c. \A i \in Ids : status[i] = "waiting" => ev[i].kind = "completion"
  BY DEF Inv, EventInv, EventOf
<1>1. ASSUME NEW t \in Tasks, NEW st, NEW canc, NEW def, NEW b, NEW e,
             Moved(t, st, canc, def, b, e), record' = record,
             b = {} \/ b = batch[t],
             \A i \in Ids : i \notin batch[t] => e[i] = status[i],
             b # {} => /\ st \in {"Running", "Uncertain", "Cancelled"}
                       /\ st = "Cancelled" => record[t].class = "cancelled"
                       /\ \A i \in b : e[i] = IF st = "Running" THEN "prepared" ELSE "held"
      PROVE  BatchOf(u)'
  <2>1. \A i \in Ids : EventMoved(i, t, st, b, e)
    BY <1>1, MovedEvent
  <2>2. RowMoved(t, st, b)
    BY <1>1, MovedRow
  <2>3. \A i \in batch[t] : ev[i].task = t
    BY <1>b DEF BatchOf
  <2>4. \A i \in Pending(u)' : status'[i] = GradeOf(u)'
    <3>1. \A i \in Ids : ev[i].task # t => e[i] = status[i]
      BY <1>1, <2>3
    <3> QED  BY <1>0, <1>1, <3>1, MovedGraded
  <2>5. CASE u = t
    <3>1. \A i \in batch'[u] : ev'[i].task = u /\
              status'[i] = IF state'[u] = "Running" THEN "prepared" ELSE "held"
      BY <1>1, <1>b, <2>1, <2>2, <2>3, <2>5 DEF EventMoved, RowMoved
    <3>2. \A i \in batch'[u], j \in Pending(u)' :
              ev'[j].kind = "completion" \/ ev'[i].seq < ev'[j].seq
      <4> SUFFICES ASSUME NEW i \in batch'[u], NEW j \in Pending(u)', ev[j].kind # "completion"
                   PROVE  ev[i].seq < ev[j].seq
        BY <2>2 DEF RowMoved
      <4>1. b = batch[t] /\ i \in batch[t] /\ batch'[u] = batch[t]
        BY <1>1, <2>2, <2>5 DEF RowMoved
      <4>2. j \in Ids /\ ev[j].task = t /\ j \notin batch[t] /\ status'[j] \in {"queued", "held"}
        BY <2>2, <2>5, <4>1 DEF Pending, Waiting, Inserted, RowMoved
      <4>3. status[j] \in {"queued", "held"}
        BY <1>1, <1>c, <2>1, <4>2 DEF EventMoved
      <4>4. j \in Pending(t)
        BY <4>2, <4>3 DEF Pending, Waiting, Inserted
      <4> QED  BY <1>b, <4>1, <4>4 DEF BatchOf
    <3> QED  BY <1>1, <2>2, <2>4, <2>5, <3>1, <3>2 DEF BatchOf, RowMoved
  <2>6. CASE u # t
    <3>1. batch'[u] = batch[u] /\ state'[u] = state[u] /\ ev' = ev
      BY <2>2, <2>6 DEF RowMoved
    <3>2. \A i \in batch[u] : i \in Ids /\ ev[i].task = u /\ status'[i] = status[i]
      BY <1>0, <1>1, <1>b, <2>1, <2>3, <2>6 DEF BatchOf, EventMoved
    <3>3. \A j \in Pending(u)' : ev[j].kind = "completion" \/ j \in Pending(u)
      BY <1>1, <1>c, <2>1, <2>3, <2>6, <3>1 DEF EventMoved, Pending, Waiting, Inserted
    <3> QED  BY <1>0, <1>1, <2>4, <3>1, <3>2, <3>3 DEF BatchOf
  <2> QED  BY <2>5, <2>6
<1>u. ASSUME NEW t \in Tasks, NEW st
      PROVE  \A i \in Ids :
                 Unchanged(t, st)[i] = IF st = "Uncertain" /\ i \in batch[t] THEN "held" ELSE status[i]
  BY SMT DEF Unchanged, Mark
<1>f. ASSUME NEW t \in Tasks, NEW delivered, NEW unstarted
      PROVE  /\ \A i \in Ids : i \notin batch[t] => Finished(t, delivered, unstarted)[i] = status[i]
             /\ ~delivered /\ ~unstarted =>
                    \A i \in batch[t] : Finished(t, delivered, unstarted)[i] = "held"
  BY <1>b, SMT DEF Finished, Mark
<1>2. ASSUME NEW t \in Tasks, NEW st, NEW delivered, NEW unstarted,
             Settled(t, st, delivered, unstarted), record' = record,
             \/ delivered \/ unstarted \/ batch[t] = {} \/ st = "Uncertain"
             \/ st = "Cancelled" /\ record[t].class = "cancelled"
      PROVE  BatchOf(u)'
  <2>1. PICK b, e : /\ b = IF delivered \/ unstarted THEN {} ELSE batch[t]
                    /\ e = Finished(t, delivered, unstarted)
    OBVIOUS
  <2>2. Moved(t, st, cancel[t], deferred[t], b, e)
    BY <1>2, <2>1 DEF Settled
  <2> QED  BY <1>1, <1>2, <1>f, <2>1, <2>2
<1>3. ASSUME NEW t \in Tasks, NEW st, NEW canc, NEW def, batch[t] = {}, record' = record,
             Moved(t, st, canc, def, batch[t], status)
      PROVE  BatchOf(u)'
  BY <1>1, <1>3
<1>4. ASSUME NEW t \in Tasks, NEW i \in Ids, Accepted(t, i) PROVE BatchOf(u)'
  <2>0. /\ UNCHANGED <<state, cancel, deferred, batch, record>>
        /\ \A j \in Ids : j # i => ev'[j] = ev[j] /\ status'[j] = status[j]
        /\ ev'[i].task = t /\ ev[i] = NoEvent
        /\ \/ status'[i] = GradeOf(t) \/ status'[i] = "waiting"
    BY <1>4 DEF Accepted, rowVars, turnVars
  <2>1. i \notin batch[u]
    BY <1>0, <2>0, NoneAssumption DEF BatchOf, NoEvent
  <2>2. GradeOf(u)' = GradeOf(u)
    BY <2>0 DEF GradeOf
  <2>3. \A j \in Pending(u)' : (j \in Pending(u) /\ j # i) \/ (j = i /\ u = t)
    <3> SUFFICES ASSUME NEW j \in Pending(u)' PROVE (j \in Pending(u) /\ j # i) \/ (j = i /\ u = t)
      OBVIOUS
    <3>1. j \in Ids /\ ev'[j].task = u /\ status'[j] \in {"queued", "held"} /\ j \notin batch[u]
      BY <2>0 DEF Pending, Waiting, Inserted
    <3>2. CASE j = i
      BY <2>0, <3>1, <3>2
    <3>3. CASE j # i
      <4>1. ev[j].task = u /\ status[j] \in {"queued", "held"}
        BY <2>0, <3>1, <3>3
      <4>2. j \in Inserted(u)
        BY <3>1, <4>1 DEF Inserted
      <4>3. j \in Pending(u)
        BY <3>1, <4>1, <4>2 DEF Pending, Waiting
      <4> QED  BY <3>3, <4>3
    <3> QED  BY <3>2, <3>3
  <2>4. \A j \in Pending(u)' : status'[j] = GradeOf(u)'
    BY <1>0, <2>0, <2>2, <2>3 DEF BatchOf, Pending, Waiting, Inserted
  <2>5. \A j \in batch[u] : ev[j] # NoEvent /\ j \in Ids /\ ev'[j] = ev[j] /\ status'[j] = status[j]
    BY <1>0, <1>b, <2>0, <2>1, NoneAssumption DEF BatchOf, NoEvent
  <2>6. \A j \in batch[u] : ev[j].seq < ev'[i].seq
    BY <1>4, <2>5 DEF Accepted
  <2>7. \A j \in batch[u], k \in Pending(u)' :
            ev'[k].kind = "completion" \/ ev'[j].seq < ev'[k].seq
    BY <1>0, <2>0, <2>3, <2>5, <2>6 DEF BatchOf, Pending, Waiting, Inserted
  <2> QED  BY <1>0, <2>0, <2>4, <2>5, <2>7 DEF BatchOf
<1>5. ASSUME NEW t \in Tasks, Command(t) PROVE BatchOf(u)'
  <2>1. CASE CancelTask(t)
    <3>1. state[t] \notin {"Uncertain", "Cancelled"} /\ record' = record
      BY <2>1 DEF CancelTask, Open, Terminal, Closed, Others, Write, turnVars
    <3>2. PICK e : e = Unchanged(t, state[t])
      OBVIOUS
    <3>3. Moved(t, state[t], TRUE, deferred[t], batch[t], e)
      BY <1>b, <2>1, <3>2 DEF Moves
    <3>4. batch[t] # {} => state[t] = "Running" /\ \A i \in batch[t] : status[i] = "prepared"
      BY <1>b, <3>1 DEF BatchOf
    <3>5. \A i \in Ids : e[i] = status[i]
      BY <1>u, <3>1, <3>2
    <3>6. \A i \in batch[t] : e[i] = status[i]
      BY <1>b, <3>5
    <3>7. /\ \A i \in Ids : i \notin batch[t] => e[i] = status[i]
          /\ batch[t] # {} =>
                /\ state[t] \in {"Running", "Uncertain", "Cancelled"}
                /\ state[t] = "Cancelled" => record[t].class = "cancelled"
                /\ \A i \in batch[t] : e[i] = IF state[t] = "Running" THEN "prepared" ELSE "held"
      BY <3>4, <3>5, <3>6
    <3>8. \E canc : canc = TRUE /\ Moved(t, state[t], canc, deferred[t], batch[t], e)
      BY <3>3
    <3> QED  BY <1>1, <3>1, <3>7, <3>8
  <2>2. CASE Release(t)
    <3>1. batch[t] = {} /\ record' = record
      BY <1>b, <2>2 DEF Release, BatchOf, Others, Write, turnVars
    <3> QED  BY <1>3, <1>b, <2>2, <3>1 DEF Moves
  <2>3. CASE Reply(t)
    <3>1. batch[t] = {} /\ record' = record
      BY <1>b, <2>3 DEF Reply, BatchOf, Others, Write, turnVars
    <3> QED  BY <1>3, <1>b, <2>3, <3>1 DEF Moves
  <2>4. CASE Dismiss(t)
    <3>1. record' = record
      BY <2>4 DEF Dismiss, Owner, Write, turnVars
    <3>2. PICK e, b : e = Mark(status, batch[t], "closed") /\ b = {}
      OBVIOUS
    <3>3. Moved(t, "Failed", FALSE, deferred[t], b, e)
      BY <1>b, <2>4, <3>2 DEF Moves
    <3>4. \A i \in Ids : i \notin batch[t] => e[i] = status[i]
      BY <3>2, SMT DEF Mark
    <3> QED  BY <1>1, <3>1, <3>2, <3>3, <3>4
  <2>5. CASE Reconcile(t)
    <3>1. \E st, delivered, unstarted :
              Receipted(t, st, delivered, unstarted) /\ Settled(t, st, delivered, unstarted)
      BY <1>0, <2>5, ReconcileMoves
    <3>2. record' = record
      BY <2>5 DEF Reconcile, Owner, Write, turnVars
    <3> QED  BY <1>2, <3>1, <3>2 DEF Receipted
  <2>6. CASE RecoverRun(t)
    BY <1>0, <2>6
       DEF RecoverRun, BatchOf, Pending, Waiting, Inserted, GradeOf, rowVars, mailVars
  <2> QED
    BY <1>0, <1>4, <1>5, <2>1, <2>2, <2>3, <2>4, <2>5, <2>6, Acceptance DEF Command
<1>6. ASSUME NEW t \in Tasks, Supervise(t) PROVE BatchOf(u)'
  <2>1. CASE LaunchFull(t)
    <3>1. batch[t] = {} /\ record' = record
      BY <1>b, <2>1 DEF LaunchFull, Dispatchable, BatchOf, turnVars
    <3> QED  BY <1>3, <1>b, <2>1, <3>1 DEF Moves
  <2>2. CASE Prepare(t)
    <3>1. /\ state[t] = "Queued" /\ op.events \subseteq Pending(t)
          /\ \A i \in op.events, j \in Pending(t) \ op.events :
                 ev[j].kind = "completion" \/ ev[i].seq < ev[j].seq
      BY <1>0, <2>2 DEF Prepare, OpInv
    <3>2. batch[t] = {}
      BY <1>b, <3>1 DEF BatchOf
    <3>e. PICK e, b : /\ e = Mark(status, op.events, "prepared")
                      /\ b = IF op.events = {} THEN batch[t] ELSE op.events
      OBVIOUS
    <3>3. Moved(t, "Running", FALSE, deferred[t], b, e)
      BY <1>b, <2>2, <3>e DEF Moves
    <3>4. b = op.events /\ \A i \in b : i \in Ids /\ ev[i].task = t
      BY <3>1, <3>2, <3>e DEF Pending, Waiting, Inserted
    <3>5. \A i \in Ids : e[i] = IF i \in b THEN "prepared" ELSE status[i]
      BY <3>4, <3>e, SMT DEF Mark
    <3>6. \A i \in Ids : EventMoved(i, t, "Running", b, e)
      BY <3>3, MovedEvent
    <3>7. RowMoved(t, "Running", b)
      BY <3>3, MovedRow
    <3>8. \A i \in Pending(u)' : status'[i] = GradeOf(u)'
      <4>1. \A i \in Ids : ev[i].task # t => e[i] = status[i]
        BY <3>4, <3>5
      <4> QED  BY <1>0, <3>3, <4>1, MovedGraded
    <3>9. \A i \in b : ev'[i].task = t /\ status'[i] = "prepared"
      BY <3>4, <3>5, <3>6, <3>7 DEF EventMoved, RowMoved
    <3>10. CASE u = t
      <4>1. \A i \in b, j \in Pending(u)' : ev'[j].kind = "completion" \/ ev'[i].seq < ev'[j].seq
        <5> SUFFICES ASSUME NEW i \in b, NEW j \in Pending(u)', ev[j].kind # "completion"
                     PROVE  ev[i].seq < ev[j].seq
          BY <3>7 DEF RowMoved
        <5>1. j \in Ids /\ ev[j].task = t /\ j \notin b /\ status'[j] \in {"queued", "held"}
          BY <3>7, <3>10 DEF Pending, Waiting, Inserted, RowMoved
        <5>2. status[j] \in {"queued", "held"}
          BY <1>c, <3>5, <3>6, <5>1 DEF EventMoved
        <5>3. j \in Pending(t) \ op.events
          BY <3>2, <3>4, <5>1, <5>2 DEF Pending, Waiting, Inserted
        <5> QED  BY <3>1, <3>4, <5>3
      <4> QED  BY <3>7, <3>8, <3>9, <3>10, <4>1 DEF BatchOf, RowMoved
    <3>11. CASE u # t
      <4>1. batch'[u] = batch[u] /\ state'[u] = state[u] /\ ev' = ev /\ record'[u] = record[u]
        BY <2>2, <3>7, <3>11 DEF RowMoved, Prepare
      <4>2. \A i \in batch[u] : i \in Ids /\ ev[i].task = u /\ status'[i] = status[i]
        BY <1>0, <1>b, <3>4, <3>5, <3>6, <3>11 DEF BatchOf, EventMoved
      <4>3. \A j \in Pending(u)' : ev[j].kind = "completion" \/ j \in Pending(u)
        BY <1>c, <3>4, <3>5, <3>6, <3>11, <4>1 DEF EventMoved, Pending, Waiting, Inserted
      <4> QED  BY <1>0, <3>8, <4>1, <4>2, <4>3 DEF BatchOf
    <3> QED  BY <3>10, <3>11
  <2>3. CASE CancelIdle(t)
    <3>1. batch[t] = {} /\ record' = record
      BY <1>b, <2>3 DEF CancelIdle, BatchOf, turnVars
    <3>2. PICK e : e = Unchanged(t, "Cancelled")
      OBVIOUS
    <3>3. Moved(t, "Cancelled", FALSE, FALSE, batch[t], e)
      BY <1>b, <2>3, <3>2 DEF Moves
    <3>4. \A i \in Ids : e[i] = status[i]
      BY <1>u, <3>2
    <3> QED  BY <1>1, <3>1, <3>3, <3>4
  <2>4. CASE FinishCommit(t)
    <3>1. Settled(t, op.state, op.delivered, op.unstarted)
      BY <1>0, <2>4, FinishMoves
    <3>2. /\ \/ op.delivered \/ op.unstarted \/ batch[t] = {} \/ op.state = "Uncertain"
             \/ op.state = "Cancelled" /\ record[t].class = "cancelled"
          /\ record' = record
      BY <1>0, <2>4 DEF FinishCommit, OpInv
    <3> QED  BY <1>2, <3>1, <3>2
  <2>5. CASE StartupRequeue(t)
    <3>1. record' = record
      BY <2>5 DEF StartupRequeue, turnVars
    <3> QED  BY <1>0, <1>2, <2>5, <3>1, StartupMoves
  <2>6. CASE StartupUncertain(t)
    <3>1. record' = record
      BY <2>6 DEF StartupUncertain, turnVars
    <3>2. PICK e : e = Unchanged(t, "Uncertain")
      OBVIOUS
    <3>3. Moved(t, "Uncertain", cancel[t], deferred[t], batch[t], e)
      BY <1>b, <2>6, <3>2 DEF Moves
    <3>4. \A i \in Ids : e[i] = IF i \in batch[t] THEN "held" ELSE status[i]
      BY <1>u, <3>2
    <3>5. \A i \in batch[t] : e[i] = "held"
      BY <1>b, <3>4
    <3> QED  BY <1>1, <3>1, <3>3, <3>4, <3>5
  <2>7. CASE LaunchRead(t) \/ LaunchConflict(t) \/ FinishRead(t) \/ FinishConflict(t)
    BY <1>0, <2>7 DEF LaunchRead, LaunchConflict, FinishRead, FinishConflict, BatchOf,
                      Pending, Waiting, Inserted, GradeOf, rowVars, mailVars, turnVars
  <2> QED  BY <1>6, <2>1, <2>2, <2>3, <2>4, <2>5, <2>6, <2>7 DEF Supervise
<1>7. ASSUME NEW t \in Tasks, Work(t) PROVE BatchOf(u)'
  <2>1. /\ UNCHANGED <<rowVars, mailVars>>
        /\ \/ record' = record
           \/ state[t] = "Running" /\ \E r : record' = [record EXCEPT ![t] = r]
    <3>1. worker[t] # "off" => state[t] = "Running"
      BY <1>b DEF TurnOf
    <3> QED
      BY <1>7, <3>1 DEF Work, AppendInput, PrepareRun, StartPrompt, PromptStarted, SettleTurn,
                        AbandonTurn, FailTurn, WorkerStep
  <2>2. state[u] = "Cancelled" => record'[u] = record[u]
    BY <1>0, <2>1 DEF TypeOK
  <2> QED
    BY <1>0, <2>1, <2>2 DEF BatchOf, Pending, Waiting, Inserted, GradeOf, rowVars, mailVars
<1>8. CASE Crash \/ UNCHANGED vars
  BY <1>0, <1>8 DEF Crash, vars, BatchOf, Pending, Waiting, Inserted, GradeOf, rowVars, mailVars,
                    turnVars
<1> QED  BY <1>5, <1>6, <1>7, <1>8 DEF Next

-----------------------------------------------------------------------------
(* The inputs hold every event once, and none that goes into a later turn. *)
LEMMA StageStep == Inv /\ [Next]_vars => StageInv'
<1> SUFFICES ASSUME Inv, [Next]_vars, NEW u \in Tasks PROVE StageOf(u)'
  BY DEF StageInv
<1>0. TypeOK /\ NumberInv /\ OpInv /\ BatchInv /\ StageOf(u)
  BY DEF Inv, StageInv
<1>b. ASSUME NEW t \in Tasks
      PROVE  /\ BatchOf(t) /\ Moves(t) /\ StageOf(t) /\ batch[t] \subseteq Ids
             /\ inputs[t] \in Seq(SUBSET Ids)
  BY <1>0, ActionMoves DEF Inv, BatchInv, StageInv, TypeOK
<1>c. inputs \in [Tasks -> Seq(SUBSET Ids)]
  BY <1>0 DEF TypeOK
<1>d. ASSUME NEW t \in Tasks, NEW n \in DOMAIN inputs[t], NEW i \in inputs[t][n]
      PROVE  i \in Ids
  BY <1>b, ElementOfSeq, LenProperties
<1>1. ASSUME NEW t \in Tasks, NEW st, NEW canc, NEW def, NEW b, NEW e,
             Moved(t, st, canc, def, b, e),
             b = {} \/ (b = batch[t] /\ inputs'[t] = inputs[t]),
             \A i \in Ids : i \notin batch[t] => e[i] = status[i],
             \A i \in batch[t] : e[i] # "waiting",
             \A v \in Tasks : v # t => inputs'[v] = inputs[v],
             DOMAIN inputs'[t] \subseteq DOMAIN inputs[t],
             \A n \in DOMAIN inputs'[t] : inputs'[t][n] = inputs[t][n],
             \A n \in DOMAIN inputs'[t] : \A i \in inputs'[t][n] :
                 i \in batch[t] => i \in b \/ e[i] \notin {"queued", "held"}
      PROVE  StageOf(u)'
  <2>1. \A i \in Ids : EventMoved(i, t, st, b, e)
    BY <1>1, MovedEvent
  <2>2. RowMoved(t, st, b)
    BY <1>1, MovedRow
  <2>3. \A i \in batch[t] : ev[i].task = t
    BY <1>b DEF BatchOf
  <2>4. ASSUME NEW n \in DOMAIN inputs'[u], NEW i \in inputs'[u][n]
        PROVE  /\ n \in DOMAIN inputs[u] /\ i \in inputs[u][n] /\ i \in Ids
               /\ ev[i].task = u /\ status[i] # "waiting" /\ i \notin Pending(u)
               /\ \A m \in DOMAIN inputs[u] : i \in inputs[u][m] => m = n
    <3>1. n \in DOMAIN inputs[u] /\ i \in inputs[u][n]
      BY <1>1, <2>4
    <3> QED  BY <1>0, <1>d, <3>1 DEF StageOf
  <2>5. ASSUME NEW n \in DOMAIN inputs'[u], NEW i \in inputs'[u][n]
        PROVE  status'[i] # "waiting" /\ i \notin Pending(u)'
    <3>1. e[i] # "waiting"
      BY <1>1, <2>4, <2>5
    <3>2. \/ status'[i] = e[i]
          \/ /\ status'[i] \in {"queued", "held", "closed"}
             /\ ev[i].task = t /\ i \notin b /\ e[i] \in {"queued", "held"}
      BY <2>1, <2>4, <2>5, <3>1 DEF EventMoved
    <3>3. i \notin batch[u] => status[i] \notin {"queued", "held"}
      BY <2>4, <2>5 DEF Pending, Waiting, Inserted
    <3>4. CASE i \in batch[t]
      <4>1. u = t /\ (i \in b \/ e[i] \notin {"queued", "held"})
        BY <1>1, <2>3, <2>4, <2>5, <3>4
      <4> QED  BY <2>2, <3>1, <3>2, <4>1 DEF Pending, Waiting, RowMoved
    <3>5. CASE i \notin batch[t] /\ i \in batch[u]
      <4>1. u # t /\ i \in batch'[u] /\ status'[i] = status[i]
        BY <1>1, <2>2, <2>4, <2>5, <3>2, <3>5 DEF RowMoved
      <4> QED  BY <2>4, <2>5, <4>1 DEF Pending, Waiting
    <3>6. CASE i \notin batch[t] /\ i \notin batch[u]
      <4>1. e[i] = status[i] /\ status'[i] = status[i]
        BY <1>1, <2>4, <2>5, <3>2, <3>3, <3>6
      <4> QED  BY <2>4, <2>5, <3>3, <3>6, <4>1 DEF Pending, Waiting
    <3> QED  BY <3>4, <3>5, <3>6
  <2>6. \A n \in DOMAIN inputs'[u] : \A i \in inputs'[u][n] :
            \A m \in DOMAIN inputs'[u] : i \in inputs'[u][m] => m = n
    BY <1>1, <2>4
  <2>7. batch'[u] # {} => inputs'[u] # <<>> /\ inputs'[u][Len(inputs'[u])] = batch'[u]
    <3>1. batch'[u] # {} => batch'[u] = batch[u] /\ inputs'[u] = inputs[u]
      BY <1>1, <2>2 DEF RowMoved
    <3> QED  BY <1>0, <3>1 DEF StageOf
  <2> QED  BY <2>2, <2>4, <2>5, <2>6, <2>7 DEF StageOf, RowMoved
<1>u. ASSUME NEW t \in Tasks, NEW st
      PROVE  \A i \in Ids :
                 Unchanged(t, st)[i] = IF st = "Uncertain" /\ i \in batch[t] THEN "held" ELSE status[i]
  BY SMT DEF Unchanged, Mark
<1>w. \A t \in Tasks : \A i \in batch[t] : i \in Ids /\ status[i] \in {"prepared", "held"}
  BY <1>b DEF BatchOf
<1>2. ASSUME NEW t \in Tasks, NEW st, NEW canc, NEW def, inputs' = inputs,
             Moved(t, st, canc, def, batch[t], Unchanged(t, st))
      PROVE  StageOf(u)'
  <2>1. PICK e : e = Unchanged(t, st)
    OBVIOUS
  <2>2. Moved(t, st, canc, def, batch[t], e)
    BY <1>2, <2>1
  <2>3. /\ \A i \in Ids : i \notin batch[t] => e[i] = status[i]
        /\ \A i \in batch[t] : e[i] # "waiting"
    BY <1>u, <1>w, <2>1
  <2> QED  BY <1>1, <1>2, <2>2, <2>3
<1>3. ASSUME NEW t \in Tasks, NEW st, NEW canc, NEW def, inputs' = inputs,
             Moved(t, st, canc, def, batch[t], status)
      PROVE  StageOf(u)'
  <2>1. \A i \in batch[t] : status[i] # "waiting"
    BY <1>w
  <2> QED  BY <1>1, <1>3, <2>1
<1>4. ASSUME NEW t \in Tasks, NEW st, NEW delivered, NEW unstarted,
             Settled(t, st, delivered, unstarted)
      PROVE  StageOf(u)'
  <2>1. PICK b, e : /\ b = IF delivered \/ unstarted THEN {} ELSE batch[t]
                    /\ e = Finished(t, delivered, unstarted)
    OBVIOUS
  <2>2. Moved(t, st, cancel[t], deferred[t], b, e)
    BY <1>4, <2>1 DEF Settled
  <2>3. \A i \in Ids : e[i] = IF i \in batch[t]
                              THEN IF delivered THEN "delivered"
                                   ELSE IF unstarted THEN "queued" ELSE "held"
                              ELSE status[i]
    BY <2>1, SMT DEF Finished, Mark
  <2>4. PICK p : p = Popped(t, delivered, unstarted)
    OBVIOUS
  <2>5. inputs' = [inputs EXCEPT ![t] = p]
    BY <1>4, <2>4 DEF Settled
  <2>6. inputs'[t] = p /\ \A v \in Tasks : v # t => inputs'[v] = inputs[v]
    BY <1>c, <2>5
  <2>7. /\ DOMAIN inputs[t] = 1 .. Len(inputs[t]) /\ Len(inputs[t]) \in Nat
        /\ DOMAIN p \subseteq DOMAIN inputs[t]
        /\ \A n \in DOMAIN p : p[n] = inputs[t][n]
        /\ (unstarted /\ ~delivered /\ batch[t] # {} /\ inputs[t] # <<>>
            /\ inputs[t][Len(inputs[t])] = batch[t])
               => DOMAIN p = 1 .. (Len(inputs[t]) - 1)
    BY <1>0, <2>4, PoppedEffect
  <2>8. ASSUME unstarted, ~delivered, NEW n \in DOMAIN p, NEW i \in p[n]
        PROVE  i \notin batch[t]
    <3> SUFFICES ASSUME i \in batch[t] PROVE FALSE
      OBVIOUS
    <3>1. inputs[t] # <<>> /\ inputs[t][Len(inputs[t])] = batch[t]
      BY <1>b DEF StageOf
    <3>2. DOMAIN p = 1 .. (Len(inputs[t]) - 1)
      BY <2>7, <2>8, <3>1
    <3>3. n \in DOMAIN inputs[t] /\ i \in inputs[t][n]
      BY <2>7, <2>8
    <3>4. Len(inputs[t]) \in DOMAIN inputs[t]
      BY <2>7, <2>8, <3>2
    <3>5. n = Len(inputs[t])
      BY <1>b, <3>1, <3>3, <3>4 DEF StageOf
    <3> QED  BY <2>7, <2>8, <3>2, <3>5
  <2>9. b = {} \/ (b = batch[t] /\ inputs'[t] = inputs[t])
    BY <2>1, <2>4, <2>6 DEF Popped
  <2>10. \A n \in DOMAIN inputs'[t] : \A i \in inputs'[t][n] :
             i \in batch[t] => i \in b \/ e[i] \notin {"queued", "held"}
    BY <1>b, <2>1, <2>3, <2>6, <2>8
  <2>11. /\ \A i \in Ids : i \notin batch[t] => e[i] = status[i]
         /\ \A i \in batch[t] : e[i] # "waiting"
    BY <1>w, <2>3
  <2> QED  BY <1>1, <2>2, <2>6, <2>7, <2>9, <2>10, <2>11
<1>5. ASSUME NEW t \in Tasks, NEW i \in Ids, Accepted(t, i) PROVE StageOf(u)'
  <2>0. /\ UNCHANGED <<batch, inputs>>
        /\ \A j \in Ids : j # i => ev'[j] = ev[j] /\ status'[j] = status[j]
        /\ ev[i] = NoEvent
    BY <1>5 DEF Accepted, rowVars
  <2>1. \A n \in DOMAIN inputs[u] : \A j \in inputs[u][n] :
            j \in Ids /\ j # i /\ ev'[j] = ev[j] /\ status'[j] = status[j]
    BY <1>0, <1>d, <2>0, NoneAssumption DEF StageOf, NoEvent
  <2>2. \A j \in Ids : j # i => (j \in Pending(u)' <=> j \in Pending(u))
    BY <2>0 DEF Pending, Waiting, Inserted
  <2> QED  BY <1>0, <2>0, <2>1, <2>2 DEF StageOf
<1>6. ASSUME NEW t \in Tasks, Command(t) PROVE StageOf(u)'
  <2>1. CASE CancelTask(t)
    BY <1>2, <1>b, <2>1 DEF Moves, CancelTask
  <2>2. CASE Release(t)
    BY <1>3, <1>b, <2>2 DEF Moves, Release
  <2>3. CASE Reply(t)
    <3>1. batch[t] = {}
      BY <1>b, <2>3 DEF Reply, BatchOf
    <3>2. PICK p : p = Append(inputs[t], {})
      OBVIOUS
    <3>3. inputs'[t] = p /\ \A v \in Tasks : v # t => inputs'[v] = inputs[v]
      BY <1>c, <2>3, <3>2 DEF Reply
    <3>4. /\ DOMAIN p = 1 .. (Len(inputs[t]) + 1) /\ DOMAIN inputs[t] = 1 .. Len(inputs[t])
          /\ Len(inputs[t]) \in Nat
          /\ \A n \in DOMAIN inputs[t] : p[n] = inputs[t][n]
          /\ p[Len(inputs[t]) + 1] = {}
      BY <1>b, <3>2, InputsAppend
    <3>5. RowMoved(t, "Queued", batch[t])
      BY <1>b, <2>3, MovedRow DEF Moves
    <3>6. \A i \in Ids : EventMoved(i, t, "Queued", batch[t], status)
      BY <1>b, <2>3, MovedEvent DEF Moves
    <3>7. \A n \in DOMAIN inputs'[u] : \A i \in inputs'[u][n] :
              n \in DOMAIN inputs[u] /\ i \in inputs[u][n] /\ i \in Ids
      <4>1. \A n \in DOMAIN p : \A i \in p[n] : n \in DOMAIN inputs[t]
        BY <3>4
      <4> QED  BY <1>d, <3>3, <3>4, <4>1
    <3>8. \A n \in DOMAIN inputs[u] : inputs'[u][n] = inputs[u][n]
      BY <3>3, <3>4
    <3>9. \A n \in DOMAIN inputs'[u] : \A i \in inputs'[u][n] :
              status'[i] # "waiting" /\ i \notin Pending(u)'
      <4> SUFFICES ASSUME NEW n \in DOMAIN inputs'[u], NEW i \in inputs'[u][n]
                   PROVE  status'[i] # "waiting" /\ i \notin Pending(u)'
        OBVIOUS
      <4>1. i \in Ids /\ ev[i].task = u /\ status[i] # "waiting" /\ i \notin Pending(u)
        BY <1>0, <3>7 DEF StageOf
      <4>2. status'[i] = status[i] \/ (u = t /\ status[i] \in {"queued", "held"})
        BY <3>6, <4>1 DEF EventMoved
      <4>3. batch'[u] = batch[u] /\ ev' = ev
        BY <3>5 DEF RowMoved
      <4> QED  BY <3>1, <4>1, <4>2, <4>3 DEF Pending, Waiting, Inserted
    <3>10. batch'[u] # {} => u # t /\ batch'[u] = batch[u] /\ inputs'[u] = inputs[u]
      BY <3>1, <3>3, <3>5 DEF RowMoved
    <3> QED  BY <1>0, <3>5, <3>7, <3>8, <3>9, <3>10 DEF StageOf, RowMoved
  <2>4. CASE Dismiss(t)
    <3>2. PICK e, b, c : e = Mark(status, batch[t], "closed") /\ b = {} /\ c = FALSE
      OBVIOUS
    <3>3. Moved(t, "Failed", c, deferred[t], b, e) /\ inputs' = inputs
      BY <1>b, <2>4, <3>2 DEF Moves, Dismiss
    <3>4. \A i \in Ids : e[i] = IF i \in batch[t] THEN "closed" ELSE status[i]
      BY <3>2, SMT DEF Mark
    <3>5. \A i \in batch[t] : e[i] = "closed"
      BY <1>w, <3>4
    <3>6. /\ \A i \in Ids : i \notin batch[t] => e[i] = status[i]
          /\ \A i \in batch[t] : e[i] # "waiting" /\ e[i] \notin {"queued", "held"}
      BY <3>4, <3>5
    <3>7. /\ DOMAIN inputs'[t] \subseteq DOMAIN inputs[t]
          /\ \A n \in DOMAIN inputs'[t] : inputs'[t][n] = inputs[t][n]
          /\ \A v \in Tasks : v # t => inputs'[v] = inputs[v]
      BY <3>3
    <3>8. \A n \in DOMAIN inputs'[t] : \A i \in inputs'[t][n] :
              i \in batch[t] => i \in b \/ e[i] \notin {"queued", "held"}
      BY <3>6
    <3>9. \A i \in batch[t] : e[i] # "waiting"
      BY <3>6
    <3>10. b = {}
      BY <3>2
    <3> QED  BY <1>1, <3>3, <3>6, <3>7, <3>8, <3>9, <3>10
  <2>5. CASE Reconcile(t)
    BY <1>0, <1>4, <2>5, ReconcileMoves
  <2>6. CASE RecoverRun(t)
    BY <1>0, <2>6 DEF RecoverRun, StageOf, Pending, Waiting, Inserted, rowVars, mailVars
  <2> QED
    BY <1>0, <1>5, <1>6, <2>1, <2>2, <2>3, <2>4, <2>5, <2>6, Acceptance DEF Command
<1>7. ASSUME NEW t \in Tasks, Supervise(t) PROVE StageOf(u)'
  <2>1. CASE LaunchFull(t)
    BY <1>3, <1>b, <2>1 DEF Moves, LaunchFull
  <2>2. CASE Prepare(t)
    <3>1. state[t] = "Queued" /\ op.events \subseteq Pending(t) /\ op.events \in SUBSET Ids
      BY <1>0, <2>2 DEF Prepare, OpInv, Op
    <3>2. batch[t] = {}
      BY <1>b, <3>1 DEF BatchOf
    <3>e. PICK e, b : /\ e = Mark(status, op.events, "prepared")
                      /\ b = IF op.events = {} THEN batch[t] ELSE op.events
      OBVIOUS
    <3>3. Moved(t, "Running", FALSE, deferred[t], b, e)
      BY <1>b, <2>2, <3>e DEF Moves
    <3>4. b = op.events /\ \A i \in b : i \in Ids /\ ev[i].task = t /\ i \in Pending(t)
      BY <3>1, <3>2, <3>e DEF Pending, Waiting, Inserted
    <3>5. \A i \in Ids : e[i] = IF i \in b THEN "prepared" ELSE status[i]
      BY <3>4, <3>e, SMT DEF Mark
    <3>6. \A i \in Ids : EventMoved(i, t, "Running", b, e)
      BY <3>3, MovedEvent
    <3>7. RowMoved(t, "Running", b)
      BY <3>3, MovedRow
    <3>8. CASE b = {}
      <4>1. inputs' = inputs /\ b = batch[t]
        BY <1>c, <2>2, <3>2, <3>4, <3>8 DEF Prepare
      <4>2. \A i \in Ids : e[i] = status[i]
        BY <3>5, <3>8
      <4> QED  BY <1>1, <3>2, <3>3, <3>8, <4>1, <4>2
    <3>9. CASE b # {}
      <4>1. PICK p : p = Append(inputs[t], b)
        OBVIOUS
      <4>2. inputs'[t] = p /\ \A v \in Tasks : v # t => inputs'[v] = inputs[v]
        BY <1>c, <2>2, <3>4, <3>9, <4>1 DEF Prepare
      <4>3. /\ p # <<>> /\ Len(p) = Len(inputs[t]) + 1 /\ Len(inputs[t]) \in Nat
            /\ DOMAIN p = 1 .. (Len(inputs[t]) + 1) /\ DOMAIN inputs[t] = 1 .. Len(inputs[t])
            /\ \A n \in DOMAIN inputs[t] : p[n] = inputs[t][n]
            /\ p[Len(inputs[t]) + 1] = b
        BY <1>b, <3>1, <3>4, <4>1, InputsAppend
      <4>4. ASSUME NEW n \in DOMAIN inputs[u], NEW i \in inputs[u][n]
            PROVE  /\ i \in Ids /\ ev[i].task = u /\ i \notin b
                   /\ status'[i] # "waiting" /\ i \notin Pending(u)'
        <5>1. i \in Ids /\ ev[i].task = u /\ status[i] # "waiting" /\ i \notin Pending(u)
          BY <1>0, <1>d, <4>4 DEF StageOf
        <5>2. i \notin b
          BY <3>4, <5>1
        <5>3. \/ status'[i] = status[i] \/ (u = t /\ status[i] \in {"queued", "held"})
          BY <3>5, <3>6, <5>1, <5>2 DEF EventMoved
        <5>4. ev' = ev /\ (u # t => batch'[u] = batch[u])
          BY <3>7 DEF RowMoved
        <5>5. status[i] \notin {"queued", "held"} \/ (i \in batch[u] /\ u # t)
          BY <3>2, <5>1 DEF Pending, Waiting, Inserted
        <5> QED  BY <5>1, <5>2, <5>3, <5>4, <5>5 DEF Pending, Waiting, Inserted
      <4>5. CASE u # t
        BY <1>0, <3>7, <4>2, <4>4, <4>5 DEF StageOf, RowMoved
      <4>6. CASE u = t
        <5>1. \A i \in b : /\ ev[i].task = t /\ status'[i] = "prepared"
                           /\ \A n \in DOMAIN inputs[t] : i \notin inputs[t][n]
          BY <3>4, <3>5, <3>6, <4>4, <4>6 DEF EventMoved
        <5>2. \A n \in DOMAIN p : n \in DOMAIN inputs[t] \/ n = Len(inputs[t]) + 1
          BY <4>3
        <5>3. \A n \in DOMAIN p : \A i \in p[n] :
                  /\ ev[i].task = t /\ status'[i] # "waiting" /\ i \notin Pending(t)'
                  /\ \A m \in DOMAIN p : i \in p[m] => m = n
          <6> SUFFICES ASSUME NEW n \in DOMAIN p, NEW i \in p[n]
                       PROVE  /\ ev[i].task = t /\ status'[i] # "waiting" /\ i \notin Pending(t)'
                              /\ \A m \in DOMAIN p : i \in p[m] => m = n
            OBVIOUS
          <6>1. CASE n = Len(inputs[t]) + 1
            BY <4>3, <5>1, <5>2, <6>1 DEF Pending, Waiting
          <6>2. CASE n \in DOMAIN inputs[t]
            <7>1. i \in inputs[t][n]
              BY <4>3, <6>2
            <7>2. i \notin b /\ status'[i] # "waiting" /\ i \notin Pending(t)' /\ ev[i].task = t
              BY <4>4, <4>6, <6>2, <7>1
            <7>3. \A m \in DOMAIN inputs[t] : i \in inputs[t][m] => m = n
              BY <1>b, <6>2, <7>1 DEF StageOf
            <7> QED  BY <4>3, <5>2, <7>2, <7>3
          <6> QED  BY <5>2, <6>1, <6>2
        <5>4. batch'[t] = b /\ ev' = ev
          BY <3>7 DEF RowMoved
        <5> QED  BY <4>2, <4>3, <4>6, <5>3, <5>4 DEF StageOf
      <4> QED  BY <4>5, <4>6
    <3> QED  BY <3>8, <3>9
  <2>3. CASE CancelIdle(t)
    BY <1>2, <1>b, <2>3 DEF Moves, CancelIdle
  <2>4. CASE FinishCommit(t)
    BY <1>0, <1>4, <2>4, FinishMoves
  <2>5. CASE StartupRequeue(t)
    BY <1>0, <1>4, <2>5, StartupMoves
  <2>6. CASE StartupUncertain(t)
    BY <1>2, <1>b, <2>6 DEF Moves, StartupUncertain
  <2>7. CASE LaunchRead(t) \/ LaunchConflict(t) \/ FinishRead(t) \/ FinishConflict(t)
    BY <1>0, <2>7 DEF LaunchRead, LaunchConflict, FinishRead, FinishConflict, StageOf,
                      Pending, Waiting, Inserted, rowVars, mailVars
  <2> QED  BY <1>7, <2>1, <2>2, <2>3, <2>4, <2>5, <2>6, <2>7 DEF Supervise
<1>8. ASSUME NEW t \in Tasks, Work(t) PROVE StageOf(u)'
  <2>1. UNCHANGED <<rowVars, mailVars>>
    BY <1>8 DEF Work, AppendInput, PrepareRun, StartPrompt, PromptStarted, SettleTurn,
                AbandonTurn, FailTurn, WorkerStep
  <2> QED  BY <1>0, <2>1 DEF StageOf, Pending, Waiting, Inserted, rowVars, mailVars
<1>9. CASE Crash \/ UNCHANGED vars
  BY <1>0, <1>9 DEF Crash, vars, StageOf, Pending, Waiting, Inserted, rowVars, mailVars
<1> QED  BY <1>6, <1>7, <1>8, <1>9 DEF Next

-----------------------------------------------------------------------------
(* Whoever is idle has read nothing.                                       *)
LEMMA OpIdle ==
    ASSUME op' = Idle, stale' = FALSE, stamped' = FALSE
    PROVE  OpInv'
BY DEF OpInv, Op, Idle

(* A write by another: the row of the operation keeps its turn, the events *)
(* of a launch stay in front, and every event of it that changes is seen.  *)
LEMMA OpWrite ==
    ASSUME Inv, EventInv', TypeOK', Write,
           \A i \in Ids : ev[i] # NoEvent => ev'[i] = ev[i],
           op.kind = "finish" => state'[op.t] = state[op.t] /\ batch'[op.t] = batch[op.t],
           op.kind = "launch" /\ ~stale' =>
               /\ op.events \subseteq Pending(op.t)'
               /\ \A i \in op.events, j \in Pending(op.t)' \ op.events :
                      ev'[j].kind = "completion" \/ ev'[i].seq < ev'[j].seq
    PROVE  OpInv'
<1>0. OpInv /\ TypeOK /\ EventInv
  BY DEF Inv
<1>1. UNCHANGED <<op, worker, appended, record>> /\ stale' \in BOOLEAN /\ stamped' \in BOOLEAN
  BY <1>0 DEF Write, turnVars, OpInv
<1>2. /\ ~stale' => ~stale /\ \A t \in Tasks : op.t = t =>
             state'[t] = state[t] /\ cancel'[t] = cancel[t] /\ deferred'[t] = deferred[t]
      /\ ~stamped' => ~stamped /\ \A i \in Ids : ev'[i].task = op.t =>
             ev'[i] = ev[i] /\ status'[i] = status[i]
  BY <1>0 DEF Write, OpInv
<1>3. op.kind = "none" => op = Idle /\ ~stale' /\ ~stamped'
  <2> SUFFICES ASSUME op.kind = "none" PROVE op = Idle /\ ~stale' /\ ~stamped'
    OBVIOUS
  <2>1. op = Idle /\ ~stale /\ ~stamped /\ op.t = None
    BY <1>0 DEF OpInv, Idle
  <2>2. ~stale'
    BY <2>1, NoneAssumption DEF Write
  <2>3. ASSUME NEW i \in Ids, ev'[i].task = None
        PROVE  ev'[i] = ev[i] /\ status'[i] = status[i]
    <3>1. ev'[i] = NoEvent
      <4>1. ev'[i] \in Event \cup {NoEvent}  BY DEF TypeOK
      <4> QED  BY <2>3, <4>1, NoneAssumption DEF Event
    <3>2. ev[i] = NoEvent
      BY <3>1
    <3> QED  BY <1>0, <3>1, <3>2 DEF EventInv, EventOf
  <2> QED  BY <2>1, <2>2, <2>3 DEF Write
<1>4. op.kind = "finish" /\ ~stamped' /\ batch'[op.t] = batch[op.t]
          => Pending(op.t)' \subseteq Pending(op.t)
  BY <1>1, <1>2 DEF Pending, Waiting, Inserted
<1>5. CASE op.kind = "none"
  BY <1>0, <1>1, <1>3, <1>5 DEF OpInv
<1>6. CASE op.kind = "launch"
  <2>1. op.t \in Tasks  BY <1>0, <1>6 DEF OpInv
  <2> QED  BY <1>0, <1>1, <1>2, <1>6, <2>1 DEF OpInv
<1>7. CASE op.kind = "finish"
  <2>1. op.t \in Tasks  BY <1>0, <1>7 DEF OpInv
  <2>2. (op.state = "Completed" /\ ~stale' /\ ~stamped' /\ ~cancel'[op.t])
            => Pending(op.t)' = {}
    BY <1>0, <1>2, <1>4, <1>7, <2>1 DEF OpInv
  <2> QED  BY <1>0, <1>1, <1>7, <2>1, <2>2 DEF OpInv
<1> QED  BY <1>0, <1>5, <1>6, <1>7 DEF OpInv, Op

(* What the supervisor read stays true unless it is told.                  *)
LEMMA OpStep == Inv /\ [Next]_vars => OpInv'
<1> SUFFICES ASSUME Inv, [Next]_vars PROVE OpInv'
  OBVIOUS
<1>0. TypeOK /\ NumberInv /\ OpInv /\ BatchInv /\ EventInv /\ TypeOK' /\ EventInv' /\ BatchInv'
  BY TypeStep, EventStep, BatchStep DEF Inv
<1>b. ASSUME NEW t \in Tasks PROVE BatchOf(t) /\ TurnOf(t) /\ Moves(t) /\ batch[t] \subseteq Ids
  BY <1>0, ActionMoves DEF Inv, BatchInv, TurnInv, TypeOK
<1>c. \A i \in Ids : status[i] = "waiting" => ev[i].kind = "completion"
  BY DEF Inv, EventInv, EventOf
<1>o. op.kind \in {"none", "launch", "finish"}
      /\ (op.kind # "none" => op.t \in Tasks) /\ op.events \subseteq Ids
  BY <1>0 DEF OpInv, Op
<1>1. ASSUME NEW t \in Tasks, NEW st, NEW b, NEW e, Write, RowMoved(t, st, b),
             \A i \in Ids : EventMoved(i, t, st, b, e),
             \A i \in Ids : i \notin batch[t] => e[i] = status[i],
             op.kind = "launch" /\ op.t = t => stale',
             op.kind = "finish" /\ op.t = t => st = state[t] /\ b = batch[t]
      PROVE  OpInv'
  <2>1. ev' = ev
    BY <1>1 DEF RowMoved
  <2>2. op.kind = "finish" => state'[op.t] = state[op.t] /\ batch'[op.t] = batch[op.t]
    BY <1>1, <1>o DEF RowMoved
  <2>3. ASSUME op.kind = "launch", ~stale'
        PROVE  /\ op.events \subseteq Pending(op.t)'
               /\ \A i \in op.events, j \in Pending(op.t)' \ op.events :
                      ev'[j].kind = "completion" \/ ev'[i].seq < ev'[j].seq
    <3>1. op.t \in Tasks /\ op.t # t /\ ~stale /\ op' = op
      BY <1>0, <1>1, <1>o, <2>3 DEF Write, OpInv
    <3>2. batch'[op.t] = batch[op.t]
      BY <1>1, <3>1 DEF RowMoved
    <3>3. \A i \in Ids : ev[i].task = op.t => e[i] = status[i]
      BY <1>1, <1>b, <3>1 DEF BatchOf
    <3>4. \A i \in Ids : ev[i].task = op.t => status'[i] = status[i] \/ status[i] = "waiting"
      BY <1>1, <3>1, <3>3 DEF EventMoved
    <3>5. Pending(op.t) \subseteq Pending(op.t)'
      BY <2>1, <3>1, <3>2, <3>4 DEF Pending, Waiting, Inserted
    <3>6. \A j \in Pending(op.t)' : j \in Pending(op.t) \/ ev'[j].kind = "completion"
      BY <1>c, <2>1, <3>1, <3>2, <3>4 DEF Pending, Waiting, Inserted
    <3> QED  BY <1>0, <2>1, <2>3, <3>1, <3>5, <3>6 DEF OpInv
  <2> QED  BY <1>0, <1>1, <2>1, <2>2, <2>3, OpWrite
<1>2. ASSUME NEW t \in Tasks, NEW i \in Ids, Accepted(t, i) PROVE OpInv'
  <2>1. /\ \A j \in Ids : j # i => ev'[j] = ev[j] /\ status'[j] = status[j]
        /\ ev[i] = NoEvent /\ status[i] = "none" /\ batch' = batch /\ state' = state /\ Write
        /\ \A j \in Ids : ev[j] # NoEvent => ev[j].seq < ev'[i].seq
        /\ op' = op
    BY <1>0, <1>2 DEF Accepted, rowVars, EventInv, EventOf, Write
  <2>2. ASSUME op.kind = "launch", ~stale'
        PROVE  /\ op.events \subseteq Pending(op.t)'
               /\ \A j \in op.events, k \in Pending(op.t)' \ op.events :
                      ev'[k].kind = "completion" \/ ev'[j].seq < ev'[k].seq
    <3>1. /\ op.t \in Tasks /\ op.events \subseteq Pending(op.t)
          /\ \A j \in op.events, k \in Pending(op.t) \ op.events :
                 ev[k].kind = "completion" \/ ev[j].seq < ev[k].seq
      BY <1>0, <2>1, <2>2 DEF OpInv, Write
    <3>2. \A j \in Pending(op.t) :
              j \in Ids /\ j # i /\ j \in Pending(op.t)' /\ ev'[j] = ev[j] /\ ev[j] # NoEvent
      BY <1>0, <2>1 DEF Pending, Waiting, Inserted, EventInv, EventOf
    <3>3. \A k \in Pending(op.t)' : k = i \/ k \in Pending(op.t)
      BY <2>1 DEF Pending, Waiting, Inserted
    <3> QED  BY <2>1, <3>1, <3>2, <3>3
  <2> QED  BY <1>0, <2>1, <2>2, OpWrite
<1>u. ASSUME NEW t \in Tasks, NEW st, st # "Uncertain"
      PROVE  \A i \in Ids : Unchanged(t, st)[i] = status[i]
  BY <1>u DEF Unchanged
<1>3. ASSUME NEW t \in Tasks, Command(t) PROVE OpInv'
  <2>1. CASE CancelTask(t)
    <3>1. PICK e : e = Unchanged(t, state[t])
      OBVIOUS
    <3>2. RowMoved(t, state[t], batch[t]) /\ \A i \in Ids : EventMoved(i, t, state[t], batch[t], e)
      BY <1>b, <2>1, <3>1, MovedRow, MovedEvent DEF Moves
    <3>3. \A i \in Ids : e[i] = status[i]
      BY <1>u, <2>1, <3>1 DEF CancelTask, Open, Terminal
    <3>4. Write
      BY <2>1 DEF CancelTask, Others
    <3>5. cancel'[t] = TRUE /\ ~cancel[t]
      BY <1>0, <2>1 DEF CancelTask, Open, Transition, TypeOK
    <3>6. op.t = t => stale'
      BY <3>4, <3>5 DEF Write
    <3> QED  BY <1>1, <3>2, <3>3, <3>4, <3>6
  <2>2. CASE Release(t)
    <3>1. RowMoved(t, "Queued", batch[t]) /\ \A i \in Ids : EventMoved(i, t, "Queued", batch[t], status)
      BY <1>b, <2>2, MovedRow, MovedEvent DEF Moves
    <3>2. Write /\ deferred[t] /\ state[t] = "Queued"
      BY <2>2 DEF Release, Others
    <3>3. op.kind = "launch" /\ op.t = t => stale
      BY <1>0, <3>2 DEF OpInv
    <3>4. op.kind = "launch" /\ op.t = t => stale'
      BY <3>2, <3>3 DEF Write
    <3>5. op.kind = "finish" => op.t # t
      BY <1>0, <3>2 DEF OpInv
    <3> QED  BY <1>1, <3>1, <3>2, <3>4, <3>5
  <2>3. CASE Reply(t)
    <3>1. RowMoved(t, "Queued", batch[t]) /\ \A i \in Ids : EventMoved(i, t, "Queued", batch[t], status)
      BY <1>b, <2>3, MovedRow, MovedEvent DEF Moves
    <3>2. Write /\ state[t] \notin {"Queued", "Running"}
      BY <2>3 DEF Reply, Others
    <3>3. op.kind = "launch" /\ op.t = t => stale
      BY <1>0, <3>2 DEF OpInv
    <3>4. op.kind = "launch" /\ op.t = t => stale'
      BY <3>2, <3>3 DEF Write
    <3>5. op.kind = "finish" => op.t # t
      BY <1>0, <3>2 DEF OpInv
    <3> QED  BY <1>1, <3>1, <3>2, <3>4, <3>5
  <2>4. CASE Dismiss(t)
    <3>1. PICK e, b : e = Mark(status, batch[t], "closed") /\ b = {}
      OBVIOUS
    <3>2. RowMoved(t, "Failed", b) /\ \A i \in Ids : EventMoved(i, t, "Failed", b, e)
      BY <1>b, <2>4, <3>1, MovedRow, MovedEvent DEF Moves
    <3>3. \A i \in Ids : i \notin batch[t] => e[i] = status[i]
      BY <3>1, SMT DEF Mark
    <3>4. Write /\ state[t] = "Uncertain"
      BY <2>4 DEF Dismiss, Owner
    <3>5. op.kind = "launch" /\ op.t = t => stale
      BY <1>0, <3>4 DEF OpInv
    <3>6. op.kind = "launch" /\ op.t = t => stale'
      BY <3>4, <3>5 DEF Write
    <3>7. op.kind = "finish" => op.t # t
      BY <1>0, <3>4 DEF OpInv
    <3> QED  BY <1>1, <3>2, <3>3, <3>4, <3>6, <3>7
  <2>5. CASE Reconcile(t)
    <3>0. PICK st \in TaskState, delivered, unstarted \in BOOLEAN :
              Settled(t, st, delivered, unstarted)
      BY <1>0, <2>5, ReconcileMoves
    <3>1. PICK e, b : /\ b = IF delivered \/ unstarted THEN {} ELSE batch[t]
                      /\ e = Finished(t, delivered, unstarted)
      OBVIOUS
    <3>m. Moved(t, st, cancel[t], deferred[t], b, e)
      BY <3>0, <3>1 DEF Settled
    <3>2. RowMoved(t, st, b) /\ \A i \in Ids : EventMoved(i, t, st, b, e)
      BY <3>m, MovedRow, MovedEvent
    <3>3. \A i \in Ids : i \notin batch[t] => e[i] = status[i]
      BY <3>1, SMT DEF Finished, Mark
    <3>4. Write /\ state[t] = "Uncertain"
      BY <2>5 DEF Reconcile, Owner
    <3>5. op.kind = "launch" /\ op.t = t => stale
      BY <1>0, <3>4 DEF OpInv
    <3>6. op.kind = "launch" /\ op.t = t => stale'
      BY <3>4, <3>5 DEF Write
    <3>7. op.kind = "finish" => op.t # t
      BY <1>0, <3>4 DEF OpInv
    <3> QED  BY <1>1, <3>2, <3>3, <3>4, <3>6, <3>7
  <2>6. CASE RecoverRun(t)
    BY <1>0, <2>6
       DEF RecoverRun, OpInv, Pending, Waiting, Inserted, rowVars, mailVars, opVars
  <2> QED
    BY <1>0, <1>2, <1>3, <2>1, <2>2, <2>3, <2>4, <2>5, <2>6, Acceptance DEF Command
<1>4. ASSUME NEW t \in Tasks, Supervise(t) PROVE OpInv'
  <2>1. CASE LaunchRead(t)
    <3>1. PICK S \in Prefix(t) :
              op' = [kind |-> "launch", t |-> t, events |-> S, state |-> "none",
                     delivered |-> FALSE, unstarted |-> FALSE]
      BY <2>1 DEF LaunchRead
    <3>2. /\ UNCHANGED <<rowVars, mailVars, turnVars, stale, stamped>>
          /\ state[t] = "Queued" /\ ~cancel[t] /\ ~deferred[t] /\ op = Idle
      BY <2>1 DEF LaunchRead, Dispatchable
    <3>3. S \subseteq Pending(t) /\ Cardinality(S) <= MaxBatch /\ S \in SUBSET Ids
      BY DEF Prefix, Pending, Waiting, Inserted
    <3>4. \A i \in S, j \in Pending(t) \ S : ev[i].seq < ev[j].seq
      <4> SUFFICES ASSUME NEW i \in S, NEW j \in Pending(t) \ S PROVE ev[i].seq < ev[j].seq
        OBVIOUS
      <4>1. ~(ev[j].seq < ev[i].seq)
        BY DEF Prefix, Before
      <4>2. i \in Known /\ j \in Known /\ i # j
        BY <1>0, <3>3 DEF Pending, Waiting, Inserted, EventInv, EventOf, Known
      <4>3. ev[i] \in Event /\ ev[j] \in Event
        BY <1>0, <4>2 DEF Known, TypeOK
      <4>4. ev[i].seq \in Nat /\ ev[j].seq \in Nat
        BY <4>3 DEF Event
      <4>5. ev[i].seq # ev[j].seq
        BY <1>0, <4>2 DEF NumberInv
      <4> QED  BY <4>1, <4>4, <4>5
    <3>5. Pending(t)' = Pending(t)
      BY <3>2 DEF Pending, Waiting, Inserted, mailVars
    <3>6. /\ op'.kind = "launch" /\ op'.t = t /\ op'.events = S /\ op' \in Op
      BY <3>1, <3>3 DEF Op
    <3>7. stale' = stale /\ stamped' = stamped /\ stale \in BOOLEAN /\ stamped \in BOOLEAN
      BY <1>0, <3>2 DEF OpInv
    <3> QED  BY <3>2, <3>3, <3>4, <3>5, <3>6, <3>7 DEF OpInv, rowVars, mailVars
  <2>2. CASE LaunchFull(t) \/ CancelIdle(t) \/ StartupRequeue(t) \/ StartupUncertain(t)
    <3>1. op = Idle /\ UNCHANGED opVars
      BY <2>2 DEF LaunchFull, CancelIdle, StartupRequeue, StartupUncertain, Orphan
    <3>2. op' = Idle /\ stale' = FALSE /\ stamped' = FALSE
      BY <1>0, <3>1 DEF opVars, OpInv, Idle
    <3> QED  BY <3>2, OpIdle
  <2>3. CASE Prepare(t) \/ LaunchConflict(t) \/ FinishCommit(t) \/ FinishConflict(t)
    BY <2>3, OpIdle DEF Prepare, LaunchConflict, FinishCommit, FinishConflict, Finish
  <2>4. CASE FinishRead(t)
    <3>1. PICK st \in (IF lost[t] THEN Errors(t) ELSE Outcomes(t)) :
              op' = [kind |-> "finish", t |-> t, events |-> {}, state |-> st,
                     delivered |-> Delivered(t), unstarted |-> Unstarted(t)]
      BY <2>4 DEF FinishRead
    <3>2. /\ UNCHANGED <<rowVars, mailVars, turnVars, stale, stamped>>
          /\ state[t] = "Running" /\ worker[t] \in {"off", "ended"}
      BY <2>4 DEF FinishRead
    <3>3. st \in TaskState
      BY <3>1 DEF Errors, Outcomes, TaskState, Terminal, Closed
    <3>4. /\ Delivered(t) \in BOOLEAN /\ Unstarted(t) \in BOOLEAN
          /\ Delivered(t) => appended[t] /\ record[t].sub = "yes"
          /\ Unstarted(t) => ~appended[t] \/ record[t].sub = "no"
      BY <1>0 DEF Delivered, Unstarted, TypeOK
    <3>5. \/ Delivered(t) \/ Unstarted(t) \/ batch[t] = {} \/ st = "Uncertain"
          \/ st = "Cancelled" /\ record[t].class = "cancelled"
      BY <3>1 DEF Errors, Outcomes
    <3>6. st = "Completed" /\ ~cancel[t] => Pending(t) = {}
      BY <3>1 DEF Errors, Outcomes
    <3>7. Pending(t)' = Pending(t)
      BY <3>2 DEF Pending, Waiting, Inserted, mailVars
    <3>8. /\ op'.kind = "finish" /\ op'.t = t /\ op'.state = st
          /\ op'.delivered = Delivered(t) /\ op'.unstarted = Unstarted(t)
      BY <3>1
    <3>9. op' \in Op
      BY <3>1, <3>3, <3>4 DEF Op
    <3>10. stale' = stale /\ stamped' = stamped /\ stale \in BOOLEAN /\ stamped \in BOOLEAN
      BY <1>0, <3>2 DEF OpInv
    <3> QED
      BY <3>2, <3>3, <3>4, <3>5, <3>6, <3>7, <3>8, <3>9, <3>10
         DEF OpInv, rowVars, mailVars, turnVars
  <2> QED  BY <1>4, <2>1, <2>2, <2>3, <2>4 DEF Supervise
<1>5. ASSUME NEW t \in Tasks, Work(t) PROVE OpInv'
  <2>1. /\ UNCHANGED <<rowVars, mailVars, opVars>> /\ worker[t] \notin {"off", "ended"}
        /\ \A u \in Tasks : u # t => /\ worker'[u] = worker[u] /\ appended'[u] = appended[u]
                                     /\ record'[u] = record[u]
    BY <1>0, <1>5 DEF Work, AppendInput, PrepareRun, StartPrompt, PromptStarted, SettleTurn,
                AbandonTurn, FailTurn, WorkerStep, TypeOK
  <2>2. op.kind = "finish" => op.t # t /\ op.t \in Tasks
    BY <1>0, <2>1 DEF OpInv
  <2> QED
    BY <1>0, <2>1, <2>2 DEF OpInv, Pending, Waiting, Inserted, rowVars, mailVars, opVars
<1>6. CASE Crash
  BY <1>6, OpIdle DEF Crash, Finish
<1>7. CASE UNCHANGED vars
  BY <1>0, <1>7
     DEF vars, OpInv, Pending, Waiting, Inserted, rowVars, mailVars, turnVars, opVars
<1> QED  BY <1>3, <1>4, <1>5, <1>6, <1>7 DEF Next

-----------------------------------------------------------------------------
(* All parts together are inductive, and hold in every reachable state.    *)
LEMMA Inductive == Spec => []Inv
<1>1. Inv /\ [Next]_vars => Inv'
  BY TypeStep, NumberStep, EventStep, BatchStep, TurnStep, StageStep, OpStep DEF Inv
<1> QED  BY InitInv, <1>1, PTL DEF Spec

(* The tables hold what they may hold, and no batch exceeds its limit.     *)
THEOREM TypeCorrect == Spec => []TypeOK
<1>1. Inv => TypeOK
  BY DEF Inv
<1> QED  BY Inductive, <1>1, PTL

(* A batch belongs to one turn, it is prepared while that runs and held    *)
(* when nobody knows, and it is in front of the guidance that waits: the   *)
(* invariant the settlement of a turn (managed_inbox.rs) relies on.        *)
THEOREM BatchesAreKept == Spec => []BatchCustody
<1>1. Inv => BatchCustody
  <2> SUFFICES ASSUME Inv PROVE BatchCustody
    OBVIOUS
  <2>0. BatchInv /\ EventInv /\ TypeOK
    BY DEF Inv
  <2>1. ASSUME NEW i \in Ids, status[i] = "prepared" PROVE \E t \in Tasks : i \in batch[t]
    <3>1. i \in batch[ev[i].task] /\ ev[i] # NoEvent
      BY <2>0, <2>1 DEF EventInv, EventOf
    <3>2. ev[i] \in Event
      BY <2>0, <3>1 DEF TypeOK
    <3> QED  BY <3>1, <3>2 DEF Event
  <2>2. \A t \in Tasks, i \in Ids :
           i \in batch[t] =>
               /\ ev[i].task = t
               /\ state[t] \in {"Running", "Uncertain", "Cancelled"}
               /\ state[t] = "Cancelled" => record[t].class = "cancelled"
               /\ status[i] = IF state[t] = "Running" THEN "prepared" ELSE "held"
    BY <2>0 DEF BatchInv, BatchOf
  <2>3. \A t \in Tasks : \A i \in batch[t], j \in Pending(t) :
            ev[j].kind = "completion" \/ ev[i].seq < ev[j].seq
    BY <2>0 DEF BatchInv, BatchOf
  <2> QED  BY <2>1, <2>2, <2>3 DEF BatchCustody
<1> QED  BY Inductive, <1>1, PTL

(* Every writer of a row regrades the events that are pending on it, and   *)
(* no report waits for a source that has closed (complete_watch).          *)
THEOREM EventsFollow == Spec => []EventsFollowTasks
<1>1. Inv => EventsFollowTasks
  BY DEF Inv, EventInv, EventOf, BatchInv, BatchOf, EventsFollowTasks
<1> QED  BY Inductive, <1>1, PTL

(* No prompt of a task repeats the text of an event: it is staged once and *)
(* leaves the inputs when it goes back to the queue.                       *)
THEOREM StagedAtMostOnce == Spec => []StagedOnce
<1>1. Inv => StagedOnce
  <2> SUFFICES ASSUME Inv, NEW t \in Tasks, NEW i \in Inserted(t)
               PROVE  LET at == {n \in DOMAIN inputs[t] : i \in inputs[t][n]}
                      IN /\ Cardinality(at) <= 1
                         /\ i \in Pending(t) \/ status[i] = "waiting" => at = {}
    BY DEF StagedOnce
  <2> DEFINE at == {n \in DOMAIN inputs[t] : i \in inputs[t][n]}
  <2>0. StageOf(t)
    BY DEF Inv, StageInv
  <2>1. \A n, m \in at : n = m
    BY <2>0 DEF StageOf
  <2>2. at = {} \/ \E n : at = {n}
    BY <2>1
  <2>3. Cardinality(at) <= 1
    <3> HIDE DEF at
    <3>1. at = {} => Cardinality(at) = 0  BY FS_EmptySet
    <3>2. (\E n : at = {n}) => Cardinality(at) = 1  BY FS_Singleton
    <3> QED  BY <2>2, <3>1, <3>2
  <2>4. i \in Pending(t) \/ status[i] = "waiting" => at = {}
    BY <2>0 DEF StageOf
  <2> QED  BY <2>3, <2>4
<1> QED  BY Inductive, <1>1, PTL

-----------------------------------------------------------------------------
(* Guidance accepted while the settlement of its turn was being judged is  *)
(* not closed by it: the commit needs the row and the stamp of the events  *)
(* that it was decided from (Change::Finish).                              *)
THEOREM NoGuidanceDropped == Spec => GuidanceNotDropped
<1>1. ASSUME Inv, [Next]_vars, NEW u \in Tasks,
             state[u] = "Running", state'[u] = "Completed", ~cancel[u]
      PROVE  Pending(u) = {}
  <2>0. TypeOK /\ OpInv /\ NumberInv
    BY <1>1 DEF Inv
  <2>1. \A t \in Tasks : Moves(t)
    BY <2>0, ActionMoves
  <2>2. ASSUME NEW t \in Tasks, NEW st, NEW b, RowMoved(t, st, b), st # "Completed" \/ t # u
        PROVE  FALSE
    BY <1>1, <2>2 DEF RowMoved
  <2>3. ASSUME NEW t \in Tasks, Command(t) PROVE FALSE
    <3>1. ASSUME NEW i \in Ids, Accepted(t, i) PROVE FALSE
      BY <1>1, <3>1 DEF Accepted, rowVars
    <3>2. CASE CancelTask(t)
      <4>1. t = u => state[t] # "Completed"
        BY <1>1
      <4>2. RowMoved(t, state[t], batch[t])
        BY <2>1, <3>2, MovedRow DEF Moves
      <4> QED  BY <2>2, <4>1, <4>2
    <3>3. CASE Release(t)
      <4>1. \E b : RowMoved(t, "Queued", b)
        BY <2>1, <3>3, MovedRow DEF Moves
      <4> QED  BY <2>2, <4>1
    <3>4. CASE Reply(t)
      <4>1. \E b : RowMoved(t, "Queued", b)
        BY <2>1, <3>4, MovedRow DEF Moves
      <4> QED  BY <2>2, <4>1
    <3>5. CASE Dismiss(t)
      <4>1. \E b : RowMoved(t, "Failed", b)
        BY <2>1, <3>5, MovedRow DEF Moves
      <4> QED  BY <2>2, <4>1
    <3>6. CASE Reconcile(t)
      <4>1. \E st, b : RowMoved(t, st, b)
        BY <2>0, <3>6, ReconcileMoves, MovedRow DEF Settled
      <4>2. t # u
        BY <1>1, <3>6 DEF Reconcile
      <4> QED  BY <2>2, <4>1, <4>2
    <3>7. CASE RecoverRun(t)
      BY <1>1, <3>7 DEF RecoverRun, rowVars
    <3> QED
      BY <2>0, <2>3, <3>1, <3>2, <3>3, <3>4, <3>5, <3>6, <3>7, Acceptance DEF Command
  <2>4. ASSUME NEW t \in Tasks, Supervise(t) PROVE Pending(u) = {}
    <3>1. CASE LaunchFull(t)
      <4>1. \E b : RowMoved(t, "NeedsInput", b)
        BY <2>1, <3>1, MovedRow DEF Moves
      <4> QED  BY <2>2, <4>1
    <3>2. CASE Prepare(t)
      <4>1. \E b : RowMoved(t, "Running", b)
        BY <2>1, <3>2, MovedRow DEF Moves
      <4> QED  BY <2>2, <4>1
    <3>3. CASE CancelIdle(t)
      <4>1. \E b : RowMoved(t, "Cancelled", b)
        BY <2>1, <3>3, MovedRow DEF Moves
      <4> QED  BY <2>2, <4>1
    <3>4. CASE FinishCommit(t)
      <4>1. \E b : RowMoved(t, op.state, b)
        BY <2>0, <3>4, FinishMoves, MovedRow DEF Settled
      <4>2. t = u /\ op.state = "Completed"
        BY <2>2, <4>1
      <4> QED  BY <1>1, <2>0, <3>4, <4>2 DEF FinishCommit, StampCurrent, OpInv
    <3>5. CASE StartupRequeue(t)
      <4>1. \E b : RowMoved(t, "Queued", b)
        BY <2>0, <3>5, StartupMoves, MovedRow DEF Settled
      <4> QED  BY <2>2, <4>1
    <3>6. CASE StartupUncertain(t)
      <4>1. \E b : RowMoved(t, "Uncertain", b)
        BY <2>1, <3>6, MovedRow DEF Moves
      <4> QED  BY <2>2, <4>1
    <3>7. CASE LaunchRead(t) \/ LaunchConflict(t) \/ FinishRead(t) \/ FinishConflict(t)
      BY <1>1, <3>7 DEF LaunchRead, LaunchConflict, FinishRead, FinishConflict, rowVars
    <3> QED  BY <2>4, <3>1, <3>2, <3>3, <3>4, <3>5, <3>6, <3>7 DEF Supervise
  <2>5. ASSUME NEW t \in Tasks, Work(t) PROVE FALSE
    BY <1>1, <2>5 DEF Work, AppendInput, PrepareRun, StartPrompt, PromptStarted, SettleTurn,
                      AbandonTurn, FailTurn, WorkerStep, rowVars
  <2>6. ASSUME Crash \/ UNCHANGED vars PROVE FALSE
    BY <1>1, <2>6 DEF Crash, vars, rowVars
  <2> QED  BY <1>1, <2>3, <2>4, <2>5, <2>6 DEF Next
<1>2. Inv /\ [Next]_vars =>
          [\A t \in Tasks : state[t] = "Running" /\ state'[t] = "Completed" /\ ~cancel[t]
               => Pending(t) = {}]_vars
  BY <1>1
<1> QED  BY Inductive, <1>2, PTL DEF Spec, GuidanceNotDropped

-----------------------------------------------------------------------------
(* The mailbox that senders see.                                           *)
StepOf(i) ==
    \/ Place(i)' = Place(i)
    \/ Place(i) = "none"    /\ Place(i)' \in {"pending", "closed"}
    \/ Place(i) = "pending" /\ Place(i)' \in {"out", "closed"}
    \/ Place(i) = "out"     /\ Place(i)' = "pending" /\ i \notin sent
    \/ Place(i) = "out"     /\ Place(i)' = "acked"   /\ i \in sent
    \/ Place(i) = "out"     /\ Place(i)' = "closed"

(* What a transition does to one event, seen from its sender.              *)
LEMMA MovedPlace ==
    ASSUME Inv, NEW i \in Ids, NEW t \in Tasks, NEW st, NEW b, NEW e,
           RowMoved(t, st, b), EventMoved(i, t, st, b, e),
           b = {} \/ b = batch[t], i \notin batch[t] => e[i] = status[i],
           i \in batch[t] => \/ b = batch[t] /\ e[i] \in {"prepared", "held"}
                             \/ b = {} /\ e[i] = "delivered" /\ i \in sent
                             \/ b = {} /\ e[i] = "queued" /\ i \notin sent
                             \/ e[i] = "closed"
    PROVE  StepOf(i)
<1>0. TypeOK /\ EventOf(i) /\ BatchOf(t)
  BY DEF Inv, EventInv, BatchInv
<1>1. status[i] \in Status \cup {"none"} /\ (status[i] # "none" => ev[i].task \in Tasks)
  BY <1>0 DEF EventOf, TypeOK, Event
<1>2. ev' = ev
  BY DEF RowMoved
<1>3. CASE i \in batch[t]
  <2>1. ev[i].task = t /\ status[i] \in {"prepared", "held"} /\ Place(i) = "out"
    BY <1>0, <1>3 DEF BatchOf, Place
  <2> QED  BY <1>2, <1>3, <2>1 DEF RowMoved, EventMoved, StepOf, Place
<1>4. CASE i \notin batch[t]
  <2>1. e[i] = status[i] /\ (ev[i].task = t => i \notin batch'[t])
    BY <1>4 DEF RowMoved
  <2>2. ev[i].task \in Tasks => (i \in batch'[ev[i].task] <=> i \in batch[ev[i].task])
    BY <1>4, <2>1 DEF RowMoved
  <2>3. CASE status'[i] = status[i]
    BY <1>1, <1>2, <2>2, <2>3 DEF StepOf, Place
  <2>4. CASE status'[i] # status[i]
    <3>1. /\ status'[i] \in {"queued", "held", "closed"}
          /\ \/ ev[i].task = t /\ status[i] \in {"queued", "held"}
             \/ status[i] = "waiting"
      BY <2>1, <2>4 DEF EventMoved
    <3>2. ev[i].task \in Tasks
      BY <1>1, <3>1
    <3>3. CASE i \in batch[ev[i].task]
      <4>1. status[i] # "waiting"
        BY <3>2, <3>3 DEF Inv, BatchInv, BatchOf
      <4> QED  BY <1>4, <3>1, <3>3, <4>1
    <3>4. CASE i \notin batch[ev[i].task]
      BY <1>2, <2>2, <3>1, <3>2, <3>4 DEF StepOf, Place
    <3> QED  BY <3>3, <3>4
  <2> QED  BY <2>3, <2>4
<1> QED  BY <1>3, <1>4

(* Every step of the inbox is a step of the mailbox or leaves it alone.    *)
LEMMA MailboxStep == Inv /\ [Next]_vars => [Mail!Next]_<<[i \in Ids |-> Place(i)], sent>>
<1> SUFFICES ASSUME Inv, [Next]_vars
             PROVE  [Mail!Next]_<<[i \in Ids |-> Place(i)], sent>>
  OBVIOUS
<1>0. TypeOK /\ NumberInv /\ OpInv /\ BatchInv /\ EventInv /\ TypeOK' /\ EventInv'
  BY TypeStep, EventStep DEF Inv
<1>b. ASSUME NEW t \in Tasks PROVE BatchOf(t) /\ TurnOf(t) /\ Moves(t) /\ batch[t] \subseteq Ids
  BY <1>0, ActionMoves DEF Inv, BatchInv, TurnInv, TypeOK
<1>p. \A i \in Ids : Place(i) \in Mail!Place /\ Place(i)' \in Mail!Place
  BY DEF Place, Mail!Place
<1>1. ASSUME \A i \in Ids : StepOf(i), sent' = sent
      PROVE  [Mail!Next]_<<[i \in Ids |-> Place(i)], sent>>
  BY <1>1, <1>p DEF Mail!Next, Mail!Move, Mail!Step, StepOf
<1>2. ASSUME UNCHANGED mailVars, NEW t \in Tasks, sent' \in {sent, sent \cup batch[t]},
             batch[t] \subseteq sent \/ batch[t] \cap sent = {}
      PROVE  [Mail!Next]_<<[i \in Ids |-> Place(i)], sent>>
  <2>1. \A i \in Ids : Place(i)' = Place(i)
    BY <1>2 DEF Place, mailVars
  <2>2. CASE sent' = sent
    BY <2>1, <2>2
  <2>3. CASE sent' # sent
    <3>1. batch[t] # {} /\ batch[t] \cap sent = {} /\ sent' = sent \cup batch[t]
      BY <1>2, <2>3
    <3>2. \A i \in batch[t] : i \in Ids /\ Place(i) = "out"
      BY <1>b DEF BatchOf, Place
    <3> QED  BY <2>1, <3>1, <3>2 DEF Mail!Next, Mail!Hand
  <2> QED  BY <2>2, <2>3
<1>w. \A t \in Tasks : \A i \in batch[t] :
          i \in Ids /\ status[i] \in {"prepared", "held"} /\ ev[i].task = t
  BY <1>b DEF BatchOf
<1>3. ASSUME NEW t \in Tasks, NEW st, NEW canc, NEW def,
             \/ Moved(t, st, canc, def, batch[t], Unchanged(t, st))
             \/ Moved(t, st, canc, def, batch[t], status),
             sent' = sent
      PROVE  [Mail!Next]_<<[i \in Ids |-> Place(i)], sent>>
  <2>1. PICK e : /\ e \in {Unchanged(t, st), status}
                 /\ Moved(t, st, canc, def, batch[t], e)
    BY <1>3
  <2>2. \A i \in Ids : e[i] = status[i] \/ (i \in batch[t] /\ e[i] = "held")
    BY <2>1, SMT DEF Unchanged, Mark
  <2>3. RowMoved(t, st, batch[t]) /\ \A i \in Ids : EventMoved(i, t, st, batch[t], e)
    BY <2>1, MovedRow, MovedEvent
  <2>4. ASSUME NEW i \in Ids PROVE StepOf(i)
    <3>1. i \notin batch[t] => e[i] = status[i]
      BY <2>2
    <3>2. i \in batch[t] => e[i] \in {"prepared", "held"}
      BY <1>w, <2>2
    <3> QED  BY <2>3, <3>1, <3>2, MovedPlace
  <2> QED  BY <1>1, <1>3, <2>4
<1>4. ASSUME NEW t \in Tasks, NEW st, NEW delivered, NEW unstarted,
             Settled(t, st, delivered, unstarted), Truthful(t, delivered, unstarted),
             sent' = sent
      PROVE  [Mail!Next]_<<[i \in Ids |-> Place(i)], sent>>
  <2>1. PICK b, e : /\ b = IF delivered \/ unstarted THEN {} ELSE batch[t]
                    /\ e = Finished(t, delivered, unstarted)
    OBVIOUS
  <2>2. Moved(t, st, cancel[t], deferred[t], b, e)
    BY <1>4, <2>1 DEF Settled
  <2>3. \A i \in Ids : e[i] = IF i \in batch[t]
                              THEN IF delivered THEN "delivered"
                                   ELSE IF unstarted THEN "queued" ELSE "held"
                              ELSE status[i]
    BY <2>1, SMT DEF Finished, Mark
  <2>4. RowMoved(t, st, b) /\ \A i \in Ids : EventMoved(i, t, st, b, e)
    BY <2>2, MovedRow, MovedEvent
  <2>5. b = {} \/ b = batch[t]
    BY <2>1
  <2>6. ASSUME NEW i \in Ids PROVE StepOf(i)
    <3>1. i \notin batch[t] => e[i] = status[i]
      BY <2>3
    <3>2. i \in batch[t] => \/ b = batch[t] /\ e[i] \in {"prepared", "held"}
                            \/ b = {} /\ e[i] = "delivered" /\ i \in sent
                            \/ b = {} /\ e[i] = "queued" /\ i \notin sent
                            \/ e[i] = "closed"
      BY <1>4, <2>1, <2>3 DEF Truthful
    <3> QED  BY <2>4, <2>5, <3>1, <3>2, MovedPlace
  <2> QED  BY <1>1, <1>4, <2>6
<1>5. ASSUME NEW t \in Tasks, Command(t)
      PROVE  [Mail!Next]_<<[i \in Ids |-> Place(i)], sent>>
  <2>1. ASSUME NEW i \in Ids, Accepted(t, i)
        PROVE  [Mail!Next]_<<[j \in Ids |-> Place(j)], sent>>
    <3>0. /\ \A j \in Ids : j # i => ev'[j] = ev[j] /\ status'[j] = status[j]
          /\ batch' = batch /\ sent' = sent /\ ev[i] = NoEvent /\ ev'[i].task = t
          /\ status'[i] \in {"queued", "held", "closed", "waiting"}
      BY <2>1, GradeType DEF Accepted, GradeOf
    <3>1. status[i] = "none" /\ i \notin batch[t]
      BY <1>0, <1>w, <3>0, NoneAssumption DEF EventInv, EventOf, NoEvent
    <3>2. StepOf(i)
      BY <3>0, <3>1 DEF StepOf, Place
    <3>3. \A j \in Ids : j # i => StepOf(j)
      BY <3>0 DEF StepOf, Place
    <3> QED  BY <1>1, <3>0, <3>2, <3>3
  <2>2. CASE CancelTask(t)
    BY <1>3, <1>b, <2>2 DEF Moves, CancelTask, Others, Write
  <2>3. CASE Release(t)
    BY <1>3, <1>b, <2>3 DEF Moves, Release, Others, Write
  <2>4. CASE Reply(t)
    BY <1>3, <1>b, <2>4 DEF Moves, Reply, Others, Write
  <2>5. CASE Dismiss(t)
    <3>1. PICK e, b : e = Mark(status, batch[t], "closed") /\ b = {}
      OBVIOUS
    <3>2. RowMoved(t, "Failed", b) /\ \A i \in Ids : EventMoved(i, t, "Failed", b, e)
      BY <1>b, <2>5, <3>1, MovedRow, MovedEvent DEF Moves
    <3>3. \A i \in Ids : e[i] = IF i \in batch[t] THEN "closed" ELSE status[i]
      BY <3>1, SMT DEF Mark
    <3>4. ASSUME NEW i \in Ids PROVE StepOf(i)
      <4>1. (i \notin batch[t] => e[i] = status[i]) /\ (i \in batch[t] => e[i] = "closed")
        BY <3>3
      <4> QED  BY <3>1, <3>2, <4>1, MovedPlace
    <3>5. sent' = sent
      BY <2>5 DEF Dismiss, Owner, Write
    <3> QED  BY <1>1, <3>4, <3>5
  <2>6. CASE Reconcile(t)
    <3>1. \E st, delivered, unstarted :
              Settled(t, st, delivered, unstarted) /\ Truthful(t, delivered, unstarted)
      BY <1>0, <2>6, ReconcileMoves, SettlementIsTruthful
    <3>2. sent' = sent
      BY <2>6 DEF Reconcile, Owner, Write
    <3> QED  BY <1>4, <3>1, <3>2
  <2>7. CASE RecoverRun(t)
    BY <1>2, <1>b, <2>7 DEF RecoverRun, TurnOf
  <2> QED
    BY <1>0, <1>5, <2>1, <2>2, <2>3, <2>4, <2>5, <2>6, <2>7, Acceptance DEF Command
<1>6. ASSUME NEW t \in Tasks, Supervise(t)
      PROVE  [Mail!Next]_<<[i \in Ids |-> Place(i)], sent>>
  <2>1. CASE LaunchFull(t)
    BY <1>3, <1>b, <2>1 DEF Moves, LaunchFull
  <2>2. CASE Prepare(t)
    <3>1. state[t] = "Queued" /\ op.events \subseteq Pending(t) /\ sent' = sent
      BY <1>0, <2>2 DEF Prepare, OpInv
    <3>2. batch[t] = {}
      BY <1>b, <3>1 DEF BatchOf
    <3>3. PICK e, b : /\ e = Mark(status, op.events, "prepared")
                      /\ b = IF op.events = {} THEN batch[t] ELSE op.events
      OBVIOUS
    <3>4. RowMoved(t, "Running", b) /\ \A i \in Ids : EventMoved(i, t, "Running", b, e)
      BY <1>b, <2>2, <3>3, MovedRow, MovedEvent DEF Moves
    <3>5. b = op.events /\ \A i \in Ids : e[i] = IF i \in b THEN "prepared" ELSE status[i]
      BY <3>2, <3>3, SMT DEF Mark
    <3>6. ASSUME NEW i \in Ids PROVE StepOf(i)
      <4>1. CASE i \in b
        <5>1. ev[i].task = t /\ Place(i) = "pending"
          BY <3>1, <3>5, <4>1 DEF Pending, Waiting, Inserted, Place
        <5>2. status'[i] = "prepared" /\ i \in batch'[t] /\ ev' = ev
          BY <3>4, <3>5, <4>1 DEF EventMoved, RowMoved
        <5>3. Place(i)' = "out"
          BY <5>1, <5>2 DEF Place
        <5> QED  BY <5>1, <5>3 DEF StepOf
      <4>2. CASE i \notin b
        <5>1. e[i] = status[i] /\ ev' = ev /\ EventMoved(i, t, "Running", b, e)
          BY <3>4, <3>5, <4>2 DEF RowMoved
        <5>2. status[i] \in Status \cup {"none"} /\ (status[i] # "none" => ev[i].task \in Tasks)
          BY <1>0 DEF EventInv, EventOf, TypeOK, Event
        <5>3. ev[i].task \in Tasks => (i \in batch'[ev[i].task] <=> i \in batch[ev[i].task])
          BY <3>2, <3>4, <4>2 DEF RowMoved
        <5>4. CASE status'[i] = status[i]
          BY <5>1, <5>2, <5>3, <5>4 DEF StepOf, Place
        <5>5. CASE status'[i] # status[i]
          <6>1. /\ status'[i] \in {"queued", "held", "closed"}
                /\ \/ ev[i].task = t /\ status[i] \in {"queued", "held"}
                   \/ status[i] = "waiting"
            BY <5>1, <5>5 DEF EventMoved
          <6>2. ev[i].task \in Tasks /\ i \notin batch[ev[i].task]
            BY <1>w, <3>2, <5>2, <6>1
          <6> QED  BY <5>1, <5>3, <6>1, <6>2 DEF StepOf, Place
        <5> QED  BY <5>4, <5>5
      <4> QED  BY <4>1, <4>2
    <3> QED  BY <1>1, <3>1, <3>6
  <2>3. CASE CancelIdle(t)
    BY <1>3, <1>b, <2>3 DEF Moves, CancelIdle
  <2>4. CASE FinishCommit(t)
    <3>1. sent' = sent
      BY <2>4 DEF FinishCommit
    <3> QED  BY <1>0, <1>4, <2>4, <3>1, FinishMoves, SettlementIsTruthful
  <2>5. CASE StartupRequeue(t)
    <3>1. sent' = sent
      BY <2>5 DEF StartupRequeue
    <3> QED  BY <1>0, <1>4, <2>5, <3>1, StartupMoves, SettlementIsTruthful
  <2>6. CASE StartupUncertain(t)
    BY <1>3, <1>b, <2>6 DEF Moves, StartupUncertain
  <2>7. CASE LaunchRead(t) \/ LaunchConflict(t) \/ FinishRead(t) \/ FinishConflict(t)
    <3>1. UNCHANGED mailVars /\ sent' = sent
      BY <2>7 DEF LaunchRead, LaunchConflict, FinishRead, FinishConflict
    <3> QED  BY <1>2, <1>b, <3>1 DEF TurnOf
  <2> QED  BY <1>6, <2>1, <2>2, <2>3, <2>4, <2>5, <2>6, <2>7 DEF Supervise
<1>7. ASSUME NEW t \in Tasks, Work(t)
      PROVE  [Mail!Next]_<<[i \in Ids |-> Place(i)], sent>>
  <2>1. UNCHANGED mailVars /\ sent' \in {sent, sent \cup batch[t]}
    BY <1>7 DEF Work, AppendInput, PrepareRun, StartPrompt, PromptStarted, SettleTurn,
                AbandonTurn, FailTurn, WorkerStep
  <2> QED  BY <1>2, <1>b, <2>1 DEF TurnOf
<1>8. CASE Crash \/ UNCHANGED vars
  <2>1. UNCHANGED mailVars /\ sent' = sent
    BY <1>8 DEF Crash, vars
  <2>2. \A i \in Ids : Place(i)' = Place(i)
    BY <2>1 DEF Place, mailVars
  <2> QED  BY <2>1, <2>2
<1> QED  BY <1>5, <1>6, <1>7, <1>8 DEF Next

(* The inbox implements the mailbox: every event goes out in one turn, it  *)
(* comes back only from a turn that did not submit it, and it is receipted *)
(* only if its turn did.                                                   *)
THEOREM ImplementsMailbox == Spec => MailSpec
<1>1. Init => Mail!Init
  BY DEF Init, Mail!Init, Place
<1> QED
  BY Inductive, <1>1, MailboxStep, PTL DEF Spec, MailSpec, Mail!Spec
=============================================================================
