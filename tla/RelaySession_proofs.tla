------------------------- MODULE RelaySession_proofs -------------------------
(***************************************************************************)
(* The relay sign-in of a machine and its renewal, for every set of        *)
(* processes and every bound: the newest pair of the sign-in the device    *)
(* goes by is kept, no refresh token is spent twice, and the renewal       *)
(* implements a handover between the old sign-in and the new one.          *)
(***************************************************************************)
EXTENDS RelaySession, SequenceTheorems, TLAPS

\* A request in flight.
Req == [from : Procs \cup {None}, kind : {"refresh", "begin", "finish"}, pair : Pair,
        chal : Nat \cup {None}]
Status == {"pending", "expired", "superseded", "committed"}
Chals == Seq([sid : Sids, status : Status])

\* The types of the variables.
FileType ==
    /\ session \in Pair \cup {None} /\ journal \in Journal \cup {None}
    /\ session # None => session.sid <= issued
CountType == ops \in Nat /\ crashes \in Nat /\ faults \in Nat
LockType == pump \in Procs \cup {None} /\ fresh \in Procs \cup {None}
ProcType ==
    /\ pc \in [Procs -> Steps] /\ opened \in [Procs -> Sids \cup {None}]
    /\ snap \in [Procs -> Journal \cup {None}]
    /\ pair \in [Procs -> Pair \cup {None}] /\ chal \in [Procs -> Nat \cup {None}]
NetType == flying \subseteq Req /\ answer \in [Procs -> {"yes", "no", None}]
RelayType ==
    /\ bound \in Sids /\ bound <= issued /\ chals \in Chals /\ issued \in Sids
    /\ toks \in [Sids -> 0 .. MaxToks] /\ expired \subseteq Sids
    /\ \A s \in Sids : s > issued => toks[s] = 0
HistType == lost \subseteq Sids /\ CountType

Types == FileType /\ LockType /\ ProcType /\ NetType /\ RelayType /\ HistType

\* What a journal of each phase holds, and what the relay says of its challenge.
Holds(j) ==
    /\ j \in Journal /\ j.op \in 1 .. ops
    /\ j.orig <= issued /\ (j.nid # None => j.nid <= issued)
    /\ j.next # None => j.nid = j.next.sid
    /\ j.phase \in Pending \cup {"renewalRequired"} => j.next # None
    /\ j.phase = "awaitingOtp" => j.next = None /\ j.nid = None
    /\ j.phase = "committed" => j.next = None
    /\ j.phase \in {"committing", "serverCommitted"} =>
          /\ j.pub \in Pair /\ j.chal \in 1 .. Len(chals)
          /\ chals[j.chal].sid = j.nid
    /\ j.phase = "serverCommitted" => chals[j.chal].status = "committed"

\* The sign-in of a refused journal cannot be renewed any more.
JournalInv ==
    journal # None =>
        /\ Holds(journal)
        /\ journal.phase = "renewalRequired" => journal.nid \in lost \cup expired

\* Steps under the refresh lock, and under the relay gate.
Fresh == {"permitted", "spending", "locked", "beginning", "signed", "finishing",
          "recorded", "pending", "renewing"}
Gated == {"open", "locked", "beginning", "signed", "finishing", "recorded", "pending", "renewing"}
Using == {"permitted", "spending"}

LockOf(p) ==
    /\ fresh = p <=> pc[p] \in Fresh
    /\ pc[p] \in Gated => pump = p
    /\ pump = p => pc[p] \in Gated \cup Using
    /\ answer[p] # None => Waiting(p)

\* What a process has in memory at each step.
MemoryOf(p) ==
    /\ pc[p] \in Steps \ {"off", "open", "permitted", "spending"} => Holds(snap[p])
    /\ pc[p] \in {"otp", "verified"} => snap[p].phase = "awaitingOtp"
    /\ pc[p] \in {"gate", "due", "locked", "pending", "renewing"} => snap[p].phase \in Pending
    /\ pc[p] = "beginning" => snap[p].phase = "prepared"
    /\ pc[p] \in {"signed", "finishing"} => snap[p].phase \in {"committing", "serverCommitted"}
    /\ pc[p] = "recorded" => snap[p].phase = "serverCommitted"
    /\ pc[p] \in Using \cup {"verified", "beginning", "renewing"} =>
          pair[p] # None /\ pair[p].sid <= issued
    /\ pc[p] = "beginning" /\ answer[p] = "yes" =>
          chal[p] \in 1 .. Len(chals) /\ chals[chal[p]].sid = snap[p].nid
    /\ pc[p] = "finishing" /\ answer[p] = "yes" => chals[snap[p].chal].status = "committed"
    /\ pc[p] = "spending" /\ answer[p] = "yes" => pair[p].tok < MaxToks
    /\ pc[p] = "renewing" /\ answer[p] = "yes" => snap[p].next.tok < MaxToks

\* A request is the one its sender waits for, or its sender has gone.
RequestOf(r) ==
    /\ r.pair.sid <= issued
    /\ r.from # None =>
          /\ answer[r.from] = None
          /\ r.kind = "refresh" => \/ pc[r.from] = "spending" /\ r.pair = pair[r.from]
                                   \/ pc[r.from] = "renewing" /\ r.pair = snap[r.from].next
          /\ r.kind = "begin" => pc[r.from] = "beginning" /\ r.pair = snap[r.from].next
          /\ r.kind = "finish" => /\ pc[r.from] = "finishing" /\ r.pair = snap[r.from].next
                                  /\ r.chal = snap[r.from].chal
    /\ r.from = None /\ r.kind = "refresh" => r.pair.sid \in lost
    /\ r.kind # "finish" => r.chal = None
    /\ r.kind = "finish" => r.chal \in 1 .. Len(chals) /\ chals[r.chal].sid = r.pair.sid

\* Only the newest challenge can be pending, and no device has moved by one
\* that the journal does not name yet.
ChallengeInv ==
    /\ \A c \in 1 .. Len(chals) : chals[c].status = "pending" => c = Len(chals)
    /\ \A p \in Procs :
          pc[p] = "beginning" /\ answer[p] = "yes" => chals[chal[p]].status # "committed"

\* A finish that can still move the device: nobody works, work is paused, and
\* the journal names this challenge unless its sign-in is beyond renewal.
Moves(r) == r.kind = "finish" /\ chals[r.chal].status = "pending"
FinishOf(r) ==
    Moves(r) =>
        /\ \A p \in Procs : /\ ~(pc[p] = "beginning" /\ answer[p] = "yes")
                            /\ pc[p] \notin Using \cup {"open"}
        /\ session # None =>
              /\ Blocks(journal) /\ journal.phase # "serverCommitted"
              /\ journal.phase = "committing" => journal.chal = r.chal
              /\ journal.phase # "committing" => r.pair.sid \in lost \cup expired

\* What the relay has committed is where the device is.
Accepted == /\ journal # None /\ Sound(journal)
            /\ journal.phase \in {"committing", "serverCommitted"}
            /\ chals[journal.chal].status = "committed"
BoundInv == (Accepted => bound = journal.nid) /\ BoundPairKept

\* A pair that is good, or was spent with success by a process that knows it.
Newest(x) == x.sid \in lost \/ x.tok = toks[x.sid]
Replaced(x) == x.sid \in lost \/ toks[x.sid] = x.tok + 1

TokenOf(p) ==
    /\ pc[p] \in Using =>
          /\ IF answer[p] = "yes" THEN Replaced(pair[p]) ELSE Newest(pair[p])
          /\ session # None /\ session.sid = pair[p].sid => session = pair[p]
          /\ journal # None /\ journal.phase \in Pending => journal.nid # pair[p].sid
    /\ pc[p] = "renewing" =>
          /\ IF answer[p] = "yes" THEN Replaced(snap[p].next) ELSE Newest(snap[p].next)
          /\ answer[p] = "no" => snap[p].nid \in lost \cup expired
          /\ journal # None /\ journal.phase \in Pending /\ journal.nid = snap[p].nid =>
                journal = snap[p]
          /\ session # None /\ session.sid = snap[p].nid => Blocks(journal)

\* The files have the newest pairs, or a process is about to write them.
StoredInv ==
    /\ session # None /\ ~Blocks(journal) =>
          \/ Newest(session)
          \/ \E p \in Procs : pc[p] = "spending" /\ answer[p] = "yes" /\ pair[p] = session
    /\ journal # None /\ journal.phase \in Pending =>
          \/ Newest(journal.next)
          \/ \E p \in Procs : pc[p] = "renewing" /\ answer[p] = "yes" /\ snap[p] = journal

\* A pair from a code that is not yet in the journal is known to nobody else.
NewOf(p) ==
    pc[p] = "verified" =>
        /\ pair[p].tok = 0 /\ toks[pair[p].sid] = 0
        /\ session # None => session.sid # pair[p].sid
        /\ journal # None => journal.nid # pair[p].sid
        /\ \A q \in Procs :
              /\ pc[q] \in Using \/ (pc[q] = "verified" /\ q # p) => pair[q].sid # pair[p].sid
              /\ pc[q] = "renewing" => snap[q].nid # pair[p].sid
        /\ \A r \in flying : r.kind = "refresh" => r.pair.sid # pair[p].sid

LockInv == \A p \in Procs : LockOf(p)
MemoryInv == \A p \in Procs : MemoryOf(p)
RequestInv == \A r \in flying : RequestOf(r)
FinishInv == \A r \in flying : FinishOf(r)
TokenInv == \A p \in Procs : TokenOf(p)
NewInv == \A p \in Procs : NewOf(p)

BaseInv == JournalInv /\ LockInv /\ MemoryInv /\ RequestInv
Inv == Types /\ BaseInv /\ ChallengeInv /\ FinishInv /\ BoundInv /\ TokenInv /\ StoredInv /\ NewInv

-----------------------------------------------------------------------------
\* The bounds are natural numbers, and None is none of the other values.
LEMMA Bounds ==
    /\ MaxToks \in Nat /\ MaxOps \in Nat /\ MaxChals \in Nat
    /\ MaxCrashes \in Nat /\ MaxFaults \in Nat /\ MaxSids \in Nat \ {0}
BY BoundsAssumption

LEMMA NoneIsNone ==
    /\ None \notin Procs /\ None \notin Nat /\ None \notin Pair /\ None \notin Journal
    /\ None # "yes" /\ None # "no"
BY NoneAssumption

\* The fields of a pair and of a journal.
LEMMA PairFields ==
    /\ \A x \in Pair : x.sid \in Sids /\ x.tok \in 0 .. MaxToks
    /\ \A s \in Sids, k \in 0 .. MaxToks :
          [sid |-> s, tok |-> k] \in Pair
    /\ \A x, y \in Pair : x = y <=> x.sid = y.sid /\ x.tok = y.tok
BY DEF Pair

LEMMA NextPair ==
    ASSUME NEW x \in Pair, x.tok < MaxToks
    PROVE  /\ [x EXCEPT !.tok = @ + 1] \in Pair
           /\ [x EXCEPT !.tok = @ + 1].sid = x.sid
           /\ [x EXCEPT !.tok = @ + 1].tok = x.tok + 1
BY Bounds DEF Pair

LEMMA JournalFields ==
    ASSUME NEW j \in Journal
    PROVE  /\ j.op \in Nat /\ j.phase \in Phases /\ j.orig \in Sids /\ j.prior \in BOOLEAN
           /\ j.next \in Pair \cup {None} /\ j.nid \in Sids \cup {None}
           /\ j.pub \in Pair \cup {None} /\ j.chal \in Nat \cup {None}
           /\ j # None
BY NoneIsNone DEF Journal

\* What each writer of the journal leaves in it.
LEMMA NewJournal ==
    ASSUME NEW i \in Nat, NEW s \in Sids, NEW b \in BOOLEAN, NEW j,
           j = [op |-> i, phase |-> "awaitingOtp", orig |-> s, prior |-> b,
                next |-> None, nid |-> None, pub |-> None, chal |-> None]
    PROVE  /\ j \in Journal /\ j.op = i /\ j.phase = "awaitingOtp" /\ j.orig = s /\ j.prior = b
           /\ j.next = None /\ j.nid = None /\ j.pub = None /\ j.chal = None
BY DEF Journal, Phases

LEMMA RenouncedJournal ==
    ASSUME NEW i \in Journal, NEW j,
           j = [i EXCEPT !.phase = "prepared", !.prior = TRUE, !.chal = None, !.pub = None]
    PROVE  /\ j \in Journal /\ j.phase = "prepared" /\ j.prior = TRUE /\ j.chal = None /\ j.pub = None
           /\ j.op = i.op /\ j.orig = i.orig /\ j.next = i.next /\ j.nid = i.nid
BY DEF Journal, Phases, Pending

LEMMA RecordedJournal ==
    ASSUME NEW i \in Journal, NEW j, j = [i EXCEPT !.phase = "serverCommitted"]
    PROVE  /\ j \in Journal /\ j.phase = "serverCommitted"
           /\ j.op = i.op /\ j.orig = i.orig /\ j.prior = i.prior /\ j.next = i.next
           /\ j.nid = i.nid /\ j.pub = i.pub /\ j.chal = i.chal
BY DEF Journal, Phases, Pending

LEMMA PublishedJournal ==
    ASSUME NEW i \in Journal, NEW j,
           j = [i EXCEPT !.phase = "committed", !.next = None, !.pub = None, !.chal = None]
    PROVE  /\ j \in Journal /\ j.phase = "committed" /\ j.next = None /\ j.pub = None /\ j.chal = None
           /\ j.op = i.op /\ j.orig = i.orig /\ j.prior = i.prior /\ j.nid = i.nid
BY DEF Journal, Phases

LEMMA RefusedJournal ==
    ASSUME NEW i \in Journal, NEW j,
           j = [i EXCEPT !.phase = "renewalRequired", !.prior = TRUE]
    PROVE  /\ j \in Journal /\ j.phase = "renewalRequired" /\ j.prior = TRUE
           /\ j.op = i.op /\ j.orig = i.orig /\ j.next = i.next
           /\ j.nid = i.nid /\ j.pub = i.pub /\ j.chal = i.chal
BY DEF Journal, Phases

\* Superseding touches the status of pending challenges, and nothing else.
LEMMA SupersededType ==
    ASSUME chals \in Chals
    PROVE  /\ Superseded \in Chals /\ Len(Superseded) = Len(chals)
           /\ \A c \in 1 .. Len(chals) :
                 /\ Superseded[c].sid = chals[c].sid
                 /\ Superseded[c].status # "pending"
                 /\ chals[c].status # "pending" => Superseded[c].status = chals[c].status
<1> DEFINE C == [sid : Sids, status : Status]
<1>0. DOMAIN chals = 1 .. Len(chals) /\ Len(chals) \in Nat
  BY DEF Chals
<1>1. \A c \in 1 .. Len(chals) : chals[c] \in C
  BY ElementOfSeq DEF Chals
<1>2. \A c \in 1 .. Len(chals) :
         /\ Superseded[c] \in C
         /\ Superseded[c].sid = chals[c].sid
         /\ Superseded[c].status # "pending"
         /\ chals[c].status # "pending" => Superseded[c].status = chals[c].status
  BY <1>0, <1>1 DEF Superseded, Status
<1>3. Superseded \in [1 .. Len(chals) -> C]
  BY <1>0, <1>2 DEF Superseded
<1>4. Superseded \in Seq(C)
  <2> HIDE DEF C
  <2>1. \E n \in Nat : Superseded \in [1 .. n -> C]
    BY <1>0, <1>3
  <2> QED  BY <2>1, SeqDef
<1>5. Len(Superseded) = Len(chals)
  BY <1>0, <1>3, <1>4, LenProperties
<1> QED  BY <1>2, <1>4, <1>5 DEF Chals

-----------------------------------------------------------------------------
(* Who writes what.                                                        *)

\* The steps of a process that hold no file, and those that write the journal.
JournalStep(p) ==
    \/ Prepare(p) \/ Complete(p) \/ Begun(p) \/ Renounced(p) \/ ServerCommitted(p)
    \/ PublishJournal(p) \/ Renewed(p) \/ RenewalRequired(p)

LEMMA JournalMoves ==
    ASSUME [Next]_vars
    PROVE  UNCHANGED journal \/ ClearJournal \/ \E p \in Procs : JournalStep(p)
<1>1. ASSUME NEW p \in Procs, Use(p) \/ Ends(p) \/ Dies(p) \/ Changed(p)
      PROVE  UNCHANGED journal
  BY <1>1 DEF Use, StartPass, EndPass, Permit, Unspent, Spend, Refreshed, Rejected, Ends, Dies,
              Changed, files
<1>2. ASSUME NEW p \in Procs, Reauth(p) \/ Refresh(p)
      PROVE  UNCHANGED journal \/ JournalStep(p)
  BY <1>2 DEF Reauth, Refresh, Rejoin, Verify, Rerun, Lock, Begin, Continue, Finish,
              PublishSession, Renew, Unrenewed, files, JournalStep
<1>3. Logout => UNCHANGED journal \/ ClearJournal
  BY DEF Logout, ClearSession, Relink
<1>4. Relay => UNCHANGED journal
  BY DEF Relay, ServeRefresh, ServeBegin, ServeFinish, ChallengeExpires, SignInEnds, Unserved, files
<1> QED  BY <1>1, <1>2, <1>3, <1>4 DEF Next, vars, files

LEMMA SessionMoves ==
    ASSUME [Next]_vars
    PROVE  \/ UNCHANGED session \/ ClearSession \/ Relink
           \/ \E p \in Procs : Refreshed(p) \/ PublishSession(p)
<1>1. ASSUME NEW p \in Procs, Use(p) \/ Ends(p) \/ Dies(p) \/ Changed(p)
      PROVE  UNCHANGED session \/ Refreshed(p)
  BY <1>1 DEF Use, StartPass, EndPass, Permit, Unspent, Spend, Rejected, Ends, Dies,
              Changed, files
<1>2. ASSUME NEW p \in Procs, Reauth(p) \/ Refresh(p)
      PROVE  UNCHANGED session \/ PublishSession(p)
  BY <1>2 DEF Reauth, Refresh, Prepare, Rejoin, Verify, Advance, Complete, Rerun, Lock, Begin, Begun,
              Continue, Finish, Renounced, ServerCommitted, PublishJournal,
              Renew, Unrenewed, Renewed, RenewalRequired, files
<1>3. Logout => UNCHANGED session \/ ClearSession \/ Relink
  BY DEF Logout, ClearJournal
<1>4. Relay => UNCHANGED session
  BY DEF Relay, ServeRefresh, ServeBegin, ServeFinish, ChallengeExpires, SignInEnds, Unserved, files
<1> QED  BY <1>1, <1>2, <1>3, <1>4 DEF Next, vars, files

RelayStep ==
    \/ \E r \in flying : ServeRefresh(r) \/ ServeBegin(r) \/ ServeFinish(r)
    \/ \E c \in DOMAIN chals : ChallengeExpires(c)
    \/ \E s \in Sids : SignInEnds(s)

LEMMA RelayMoves ==
    ASSUME [Next]_vars
    PROVE  UNCHANGED relay \/ RelayStep \/ Relink \/ \E p \in Procs : Verify(p)
<1>1. ASSUME NEW p \in Procs, Use(p) \/ Ends(p) \/ Dies(p) \/ Changed(p)
      PROVE  UNCHANGED relay
  BY <1>1 DEF Use, StartPass, EndPass, Permit, Unspent, Spend, Refreshed, Rejected, Ends, Dies,
              Changed, Alone, Quiet
<1>2. ASSUME NEW p \in Procs, Reauth(p) \/ Refresh(p)
      PROVE  UNCHANGED relay \/ Verify(p)
  BY <1>2 DEF Reauth, Refresh, Prepare, Rejoin, Complete, Rerun, Lock, Begin, Begun,
              Continue, Finish, Renounced, ServerCommitted, PublishSession, PublishJournal,
              Renew, Unrenewed, Renewed, RenewalRequired, Alone, Quiet
<1>3. Logout => UNCHANGED relay \/ Relink
  BY DEF Logout, ClearSession, ClearJournal, Alone, Quiet
<1> QED  BY <1>1, <1>2, <1>3 DEF Next, vars, Relay, RelayStep

LEMMA LostMoves ==
    ASSUME [Next]_vars
    PROVE  UNCHANGED lost \/ \E p \in Procs : Refreshed(p) \/ Dies(p) \/ Changed(p)
<1>1. ASSUME NEW p \in Procs, Use(p) \/ Ends(p)
      PROVE  UNCHANGED lost \/ Refreshed(p)
  BY <1>1 DEF Use, StartPass, EndPass, Permit, Unspent, Spend, Rejected, Ends, Alone
<1>2. ASSUME NEW p \in Procs, Reauth(p) \/ Refresh(p)
      PROVE  UNCHANGED lost
  BY <1>2 DEF Reauth, Refresh, Prepare, Rejoin, Verify, Complete, Rerun, Lock, Begin, Begun,
              Continue, Finish, Renounced, ServerCommitted, PublishSession, PublishJournal,
              Renew, Unrenewed, Renewed, RenewalRequired, Alone
<1>3. Logout => UNCHANGED lost
  BY DEF Logout, ClearSession, ClearJournal, Relink, Alone
<1>4. Relay => UNCHANGED lost
  BY DEF Relay, ServeRefresh, ServeBegin, ServeFinish, ChallengeExpires, SignInEnds, Unserved
<1> QED  BY <1>1, <1>2, <1>3, <1>4 DEF Next, vars

LEMMA CountStep ==
    ASSUME CountType, [Next]_vars
    PROVE  CountType' /\ ops <= ops'
<1> USE DEF CountType
<1>0. UNCHANGED <<ops, crashes, faults>> => CountType' /\ ops <= ops'
  OBVIOUS
<1>1. ASSUME NEW p \in Procs, Use(p) \/ Ends(p) \/ Changed(p)
      PROVE  UNCHANGED <<ops, crashes, faults>>
  BY <1>1 DEF Use, StartPass, EndPass, Permit, Unspent, Spend, Refreshed, Rejected, Ends, Changed,
              Alone, Quiet
<1>2. ASSUME NEW p \in Procs, Reauth(p) \/ Refresh(p)
      PROVE  UNCHANGED <<ops, crashes, faults>> \/ Prepare(p)
  BY <1>2 DEF Reauth, Refresh, Rejoin, Verify, Complete, Rerun, Lock, Begin, Begun,
              Continue, Finish, Renounced, ServerCommitted, PublishSession, PublishJournal,
              Renew, Unrenewed, Renewed, RenewalRequired, Alone, Quiet
<1>3. ASSUME NEW p \in Procs, Prepare(p) \/ Dies(p) PROVE CountType' /\ ops <= ops'
  BY <1>3 DEF Prepare, Dies
<1>4. Logout => CountType' /\ ops <= ops'
  BY DEF Logout, ClearSession, ClearJournal, Relink, Alone, Quiet
<1>5. Relay => CountType' /\ ops <= ops'
  <2>1. Relay => UNCHANGED <<ops, crashes>> /\ (faults' = faults \/ faults' = faults + 1)
    BY DEF Relay, ServeRefresh, ServeBegin, ServeFinish, ChallengeExpires, SignInEnds, Unserved
  <2> QED  BY <2>1
<1> QED  BY <1>0, <1>1, <1>2, <1>3, <1>4, <1>5 DEF Next, vars

-----------------------------------------------------------------------------
(* The relay only learns.                                                  *)

\* Challenges keep their sign-in, and their status once it is final.
Grows ==
    /\ chals' \in Chals /\ Len(chals) <= Len(chals')
    /\ \A c \in 1 .. Len(chals) :
          /\ chals'[c].sid = chals[c].sid
          /\ chals[c].status # "pending" => chals'[c].status = chals[c].status

LEMMA ChalType ==
    ASSUME chals \in Chals
    PROVE  /\ Len(chals) \in Nat /\ DOMAIN chals = 1 .. Len(chals)
           /\ \A c \in 1 .. Len(chals) : chals[c].sid \in Sids /\ chals[c].status \in Status
<1>1. Len(chals) \in Nat /\ DOMAIN chals = 1 .. Len(chals)
  BY LenProperties DEF Chals
<1>2. ASSUME NEW c \in 1 .. Len(chals)
      PROVE  chals[c].sid \in Sids /\ chals[c].status \in Status
  <2>1. chals[c] \in [sid : Sids, status : Status]
    BY ElementOfSeq DEF Chals
  <2> QED  BY <2>1
<1> QED  BY <1>1, <1>2

\* The end of a challenge.
LEMMA StatusChange ==
    ASSUME chals \in Chals, NEW c \in 1 .. Len(chals), chals[c].status = "pending",
           NEW s \in Status, chals' = [chals EXCEPT ![c].status = s]
    PROVE  /\ Grows /\ Len(chals') = Len(chals)
           /\ \A d \in 1 .. Len(chals) :
                 chals'[d].status = IF d = c THEN s ELSE chals[d].status
<1> DEFINE x == [chals[c] EXCEPT !.status = s]
           C == [sid : Sids, status : Status]
<1>1. chals[c] \in C
  BY ElementOfSeq DEF Chals
<1>2. x \in C /\ x.sid = chals[c].sid /\ x.status = s
  BY <1>1
<1> HIDE DEF x
<1>3. chals' = [chals EXCEPT ![c] = x]
  BY DEF x
<1>4. /\ chals' \in Seq(C) /\ Len(chals') = Len(chals)
      /\ \A d \in 1 .. Len(chals) : chals'[d] = IF d = c THEN x ELSE chals[d]
  BY <1>2, <1>3, ExceptSeq DEF Chals
<1>5. Len(chals) \in Nat
  BY ChalType
<1> QED  BY <1>2, <1>4, <1>5 DEF Grows, Chals

\* A new challenge supersedes the pending one.
LEMMA NewChallenge ==
    ASSUME chals \in Chals, NEW s \in Sids,
           chals' = Append(Superseded, [sid |-> s, status |-> "pending"])
    PROVE  /\ Grows /\ Len(chals') = Len(chals) + 1
           /\ chals'[Len(chals) + 1].sid = s /\ chals'[Len(chals) + 1].status = "pending"
           /\ \A c \in 1 .. Len(chals) : chals'[c].status # "pending"
<1> DEFINE x == [sid |-> s, status |-> "pending"]
           C == [sid : Sids, status : Status]
<1>1. x \in C
  BY DEF Status
<1>2. x.sid = s /\ x.status = "pending"
  OBVIOUS
<1> HIDE DEF x
<1>3. chals' = Append(Superseded, x)
  BY DEF x
<1>4. Superseded \in Seq(C) /\ Len(Superseded) = Len(chals) /\ Len(chals) \in Nat
  BY SupersededType, ChalType DEF Chals
<1>5. /\ chals' \in Seq(C) /\ Len(chals') = Len(chals) + 1
      /\ chals'[Len(chals) + 1] = x
      /\ \A c \in 1 .. Len(chals) : chals'[c] = Superseded[c]
  BY <1>1, <1>3, <1>4, AppendProperties
<1> QED  BY <1>2, <1>4, <1>5, SupersededType DEF Grows, Chals

LEMMA SupersededGrows ==
    ASSUME chals \in Chals, chals' = Superseded
    PROVE  /\ Grows /\ Len(chals') = Len(chals)
           /\ \A c \in 1 .. Len(chals) : chals'[c].status # "pending"
BY SupersededType, ChalType DEF Grows

LEMMA SameChals ==
    ASSUME chals \in Chals, UNCHANGED chals
    PROVE  Grows
BY ChalType DEF Grows

\* A request names what exists.
Named(r) ==
    /\ r \in Req /\ r.pair.sid <= issued
    /\ r.kind = "finish" => r.chal \in 1 .. Len(chals) /\ chals[r.chal].sid = r.pair.sid

LEMMA RelayTypeStep ==
    ASSUME RelayType, \A r \in flying : Named(r), [Next]_vars
    PROVE  RelayType' /\ Grows /\ issued <= issued' /\ expired \subseteq expired'
<1> DEFINE Good == RelayType' /\ Grows /\ issued <= issued' /\ expired \subseteq expired'
<1>0. /\ MaxToks \in Nat /\ Len(chals) \in Nat /\ DOMAIN chals = 1 .. Len(chals)
      /\ Sids = 1 .. MaxSids /\ MaxSids \in Nat
  BY Bounds, ChalType DEF RelayType, Sids
<1>1. ASSUME UNCHANGED relay PROVE Good
  BY <1>0, <1>1, SameChals DEF RelayType, relay
<1>2. ASSUME NEW r \in flying, ServeRefresh(r) PROVE Good
  <2>1. r \in Req /\ r.pair \in Pair /\ r.pair.sid \in Sids /\ r.pair.sid <= issued
    BY PairFields DEF Named, Req
  <2>2. UNCHANGED <<bound, chals, issued, expired>>
    BY <1>2 DEF ServeRefresh, Unserved
  <2>3. \/ UNCHANGED toks
        \/ toks[r.pair.sid] < MaxToks /\ toks' = [toks EXCEPT ![r.pair.sid] = @ + 1]
    BY <1>2 DEF ServeRefresh
  <2> DEFINE k == r.pair.sid
  <2>4. k \in Sids /\ k <= issued
    BY <2>1
  <2> HIDE DEF k
  <2>5. ASSUME toks[k] < MaxToks, toks' = [toks EXCEPT ![k] = @ + 1]
        PROVE  toks' \in [Sids -> 0 .. MaxToks] /\ \A s \in Sids : s > issued => toks'[s] = 0
    <3>1. toks[k] + 1 \in 0 .. MaxToks
      BY <1>0, <2>4, <2>5 DEF RelayType
    <3>2. toks' \in [Sids -> 0 .. MaxToks]
      BY <2>4, <2>5, <3>1 DEF RelayType
    <3>3. \A s \in Sids : s > issued => s # k
      BY <1>0, <2>4 DEF RelayType
    <3> QED  BY <2>4, <2>5, <3>2, <3>3 DEF RelayType
  <2>6. toks' \in [Sids -> 0 .. MaxToks] /\ \A s \in Sids : s > issued => toks'[s] = 0
    BY <2>3, <2>5 DEF RelayType, k
  <2>7. Grows
    BY <2>2, SameChals DEF RelayType
  <2> QED  BY <1>0, <2>2, <2>6, <2>7 DEF RelayType
<1>3. ASSUME NEW r \in flying, ServeBegin(r) PROVE Good
  <2>1. r.pair \in Pair /\ r.pair.sid \in Sids
    BY PairFields DEF Named, Req
  <2>2. UNCHANGED <<bound, toks, issued, expired>>
    BY <1>3 DEF ServeBegin, Unserved
  <2>3. \/ UNCHANGED chals
        \/ chals' = Append(Superseded, [sid |-> r.pair.sid, status |-> "pending"])
    BY <1>3 DEF ServeBegin
  <2>4. Grows
    BY <2>1, <2>3, SameChals, NewChallenge DEF RelayType
  <2> QED  BY <1>0, <2>2, <2>4 DEF RelayType, Grows
<1>4. ASSUME NEW r \in flying, ServeFinish(r) PROVE Good
  <2>1. r.pair.sid \in Sids /\ r.pair.sid <= issued
    BY PairFields DEF Named, Req
  <2>2. UNCHANGED <<toks, issued, expired>>
    BY <1>4 DEF ServeFinish, Unserved
  <2>3. \/ UNCHANGED <<chals, bound>>
        \/ /\ r.kind = "finish" /\ chals[r.chal].status = "pending"
           /\ chals' = [chals EXCEPT ![r.chal].status = "committed"]
           /\ bound' = chals[r.chal].sid
    BY <1>4 DEF ServeFinish, StatusOf
  <2>4. Grows /\ (bound' = bound \/ bound' = r.pair.sid)
    BY <2>3, SameChals, StatusChange DEF RelayType, Named, Status
  <2> QED  BY <1>0, <2>1, <2>2, <2>4 DEF RelayType, Grows
<1>5. ASSUME NEW c \in DOMAIN chals, ChallengeExpires(c) PROVE Good
  <2>1. Grows
    BY <1>0, <1>5, StatusChange DEF RelayType, ChallengeExpires, StatusOf, Status
  <2>2. UNCHANGED <<bound, toks, issued, expired>>
    BY <1>5 DEF ChallengeExpires
  <2> QED  BY <1>0, <2>1, <2>2 DEF RelayType, Grows
<1>6. ASSUME NEW s \in Sids, SignInEnds(s) PROVE Good
  BY <1>0, <1>6, SameChals DEF RelayType, SignInEnds
<1>7. ASSUME Relink PROVE Good
  <2>1. Grows /\ UNCHANGED <<toks, expired>>
    BY <1>7, SupersededGrows DEF RelayType, Relink
  <2>2. issued < MaxSids /\ issued' = issued + 1 /\ bound' = issued + 1
    BY <1>7 DEF Relink
  <2> QED  BY <1>0, <2>1, <2>2 DEF RelayType, Grows
<1>8. ASSUME NEW p \in Procs, Verify(p) PROVE Good
  <2>1. UNCHANGED <<bound, chals, toks, expired>> /\ issued < MaxSids /\ issued' = issued + 1
    BY <1>8 DEF Verify
  <2>2. Grows
    BY <2>1, SameChals DEF RelayType
  <2> QED  BY <1>0, <2>1, <2>2 DEF RelayType
<1> QED
  BY <1>1, <1>2, <1>3, <1>4, <1>5, <1>6, <1>7, <1>8, RelayMoves DEF RelayStep

-----------------------------------------------------------------------------
(* What the writers of the journal find and leave, field by field.         *)

Base == Types /\ BaseInv

\* All but the fields that are named.
LEMMA Loaded ==
    ASSUME Base, journal # None
    PROVE  journal \in Journal /\ Holds(journal)
BY DEF Base, Types, FileType, BaseInv, JournalInv

LEMMA Remembered ==
    ASSUME Base, NEW p \in Procs
    PROVE  MemoryOf(p) /\ LockOf(p)
BY DEF Base, BaseInv, MemoryInv, LockInv

LEMMA PairOf ==
    ASSUME Base, NEW p \in Procs, pc[p] \in Using \cup {"verified", "beginning", "renewing"}
    PROVE  pair[p] \in Pair /\ pair[p].sid \in Sids /\ pair[p].sid <= issued
<1>1. pair[p] # None /\ pair[p].sid <= issued
  BY Remembered DEF MemoryOf
<1>2. pair[p] \in Pair
  BY <1>1 DEF Base, Types, ProcType
<1> QED  BY <1>1, <1>2, PairFields

LEMMA PrepareDoes ==
    ASSUME Base, NEW p \in Procs, Prepare(p)
    PROVE  /\ session # None /\ Preparable /\ UNCHANGED session
           /\ journal' \in Journal /\ journal'.op = ops + 1 /\ ops' = ops + 1
           /\ journal'.phase = "awaitingOtp" /\ journal'.orig = session.sid
           /\ journal'.prior = (journal # None /\ journal.phase = "renewalRequired")
           /\ journal'.next = None /\ journal'.nid = None /\ journal'.chal = None
           /\ pc[p] = "off" /\ Load(p, "otp", journal')
<1>1. session # None /\ session.sid \in Sids /\ ops + 1 \in Nat
  BY PairFields DEF Prepare, Base, Types, FileType, HistType, CountType
<1> DEFINE b == journal # None /\ journal.phase = "renewalRequired"
<1>2. b \in BOOLEAN
  OBVIOUS
<1>3. journal' = [op |-> ops + 1, phase |-> "awaitingOtp", orig |-> session.sid, prior |-> b,
                  next |-> None, nid |-> None, pub |-> None, chal |-> None]
  BY DEF Prepare
<1>4. UNCHANGED session /\ ops' = ops + 1 /\ Preparable /\ pc[p] = "off" /\ Load(p, "otp", journal')
  BY DEF Prepare, At
<1> HIDE DEF b
<1>5. /\ journal' \in Journal /\ journal'.op = ops + 1
      /\ journal'.phase = "awaitingOtp" /\ journal'.orig = session.sid
      /\ journal'.prior = b
      /\ journal'.next = None /\ journal'.nid = None /\ journal'.chal = None
  BY <1>1, <1>2, <1>3, NewJournal
<1> QED  BY <1>1, <1>4, <1>5 DEF b

LEMMA CompleteDoes ==
    ASSUME Base, NEW p \in Procs, Complete(p)
    PROVE  /\ pc[p] = "verified" /\ Same(p) /\ UNCHANGED session
           /\ journal.phase = "awaitingOtp" /\ pair[p] \in Pair
           /\ journal' \in Journal /\ journal'.phase = "prepared"
           /\ journal'.next = pair[p] /\ journal'.nid = pair[p].sid
           /\ journal'.op = journal.op /\ journal'.orig = journal.orig
           /\ Load(p, "gate", journal')
<1>1. pc[p] = "verified" /\ Same(p) /\ UNCHANGED session /\ Load(p, "gate", journal')
  BY DEF Complete, Advance, At
<1>2. journal \in Journal /\ journal.phase = "awaitingOtp" /\ pair[p] \in Pair
  BY <1>1, Loaded, Remembered, PairOf DEF Same, Loadable, MemoryOf
<1>3. journal' = [journal EXCEPT !.phase = "prepared", !.next = pair[p], !.nid = pair[p].sid]
  BY DEF Complete, Advance
<1> DEFINE x == pair[p]
<1>4. x \in Pair /\ journal' = [journal EXCEPT !.phase = "prepared", !.next = x, !.nid = x.sid]
  BY <1>2, <1>3
<1> HIDE DEF x
<1>5. /\ journal' \in Journal /\ journal'.phase = "prepared"
      /\ journal'.next = x /\ journal'.nid = x.sid
      /\ journal'.op = journal.op /\ journal'.orig = journal.orig
  BY <1>2, <1>4 DEF Journal, Phases, Pending, Pair
<1> QED  BY <1>1, <1>2, <1>5 DEF x

LEMMA BegunDoes ==
    ASSUME Base, NEW p \in Procs, Begun(p)
    PROVE  /\ pc[p] = "beginning" /\ answer[p] = "yes" /\ Same(p) /\ UNCHANGED session
           /\ journal.phase = "prepared" /\ session = pair[p]
           /\ journal' \in Journal /\ journal'.phase = "committing"
           /\ journal'.pub = session /\ journal'.chal = chal[p] /\ chal[p] \in 1 .. Len(chals)
           /\ chals[chal[p]].sid = journal.nid
           /\ journal'.op = journal.op /\ journal'.orig = journal.orig
           /\ journal'.next = journal.next /\ journal'.nid = journal.nid
           /\ Load(p, "signed", journal')
<1>1. /\ pc[p] = "beginning" /\ answer[p] = "yes" /\ Same(p) /\ UNCHANGED session
      /\ session = pair[p] /\ Load(p, "signed", journal')
  BY DEF Begun, Advance, At, Answered
<1>2. /\ journal \in Journal /\ journal.phase = "prepared" /\ pair[p] \in Pair
      /\ chal[p] \in 1 .. Len(chals) /\ chals[chal[p]].sid = journal.nid
  BY <1>1, Loaded, Remembered, PairOf DEF Same, Loadable, MemoryOf
<1>3. Len(chals) \in Nat
  BY ChalType DEF Base, Types, RelayType
<1>4. journal' = [journal EXCEPT !.phase = "committing", !.pub = pair[p], !.chal = chal[p]]
  BY DEF Begun, Advance
<1> DEFINE x == pair[p]  c == chal[p]
<1>5. x \in Pair /\ c \in Nat
  BY <1>2, <1>3
<1>6. journal' = [journal EXCEPT !.phase = "committing", !.pub = x, !.chal = c]
  BY <1>4
<1> HIDE DEF x, c
<1>7. /\ journal' \in Journal /\ journal'.phase = "committing"
      /\ journal'.pub = x /\ journal'.chal = c
      /\ journal'.op = journal.op /\ journal'.orig = journal.orig
      /\ journal'.next = journal.next /\ journal'.nid = journal.nid
  BY <1>2, <1>5, <1>6 DEF Journal, Phases, Pending
<1> QED  BY <1>1, <1>2, <1>7 DEF x, c

LEMMA RenouncedDoes ==
    ASSUME Base, NEW p \in Procs, Renounced(p)
    PROVE  /\ pc[p] = "signed" /\ Same(p) /\ UNCHANGED session
           /\ journal.phase \in {"committing", "serverCommitted"}
           /\ chals[journal.chal].status \in {"expired", "superseded"}
           /\ journal' \in Journal /\ journal'.phase = "prepared" /\ journal'.prior = TRUE
           /\ journal'.op = journal.op /\ journal'.orig = journal.orig
           /\ journal'.next = journal.next /\ journal'.nid = journal.nid
           /\ Leave(p)
<1>1. /\ pc[p] = "signed" /\ Same(p) /\ UNCHANGED session /\ Leave(p)
      /\ chals[journal.chal].status \in {"expired", "superseded"}
  BY DEF Renounced, At, StatusOf
<1>2. journal \in Journal /\ journal.phase \in {"committing", "serverCommitted"}
  BY <1>1, Loaded, Remembered DEF Same, Loadable, MemoryOf
<1>3. journal' = [journal EXCEPT !.phase = "prepared", !.prior = TRUE, !.chal = None, !.pub = None]
  BY DEF Renounced
<1> QED  BY <1>1, <1>2, <1>3, RenouncedJournal

LEMMA RecordedDoes ==
    ASSUME Base, NEW p \in Procs, ServerCommitted(p)
    PROVE  /\ \/ pc[p] = "signed"
              \/ pc[p] = "finishing" /\ answer[p] = "yes"
           /\ Same(p) /\ UNCHANGED session
           /\ journal.phase \in {"committing", "serverCommitted"}
           /\ chals[journal.chal].status = "committed"
           /\ journal' \in Journal /\ journal'.phase = "serverCommitted"
           /\ journal'.op = journal.op /\ journal'.orig = journal.orig
           /\ journal'.next = journal.next /\ journal'.nid = journal.nid
           /\ journal'.pub = journal.pub /\ journal'.chal = journal.chal
           /\ Load(p, "recorded", journal')
<1>1. /\ \/ pc[p] = "signed" /\ chals[journal.chal].status = "committed"
         \/ pc[p] = "finishing" /\ answer[p] = "yes"
      /\ Same(p) /\ UNCHANGED session /\ Load(p, "recorded", journal')
  BY DEF ServerCommitted, At, Answered, Advance, StatusOf
<1>2. /\ journal \in Journal /\ journal.phase \in {"committing", "serverCommitted"}
      /\ chals[journal.chal].status = "committed"
  BY <1>1, Loaded, Remembered DEF Same, Loadable, MemoryOf
<1>3. journal' = [journal EXCEPT !.phase = "serverCommitted"]
  BY DEF ServerCommitted, Advance
<1> QED  BY <1>1, <1>2, <1>3, RecordedJournal

LEMMA PublishedDoes ==
    ASSUME Base, NEW p \in Procs, PublishJournal(p)
    PROVE  /\ pc[p] = "recorded" /\ Same(p) /\ UNCHANGED session
           /\ journal.phase = "serverCommitted" /\ session = journal.next
           /\ journal' \in Journal /\ journal'.phase = "committed" /\ journal'.next = None
           /\ journal'.op = journal.op /\ journal'.orig = journal.orig
           /\ journal'.nid = journal.nid
           /\ Leave(p)
<1>1. pc[p] = "recorded" /\ Same(p) /\ UNCHANGED session /\ Leave(p) /\ session = journal.next
  BY DEF PublishJournal, At
<1>2. journal \in Journal /\ journal.phase = "serverCommitted"
  BY <1>1, Loaded, Remembered DEF Same, Loadable, MemoryOf
<1>3. journal' = [journal EXCEPT !.phase = "committed", !.next = None, !.pub = None, !.chal = None]
  BY DEF PublishJournal
<1> QED  BY <1>1, <1>2, <1>3, PublishedJournal

LEMMA RenewedDoes ==
    ASSUME Base, NEW p \in Procs, Renewed(p)
    PROVE  /\ pc[p] = "renewing" /\ answer[p] = "yes" /\ Same(p) /\ UNCHANGED session
           /\ journal.phase \in Pending /\ journal.next \in Pair
           /\ journal' \in Journal /\ journal'.phase = journal.phase
           /\ journal'.next \in Pair /\ journal'.next.sid = journal.next.sid
           /\ journal'.next.tok = journal.next.tok + 1
           /\ journal.phase \in {"committing", "serverCommitted"} => journal'.pub \in Pair
           /\ journal'.op = journal.op /\ journal'.orig = journal.orig
           /\ journal'.nid = journal.nid /\ journal'.chal = journal.chal
           /\ journal'.prior = journal.prior
           /\ Load(p, "gate", journal') /\ Drop(p)
<1>1. /\ pc[p] = "renewing" /\ answer[p] = "yes" /\ Same(p) /\ UNCHANGED session
      /\ Load(p, "gate", journal') /\ Drop(p)
  BY DEF Renewed, Advance, At, Answered
<1>2. /\ journal \in Journal /\ Holds(journal) /\ journal.phase \in Pending
      /\ journal.next.tok < MaxToks /\ session \in Pair
  BY <1>1, Loaded, Remembered DEF Same, Loadable, MemoryOf, Base, Types, FileType, Sound
<1>3. journal.next \in Pair
  BY <1>2, JournalFields DEF Holds
<1>4. Republish(p) = session \/ Republish(p) = journal.pub
  BY DEF Republish
<1>5. Republish(p) \in Pair \cup {None}
  BY <1>2, <1>4, JournalFields
<1> DEFINE x == Republish(p)
           y == [journal.next EXCEPT !.tok = @ + 1]
<1>6. /\ x \in Pair \cup {None}
      /\ y \in Pair /\ y.sid = journal.next.sid /\ y.tok = journal.next.tok + 1
      /\ journal' = [journal EXCEPT !.next = y, !.pub = x]
  <2>1. journal' = [journal EXCEPT !.next.tok = @ + 1, !.pub = x]
    BY DEF Renewed, Advance
  <2> HIDE DEF x
  <2>2. journal' = [journal EXCEPT !.next = y, !.pub = x]
    BY <1>2, <2>1 DEF Journal
  <2> QED  BY <1>2, <1>3, <1>5, <2>2, NextPair DEF x
<1> HIDE DEF x, y
<1>7. /\ journal' \in Journal /\ journal'.next \in Pair /\ journal'.pub = x
      /\ journal'.next.sid = journal.next.sid /\ journal'.next.tok = journal.next.tok + 1
      /\ journal'.op = journal.op /\ journal'.phase = journal.phase /\ journal'.orig = journal.orig
      /\ journal'.prior = journal.prior
      /\ journal'.nid = journal.nid /\ journal'.chal = journal.chal
  BY <1>2, <1>3, <1>6 DEF Journal
<1>8. journal.phase \in {"committing", "serverCommitted"} => journal'.pub \in Pair
  BY <1>2, <1>4, <1>7 DEF Holds, x
<1> QED  BY <1>1, <1>2, <1>3, <1>7, <1>8

LEMMA RefusedDoes ==
    ASSUME Base, NEW p \in Procs, RenewalRequired(p)
    PROVE  /\ pc[p] = "renewing" /\ answer[p] = "no" /\ Same(p) /\ UNCHANGED session
           /\ journal.phase \in Pending
           /\ journal' \in Journal /\ journal'.phase = "renewalRequired"
           /\ journal'.op = journal.op /\ journal'.orig = journal.orig
           /\ journal'.next = journal.next /\ journal'.nid = journal.nid
           /\ Leave(p)
<1>1. pc[p] = "renewing" /\ answer[p] = "no" /\ Same(p) /\ UNCHANGED session /\ Leave(p)
  BY DEF RenewalRequired, At, Answered
<1>2. journal \in Journal /\ journal.phase \in Pending
  BY <1>1, Loaded, Remembered DEF Same, Loadable, MemoryOf
<1>3. journal' = [journal EXCEPT !.phase = "renewalRequired", !.prior = TRUE]
  BY DEF RenewalRequired
<1> QED  BY <1>1, <1>2, <1>3, RefusedJournal

-----------------------------------------------------------------------------
(* What is known stays known.                                              *)

Later ==
    /\ Grows /\ issued <= issued' /\ ops <= ops'
    /\ expired \subseteq expired' /\ lost \subseteq lost'

\* A sign-in whose pair is thrown away is one of the sign-ins.
LEMMA LostStep ==
    ASSUME Base, [Next]_vars
    PROVE  lost' \subseteq Sids /\ lost \subseteq lost'
<1>0. lost \subseteq Sids
  BY DEF Base, Types, HistType
<1>1. ASSUME NEW p \in Procs, pc[p] = "spending" PROVE pair[p].sid \in Sids
  BY <1>1, PairOf DEF Using
<1>2. ASSUME NEW p \in Procs PROVE Spent(p) \subseteq Sids
  <2>1. CASE pc[p] = "renewing"
    <3>1. Holds(snap[p]) /\ snap[p].phase \in Pending
      BY <2>1, Remembered DEF MemoryOf, Steps
    <3>2. snap[p].next \in Pair /\ snap[p].nid = snap[p].next.sid
      BY <3>1, JournalFields DEF Holds
    <3> QED  BY <2>1, <3>2, PairFields DEF Spent, At
  <2>2. CASE pc[p] # "renewing"
    BY <1>1, <2>2 DEF Spent, At
  <2> QED  BY <2>1, <2>2
<1>3. ASSUME NEW p \in Procs, Refreshed(p) PROVE lost' \subseteq Sids /\ lost \subseteq lost'
  BY <1>0, <1>1, <1>3 DEF Refreshed, At
<1>4. ASSUME NEW p \in Procs, Dies(p) \/ Changed(p) PROVE lost' \subseteq Sids /\ lost \subseteq lost'
  BY <1>0, <1>2, <1>4 DEF Dies, Changed
<1> QED  BY <1>0, <1>3, <1>4, LostMoves

LEMMA RequestNamed ==
    ASSUME Base, NEW r \in flying
    PROVE  Named(r) /\ RequestOf(r) /\ r.pair \in Pair /\ r.pair.sid \in Sids
BY PairFields DEF Base, Types, NetType, BaseInv, RequestInv, RequestOf, Named, Req

LEMMA LaterStep ==
    ASSUME Base, [Next]_vars
    PROVE  RelayType' /\ HistType' /\ Later
<1>1. RelayType' /\ Grows /\ issued <= issued' /\ expired \subseteq expired'
  BY RequestNamed, RelayTypeStep DEF Base, Types
<1>2. CountType' /\ ops <= ops'
  BY CountStep DEF Base, Types, HistType
<1> QED  BY <1>1, <1>2, LostStep DEF Later, HistType

\* Holds(j), one step later.
HoldsNext(j) ==
    /\ j \in Journal /\ j.op \in 1 .. ops'
    /\ j.orig <= issued' /\ (j.nid # None => j.nid <= issued')
    /\ j.next # None => j.nid = j.next.sid
    /\ j.phase \in Pending \cup {"renewalRequired"} => j.next # None
    /\ j.phase = "awaitingOtp" => j.next = None /\ j.nid = None
    /\ j.phase = "committed" => j.next = None
    /\ j.phase \in {"committing", "serverCommitted"} =>
          /\ j.pub \in Pair /\ j.chal \in 1 .. Len(chals')
          /\ chals'[j.chal].sid = j.nid
    /\ j.phase = "serverCommitted" => chals'[j.chal].status = "committed"

LEMMA Numbers ==
    ASSUME Base
    PROVE  /\ issued \in Nat /\ issued \in Sids /\ ops \in Nat /\ Len(chals) \in Nat
           /\ bound \in Nat /\ \A s \in Sids : s \in Nat
           /\ None \notin Sids
BY ChalType, Bounds, NoneIsNone DEF Base, Types, RelayType, HistType, CountType, Sids

LEMMA HoldsStays ==
    ASSUME Base, Later, RelayType', HistType', NEW j, Holds(j)
    PROVE  HoldsNext(j)
<1>1. issued' \in Nat /\ ops' \in Nat /\ Len(chals') \in Nat
  <2>1. issued' \in Nat /\ ops' \in Nat
    BY Bounds DEF RelayType, HistType, CountType, Sids
  <2>2. chals' \in Seq([sid : Sids, status : Status])
    BY DEF RelayType, Chals
  <2> QED  BY <2>1, <2>2, LenProperties
<1>2. j \in Journal /\ j.op \in 1 .. ops /\ j.orig \in Nat
  BY Numbers, JournalFields DEF Holds
<1>3. j.orig <= issued' /\ j.op \in 1 .. ops'
  BY <1>1, <1>2, Numbers DEF Holds, Later
<1>4. ASSUME j.nid # None PROVE j.nid <= issued'
  BY <1>1, <1>2, <1>4, JournalFields, Numbers DEF Holds, Later
<1>5. ASSUME j.phase \in {"committing", "serverCommitted"}
      PROVE  /\ j.pub \in Pair /\ j.chal \in 1 .. Len(chals')
             /\ chals'[j.chal].sid = j.nid
             /\ j.phase = "serverCommitted" => chals'[j.chal].status = "committed"
  <2>1. /\ j.pub \in Pair /\ j.chal \in 1 .. Len(chals) /\ chals[j.chal].sid = j.nid
        /\ j.phase = "serverCommitted" => chals[j.chal].status = "committed"
    BY <1>5 DEF Holds
  <2>2. Len(chals) \in Nat /\ Len(chals) <= Len(chals') /\ chals'[j.chal].sid = chals[j.chal].sid
        /\ (chals[j.chal].status = "committed" => chals'[j.chal].status = "committed")
    BY <2>1, Numbers DEF Later, Grows
  <2> QED  BY <1>1, <2>1, <2>2
<1> QED  BY <1>2, <1>3, <1>4, <1>5 DEF Holds, HoldsNext

\* Every writer leaves a journal that holds what its phase needs.
LEMMA JournalStepHolds ==
    ASSUME Base, Later, RelayType', HistType', NEW p \in Procs, JournalStep(p)
    PROVE  journal' \in Journal /\ HoldsNext(journal')
<1>0. /\ \A j : Holds(j) => HoldsNext(j)
      /\ issued \in Nat /\ issued' \in Nat /\ ops \in Nat /\ issued <= issued'
  BY HoldsStays, Numbers, Bounds DEF Later, RelayType, Sids
<1>1. CASE Prepare(p)
  <2>1. session.sid \in Nat /\ session.sid <= issued
    BY <1>1, PrepareDoes, PairFields, Numbers DEF Base, Types, FileType
  <2>2. ops' = ops + 1 /\ journal'.op \in 1 .. ops'
    BY <1>0, <1>1, PrepareDoes
  <2>3. journal'.orig <= issued'
    BY <1>0, <1>1, <2>1, PrepareDoes
  <2> QED  BY <1>1, <2>2, <2>3, PrepareDoes DEF HoldsNext, Pending
<1>2. CASE Complete(p)
  <2>1. HoldsNext(journal)
    BY <1>0, <1>2, CompleteDoes, Loaded DEF Same, Loadable
  <2>2. pair[p].sid \in Nat /\ pair[p].sid <= issued
    BY <1>2, CompleteDoes, PairOf, Numbers
  <2>3. journal'.next # None
    BY <1>2, CompleteDoes, NoneIsNone
  <2>4. journal'.nid <= issued'
    BY <1>0, <1>2, <2>2, CompleteDoes
  <2> QED  BY <1>2, <2>1, <2>3, <2>4, CompleteDoes DEF HoldsNext
<1>3. CASE Begun(p)
  <2>1. HoldsNext(journal)
    BY <1>0, <1>3, BegunDoes, Loaded DEF Same, Loadable
  <2>2. session \in Pair
    BY <1>3, BegunDoes, PairOf
  <2>3. journal'.chal \in 1 .. Len(chals') /\ chals'[journal'.chal].sid = journal'.nid
    <3>1. Len(chals) \in Nat /\ Len(chals') \in Nat
      BY ChalType, LenProperties DEF Base, Types, RelayType, Chals
    <3> QED  BY <1>3, <3>1, BegunDoes DEF Later, Grows
  <2> QED  BY <1>3, <2>1, <2>2, <2>3, BegunDoes DEF HoldsNext, Pending
<1>4. CASE Renounced(p)
  <2>1. HoldsNext(journal)
    BY <1>0, <1>4, RenouncedDoes, Loaded DEF Same, Loadable
  <2> QED  BY <1>4, <2>1, RenouncedDoes DEF HoldsNext, Pending
<1>5. CASE ServerCommitted(p)
  <2>1. HoldsNext(journal) /\ journal.chal \in 1 .. Len(chals)
    BY <1>0, <1>5, RecordedDoes, Loaded DEF Same, Loadable, Holds
  <2>2. chals'[journal.chal].status = "committed"
    BY <1>5, <2>1, RecordedDoes DEF Later, Grows
  <2> QED  BY <1>5, <2>1, <2>2, RecordedDoes DEF HoldsNext, Pending
<1>6. CASE PublishJournal(p)
  <2>1. HoldsNext(journal)
    BY <1>0, <1>6, PublishedDoes, Loaded DEF Same, Loadable
  <2> QED  BY <1>6, <2>1, PublishedDoes DEF HoldsNext, Pending
<1>7. CASE Renewed(p)
  <2>1. HoldsNext(journal)
    BY <1>0, <1>7, RenewedDoes, Loaded DEF Same, Loadable
  <2>2. journal.next # None /\ journal'.next # None
    BY <1>7, RenewedDoes, NoneIsNone
  <2> QED  BY <1>7, <2>1, <2>2, RenewedDoes DEF HoldsNext, Pending
<1>8. CASE RenewalRequired(p)
  <2>1. HoldsNext(journal)
    BY <1>0, <1>8, RefusedDoes, Loaded DEF Same, Loadable
  <2> QED  BY <1>8, <2>1, RefusedDoes DEF HoldsNext, Pending
<1> QED  BY <1>1, <1>2, <1>3, <1>4, <1>5, <1>6, <1>7, <1>8 DEF JournalStep

LEMMA JournalHolds ==
    ASSUME Base, [Next]_vars
    PROVE  /\ journal' \in Journal \cup {None}
           /\ journal' # None => HoldsNext(journal')
<1>1. Later /\ RelayType' /\ HistType'
  BY LaterStep
<1>2. CASE UNCHANGED journal
  BY <1>1, <1>2, HoldsStays, Loaded DEF Base, Types, FileType
<1>3. CASE ClearJournal
  BY <1>3 DEF ClearJournal
<1> QED  BY <1>1, <1>2, <1>3, JournalMoves, JournalStepHolds

LEMMA FileTypeStep ==
    ASSUME Base, [Next]_vars
    PROVE  FileType'
<1>0. /\ issued \in Nat /\ issued' \in Nat /\ issued <= issued' /\ issued' \in Sids
      /\ session \in Pair \cup {None} /\ (session # None => session.sid \in Nat /\ session.sid <= issued)
  BY LaterStep, Numbers, Bounds, PairFields DEF Later, RelayType, Sids, Base, Types, FileType
<1>1. session' \in Pair \cup {None} /\ (session' # None => session'.sid <= issued')
  <2>1. CASE UNCHANGED session
    BY <1>0, <2>1
  <2>2. CASE ClearSession
    BY <2>2 DEF ClearSession
  <2>3. CASE Relink
    <3>1. session' = [sid |-> issued', tok |-> 0]
      BY <2>3 DEF Relink
    <3> QED  BY <1>0, <3>1, PairFields, Bounds
  <2>4. ASSUME NEW p \in Procs, Refreshed(p)
        PROVE  session' \in Pair \cup {None} /\ (session' # None => session'.sid <= issued')
    <3>1. pc[p] = "spending" /\ answer[p] = "yes"
      BY <2>4 DEF Refreshed, At, Answered
    <3>2. pair[p] \in Pair /\ pair[p].sid \in Nat /\ pair[p].sid <= issued /\ pair[p].tok < MaxToks
      BY <3>1, PairOf, Remembered, Numbers DEF MemoryOf, Using
    <3>3. UNCHANGED session \/ session' = [pair[p] EXCEPT !.tok = @ + 1]
      BY <2>4 DEF Refreshed, Stored
    <3> DEFINE x == pair[p]
               y == [x EXCEPT !.tok = @ + 1]
    <3>4. y \in Pair /\ y.sid = x.sid
      BY <3>2, NextPair
    <3>5. x.sid \in Nat /\ x.sid <= issued /\ (UNCHANGED session \/ session' = y)
      BY <3>2, <3>3
    <3> HIDE DEF x, y
    <3>6. session' = y => session' \in Pair /\ session'.sid <= issued'
      BY <1>0, <3>4, <3>5
    <3> QED  BY <1>0, <3>5, <3>6
  <2>5. ASSUME NEW p \in Procs, PublishSession(p)
        PROVE  session' \in Pair \cup {None} /\ (session' # None => session'.sid <= issued')
    <3>1. session' = journal.next /\ journal # None
      BY <2>5 DEF PublishSession, Same, Loadable
    <3>2. journal.next \in Pair \cup {None}
          /\ (journal.next # None => journal.next.sid \in Nat /\ journal.next.sid <= issued)
      BY <3>1, Loaded, JournalFields, PairFields, Numbers DEF Holds
    <3> QED  BY <1>0, <3>1, <3>2
  <2> QED  BY <2>1, <2>2, <2>3, <2>4, <2>5, SessionMoves
<1> QED  BY <1>1, JournalHolds DEF FileType

-----------------------------------------------------------------------------
(* One process moves, the others rest.                                     *)

Rests(q) ==
    /\ pc'[q] = pc[q] /\ opened'[q] = opened[q] /\ snap'[q] = snap[q]
    /\ pair'[q] = pair[q] /\ chal'[q] = chal[q]

Others(p) ==
    \A q \in Procs : q # p =>
        /\ Rests(q) /\ answer'[q] = answer[q]
        /\ (pump' = q <=> pump = q) /\ (fresh' = q <=> fresh = q)

\* A process that waits for nothing has no answer.
LEMMA NoAnswer ==
    ASSUME Base, NEW p \in Procs, ~Waiting(p)
    PROVE  answer[p] = None
BY Remembered DEF LockOf

LEMMA Gone ==
    ASSUME Base, NEW p \in Procs, NEW step \in Steps, NEW j \in Journal \cup {None}, Load(p, step, j)
    PROVE  /\ ProcType' /\ \A q \in Procs : q # p => Rests(q)
           /\ pc'[p] = step /\ snap'[p] = j /\ pair'[p] = None
BY DEF Base, Types, ProcType, Load, Go, Rests

LEMMA Left ==
    ASSUME Base, NEW p \in Procs, Leave(p), answer' \in {answer, [answer EXCEPT ![p] = None]},
           answer'[p] = None
    PROVE  /\ ProcType' /\ Others(p) /\ LockType' /\ LockOf(p)'
           /\ answer' \in [Procs -> {"yes", "no", None}]
           /\ pc'[p] = "off"
<1>1. Load(p, "off", None) /\ Drop(p)
  BY DEF Leave
<1>2. ProcType' /\ (\A q \in Procs : q # p => Rests(q)) /\ pc'[p] = "off"
  BY <1>1, Gone DEF Steps
<1>3. /\ LockType' /\ pump' # p /\ fresh' # p
      /\ \A q \in Procs : q # p => (pump' = q <=> pump = q) /\ (fresh' = q <=> fresh = q)
  BY <1>1, NoneIsNone DEF Drop, Held, Base, Types, LockType
<1>4. answer' \in [Procs -> {"yes", "no", None}] /\ \A q \in Procs : q # p => answer'[q] = answer[q]
  BY DEF Base, Types, NetType
<1> QED  BY <1>2, <1>3, <1>4 DEF Others, LockOf, Fresh, Gated, Using

\* The step of p that goes on: its place, its locks, its answer.
Moved(p) ==
    /\ ProcType' /\ Others(p) /\ LockType' /\ LockOf(p)'
    /\ answer' \in [Procs -> {"yes", "no", None}] /\ answer'[p] = None

LEMMA UseMoves ==
    ASSUME Base, NEW p \in Procs, Use(p)
    PROVE  Moved(p)
<1> USE DEF Moved
<1>0. /\ ProcType /\ LockType /\ LockOf(p) /\ answer \in [Procs -> {"yes", "no", None}]
      /\ session \in Pair \cup {None} /\ \A x \in Pair : x.sid \in Sids
      /\ None \notin Procs
  BY Remembered, PairFields, NoneIsNone DEF Base, Types, NetType, FileType
<1>1. CASE StartPass(p)
  <2>1. ProcType' /\ pc'[p] = "open" /\ \A q \in Procs : q # p => Rests(q)
    BY <1>0, <1>1 DEF StartPass, Go, ProcType, Rests, Steps
  <2>2. pump = None /\ pump' = p /\ UNCHANGED <<fresh, answer>> /\ pc[p] = "off"
    BY <1>1 DEF StartPass, Alone, net, At
  <2> QED  BY <1>0, <2>1, <2>2 DEF Others, LockType, LockOf, Fresh, Gated, Using, Waiting
<1>2. CASE EndPass(p)
  <2>1. Leave(p) /\ UNCHANGED answer /\ answer[p] = None
    BY <1>2, NoAnswer DEF EndPass, Alone, net, At, Waiting
  <2> QED  BY <2>1, Left
<1>3. CASE Permit(p)
  <2>1. ProcType' /\ pc'[p] = "permitted" /\ \A q \in Procs : q # p => Rests(q)
    BY <1>0, <1>3 DEF Permit, Go, ProcType, Rests, Steps
  <2>2. fresh = None /\ fresh' = p /\ UNCHANGED <<pump, answer>> /\ pc[p] \in {"off", "open"}
    BY <1>3 DEF Permit, Alone, net, At
  <2> QED  BY <1>0, <2>1, <2>2 DEF Others, LockType, LockOf, Fresh, Gated, Using, Waiting
<1>4. CASE Unspent(p) \/ Refreshed(p) \/ Rejected(p)
  <2>1. Reopen(p) /\ fresh' = None /\ UNCHANGED pump /\ pc[p] \in Using
    BY <1>4 DEF Unspent, Refreshed, Rejected, At, Using
  <2>2. answer' \in [Procs -> {"yes", "no", None}] /\ answer'[p] = None
        /\ \A q \in Procs : q # p => answer'[q] = answer[q]
    BY <1>0, <1>4 DEF Unspent, Refreshed, Rejected, Alone, net, Answered, LockOf, Waiting, At
  <2>3. ProcType' /\ pc'[p] = (IF pump = p THEN "open" ELSE "off") /\ \A q \in Procs : q # p => Rests(q)
    BY <1>0, <2>1 DEF Reopen, Go, ProcType, Rests, Steps
  <2>4. fresh = p
    BY <1>0, <2>1 DEF LockOf, Fresh, Using
  <2> QED  BY <1>0, <2>1, <2>2, <2>3, <2>4 DEF Others, LockType, LockOf, Fresh, Gated, Using, Waiting
<1>5. CASE Spend(p)
  <2>1. ProcType' /\ pc'[p] = "spending" /\ \A q \in Procs : q # p => Rests(q)
    BY <1>0, <1>5 DEF Spend, Go, Keeps, ProcType, Rests, Steps
  <2>2. UNCHANGED <<pump, fresh, answer>> /\ pc[p] = "permitted"
    BY <1>5 DEF Spend, locks, At
  <2> QED  BY <1>0, <2>1, <2>2 DEF Others, LockType, LockOf, Fresh, Gated, Using, Waiting
<1> QED  BY <1>1, <1>2, <1>3, <1>4, <1>5 DEF Use

\* The steps of a renewal that only load a journal.
LEMMA LoadMoves ==
    ASSUME Base, NEW p \in Procs, NEW step \in {"otp", "gate", "due"},
           NEW j \in Journal \cup {None}, Load(p, step, j),
           \/ UNCHANGED locks /\ fresh # p /\ pump # p
           \/ Drop(p),
           answer' \in {answer, [answer EXCEPT ![p] = None]}, answer'[p] = None
    PROVE  Moved(p) /\ pc'[p] = step /\ snap'[p] = j
<1>1. ProcType' /\ (\A q \in Procs : q # p => Rests(q)) /\ pc'[p] = step /\ snap'[p] = j
  BY Gone DEF Steps
<1>2. /\ LockType' /\ pump' # p /\ fresh' # p
      /\ \A q \in Procs : q # p => (pump' = q <=> pump = q) /\ (fresh' = q <=> fresh = q)
  BY NoneIsNone DEF Drop, Held, Base, Types, LockType, locks
<1>3. answer' \in [Procs -> {"yes", "no", None}] /\ \A q \in Procs : q # p => answer'[q] = answer[q]
  BY DEF Base, Types, NetType
<1> QED  BY <1>1, <1>2, <1>3 DEF Moved, Others, LockOf, Fresh, Gated, Using

\* The steps of a renewal between two places under both locks.
Under == {"locked", "beginning", "signed", "finishing", "recorded", "pending", "renewing"}

LEMMA UnderMoves ==
    ASSUME Base, NEW p \in Procs, ProcType', \A q \in Procs : q # p => Rests(q),
           pc'[p] \in Under,
           \/ pc[p] \in Under /\ UNCHANGED locks
           \/ pump = None /\ fresh = None /\ pump' = p /\ fresh' = p,
           answer' \in {answer, [answer EXCEPT ![p] = None]}, answer'[p] = None
    PROVE  Moved(p)
<1>1. LockOf(p) /\ LockType /\ answer \in [Procs -> {"yes", "no", None}] /\ None \notin Procs
  BY Remembered, NoneIsNone DEF Base, Types, NetType
<1>2. /\ LockType' /\ pump' = p /\ fresh' = p
      /\ \A q \in Procs : q # p => (pump' = q <=> pump = q) /\ (fresh' = q <=> fresh = q)
  BY <1>1 DEF LockType, LockOf, Under, Fresh, Gated, locks
<1>3. answer' \in [Procs -> {"yes", "no", None}] /\ \A q \in Procs : q # p => answer'[q] = answer[q]
  BY <1>1
<1> QED  BY <1>2, <1>3 DEF Moved, Others, LockOf, Under, Fresh, Gated

\* Steps that keep what p has in memory.
LEMMA Going ==
    ASSUME Base, NEW p \in Procs, NEW step \in Steps, Go(p, step), Keeps
    PROVE  ProcType' /\ pc'[p] = step /\ \A q \in Procs : q # p => Rests(q)
BY DEF Base, Types, ProcType, Go, Keeps, Rests

LEMMA ReauthMoves ==
    ASSUME Base, NEW p \in Procs, Reauth(p)
    PROVE  Moved(p)
<1>0. /\ ProcType /\ LockType /\ LockOf(p) /\ answer \in [Procs -> {"yes", "no", None}]
      /\ session \in Pair \cup {None} /\ journal \in Journal \cup {None} /\ None \notin Procs
  BY Remembered, NoneIsNone DEF Base, Types, NetType, FileType
<1>1. CASE Prepare(p) \/ Rejoin(p) \/ Rerun(p, "gate")
  <2>1. /\ pc[p] = "off" /\ answer' = answer /\ UNCHANGED locks
    BY <1>1 DEF Prepare, Rejoin, Rerun, At, Alone, net
  <2>2. \E step \in {"otp", "gate"}, j \in Journal \cup {None} : Load(p, step, j)
    BY <1>0, <1>1, PrepareDoes DEF Rejoin, Rerun
  <2>3. fresh # p /\ pump # p /\ answer'[p] = None
    BY <1>0, <2>1 DEF LockOf, Fresh, Gated, Using, Waiting
  <2> QED  BY <2>1, <2>2, <2>3, LoadMoves
<1>2. CASE Verify(p)
  <2>1. ProcType' /\ pc'[p] = "verified" /\ \A q \in Procs : q # p => Rests(q)
    <3>1. issued + 1 \in Sids /\ 0 \in 0 .. MaxToks
      BY <1>2, Bounds DEF Verify, Base, Types, RelayType, Sids
    <3> DEFINE x == [sid |-> issued + 1, tok |-> 0]
    <3>2. x \in Pair
      BY <3>1, PairFields
    <3>3. pair' = [pair EXCEPT ![p] = x] /\ Go(p, "verified") /\ UNCHANGED <<opened, snap, chal>>
      BY <1>2 DEF Verify
    <3> HIDE DEF x
    <3> QED  BY <1>0, <3>2, <3>3 DEF Go, ProcType, Rests, Steps
  <2>2. UNCHANGED <<pump, fresh, answer>> /\ pc[p] = "otp"
    BY <1>2 DEF Verify, locks, net, At
  <2> QED
    BY <1>0, <2>1, <2>2 DEF Moved, Others, LockType, LockOf, Fresh, Gated, Using, Waiting
<1>3. CASE Complete(p)
  <2>1. /\ pc[p] = "verified" /\ answer' = answer /\ UNCHANGED locks
        /\ journal' \in Journal /\ Load(p, "gate", journal')
    BY <1>3, CompleteDoes DEF Complete, Alone, net
  <2>2. fresh # p /\ pump # p /\ answer'[p] = None
    BY <1>0, <2>1 DEF LockOf, Fresh, Gated, Using, Waiting
  <2> QED  BY <2>1, <2>2, LoadMoves
<1>4. CASE Lock(p, "gate", "locked")
  <2>1. /\ pc[p] = "gate" /\ answer' = answer
        /\ pump = None /\ fresh = None /\ pump' = p /\ fresh' = p
        /\ Go(p, "locked") /\ Keeps
    BY <1>4 DEF Lock, At, Alone, net
  <2>2. ProcType' /\ pc'[p] \in Under /\ \A q \in Procs : q # p => Rests(q)
    BY <2>1, Going DEF Steps, Under
  <2>3. answer'[p] = None
    BY <1>0, <2>1 DEF LockOf, Waiting
  <2> QED  BY <2>1, <2>2, <2>3, UnderMoves
<1>5. CASE Begin(p)
  <2>1. /\ pc[p] = "locked" /\ UNCHANGED <<answer, locks>>
        /\ Go(p, "beginning") /\ pair' = [pair EXCEPT ![p] = session]
        /\ UNCHANGED <<opened, snap, chal>>
    BY <1>5 DEF Begin, At
  <2>2. ProcType' /\ pc'[p] \in Under /\ \A q \in Procs : q # p => Rests(q)
    BY <1>0, <2>1 DEF Go, ProcType, Rests, Steps, Under
  <2>3. answer'[p] = None
    BY <1>0, <2>1 DEF LockOf, Waiting
  <2> QED  BY <2>1, <2>2, <2>3, UnderMoves DEF Under
<1>6. CASE Continue(p) \/ Finish(p) \/ PublishSession(p)
  <2>1. /\ pc[p] \in {"locked", "signed", "recorded"} /\ UNCHANGED <<answer, locks>>
        /\ \E step \in {"signed", "finishing", "recorded"} : Go(p, step) /\ Keeps
    BY <1>6 DEF Continue, Finish, PublishSession, At, Alone, net
  <2>2. ProcType' /\ pc'[p] \in Under /\ \A q \in Procs : q # p => Rests(q)
    BY <2>1, Going DEF Steps, Under
  <2>3. answer'[p] = None
    BY <1>0, <2>1 DEF LockOf, Waiting
  <2> QED  BY <2>1, <2>2, <2>3, UnderMoves DEF Under
<1>7. CASE Begun(p)
  <2>1. /\ pc[p] = "beginning" /\ answer' = [answer EXCEPT ![p] = None] /\ UNCHANGED locks
        /\ journal' \in Journal /\ Load(p, "signed", journal')
    BY <1>7, BegunDoes DEF Begun, Answered
  <2>2. ProcType' /\ pc'[p] \in Under /\ \A q \in Procs : q # p => Rests(q)
    BY <2>1, Gone DEF Steps, Under
  <2>3. answer'[p] = None
    BY <1>0, <2>1
  <2> QED  BY <2>1, <2>2, <2>3, UnderMoves DEF Under
<1>8. CASE ServerCommitted(p)
  <2>1. /\ pc[p] \in {"signed", "finishing"}
        /\ answer' \in {answer, [answer EXCEPT ![p] = None]} /\ UNCHANGED locks
        /\ journal' \in Journal /\ Load(p, "recorded", journal')
    BY <1>8, RecordedDoes DEF ServerCommitted, Answered
  <2>2. ProcType' /\ pc'[p] \in Under /\ \A q \in Procs : q # p => Rests(q)
    BY <2>1, Gone DEF Steps, Under
  <2>3. answer'[p] = None
    BY <1>0, <1>8 DEF LockOf, Waiting, ServerCommitted, At, Answered
  <2> QED  BY <2>1, <2>2, <2>3, UnderMoves DEF Under
<1>9. CASE Renounced(p) \/ PublishJournal(p)
  <2>1. pc[p] \in {"signed", "recorded"} /\ Leave(p) /\ UNCHANGED answer
    BY <1>9 DEF Renounced, PublishJournal, At, Alone, net
  <2>2. answer'[p] = None
    BY <1>0, <2>1 DEF LockOf, Waiting
  <2> QED  BY <2>1, <2>2, Left DEF Moved
<1> QED  BY <1>1, <1>2, <1>3, <1>4, <1>5, <1>6, <1>7, <1>8, <1>9 DEF Reauth

LEMMA RefreshMoves ==
    ASSUME Base, NEW p \in Procs, Refresh(p) \/ Ends(p) \/ Dies(p) \/ Changed(p)
    PROVE  Moved(p)
<1>0. /\ ProcType /\ LockType /\ LockOf(p) /\ answer \in [Procs -> {"yes", "no", None}]
      /\ session \in Pair \cup {None} /\ journal \in Journal \cup {None} /\ None \notin Procs
  BY Remembered, NoneIsNone DEF Base, Types, NetType, FileType
<1>1. CASE Rerun(p, "due")
  <2>1. /\ pc[p] = "off" /\ answer' = answer /\ UNCHANGED locks /\ Load(p, "due", journal)
    BY <1>1 DEF Rerun, At, Alone, net
  <2>2. fresh # p /\ pump # p /\ answer'[p] = None
    BY <1>0, <2>1 DEF LockOf, Fresh, Gated, Using, Waiting
  <2> QED  BY <1>0, <2>1, <2>2, LoadMoves
<1>2. CASE Lock(p, "due", "pending")
  <2>1. /\ pc[p] = "due" /\ answer' = answer
        /\ pump = None /\ fresh = None /\ pump' = p /\ fresh' = p
        /\ Go(p, "pending") /\ Keeps
    BY <1>2 DEF Lock, At, Alone, net
  <2>2. ProcType' /\ pc'[p] \in Under /\ \A q \in Procs : q # p => Rests(q)
    BY <2>1, Going DEF Steps, Under
  <2>3. answer'[p] = None
    BY <1>0, <2>1 DEF LockOf, Waiting
  <2> QED  BY <2>1, <2>2, <2>3, UnderMoves
<1>3. CASE Renew(p)
  <2>1. /\ pc[p] = "pending" /\ UNCHANGED <<answer, locks>>
        /\ Go(p, "renewing") /\ pair' = [pair EXCEPT ![p] = session]
        /\ snap' = [snap EXCEPT ![p] = journal]
        /\ UNCHANGED <<opened, chal>>
    BY <1>3 DEF Renew, At
  <2>2. ProcType' /\ pc'[p] \in Under /\ \A q \in Procs : q # p => Rests(q)
    BY <1>0, <2>1 DEF Go, ProcType, Rests, Steps, Under
  <2>3. answer'[p] = None
    BY <1>0, <2>1 DEF LockOf, Waiting
  <2> QED  BY <2>1, <2>2, <2>3, UnderMoves DEF Under
<1>4. CASE Unrenewed(p)
  <2>1. pc[p] = "pending" /\ answer' = answer /\ Load(p, "gate", journal) /\ Drop(p)
    BY <1>4 DEF Unrenewed, At, Alone, net
  <2>2. answer'[p] = None
    BY <1>0, <2>1 DEF LockOf, Waiting
  <2> QED  BY <1>0, <2>1, <2>2, LoadMoves
<1>5. CASE Renewed(p)
  <2>1. /\ answer' = [answer EXCEPT ![p] = None]
        /\ journal' \in Journal /\ Load(p, "gate", journal') /\ Drop(p)
    BY <1>5, RenewedDoes DEF Renewed, Answered
  <2> QED  BY <1>0, <2>1, LoadMoves
<1>6. CASE RenewalRequired(p) \/ Dies(p) \/ Changed(p)
  <2>1. Leave(p) /\ answer' = [answer EXCEPT ![p] = None]
    BY <1>6 DEF RenewalRequired, Dies, Changed, Answered
  <2> QED  BY <1>0, <2>1, Left DEF Moved
<1>7. CASE Ends(p)
  <2>1. Leave(p) /\ answer' = answer /\ answer[p] = None
    BY <1>7, NoAnswer DEF Ends, Alone, net, Waiting
  <2> QED  BY <2>1, Left DEF Moved
<1> QED  BY <1>1, <1>2, <1>3, <1>4, <1>5, <1>6, <1>7 DEF Refresh

LEMMA ProcessMoves ==
    ASSUME Base, NEW p \in Procs,
           Use(p) \/ Reauth(p) \/ Refresh(p) \/ Ends(p) \/ Dies(p) \/ Changed(p)
    PROVE  Moved(p)
BY UseMoves, ReauthMoves, RefreshMoves
-----------------------------------------------------------------------------
(* The relay's step, seen from the machine.                                *)

Replies(r) ==
    /\ UNCHANGED <<session, journal, pump, fresh, pc, opened, snap, pair, lost>>
    /\ flying' = flying \ {r}
    /\ answer' \in [Procs -> {"yes", "no", None}] /\ chal' \in [Procs -> Nat \cup {None}]
    /\ \A q \in Procs : q # r.from => answer'[q] = answer[q] /\ chal'[q] = chal[q]
    /\ r.from # None => answer[r.from] = None /\ answer'[r.from] \in {"yes", "no"}

LEMMA RelayReplies ==
    ASSUME Base, NEW r \in flying, ServeRefresh(r) \/ ServeBegin(r) \/ ServeFinish(r)
    PROVE  Replies(r)
<1>1. UNCHANGED <<session, journal, pump, fresh, pc, opened, snap, pair, lost>>
  BY DEF ServeRefresh, ServeBegin, ServeFinish, Unserved, procVars, files, locks
<1>2. /\ r.from \in Procs \cup {None} /\ None \notin Procs
      /\ r.from # None => answer[r.from] = None
  BY RequestNamed, NoneIsNone DEF Named, Req, RequestOf
<1>3. Reply(r, "yes") \/ Reply(r, "no")
  BY DEF ServeRefresh, ServeBegin, ServeFinish
<1>4. /\ flying' = flying \ {r} /\ answer' \in [Procs -> {"yes", "no", None}]
      /\ \A q \in Procs : q # r.from => answer'[q] = answer[q]
      /\ r.from # None => answer'[r.from] \in {"yes", "no"}
  BY <1>2, <1>3 DEF Reply, Base, Types, NetType
<1>5. UNCHANGED chal \/ chal' = [chal EXCEPT ![r.from] = Len(chals) + 1]
  BY DEF ServeRefresh, ServeBegin, ServeFinish, procVars
<1>6. Len(chals) + 1 \in Nat
  BY Numbers
<1>7. /\ chal' \in [Procs -> Nat \cup {None}]
      /\ \A q \in Procs : q # r.from => chal'[q] = chal[q]
  BY <1>5, <1>6 DEF Base, Types, ProcType
<1> QED  BY <1>1, <1>2, <1>4, <1>7 DEF Replies

\* Everything else keeps the processes as they are.
Apart ==
    UNCHANGED <<pump, fresh, pc, opened, snap, pair, chal, flying, answer, lost>>

\* What a step may be.
LEMMA StepCases ==
    ASSUME Base, [Next]_vars
    PROVE  \/ Apart
           \/ \E r \in flying : Replies(r) /\ (ServeRefresh(r) \/ ServeBegin(r) \/ ServeFinish(r))
           \/ \E p \in Procs : /\ Moved(p)
                               /\ Use(p) \/ Reauth(p) \/ Refresh(p) \/ Ends(p) \/ Dies(p) \/ Changed(p)
<1>1. Logout => Apart
  BY DEF Logout, ClearSession, ClearJournal, Relink, Apart, locks, procVars, net, Alone
<1>2. ASSUME NEW c \in DOMAIN chals, ChallengeExpires(c) PROVE Apart
  BY <1>2 DEF ChallengeExpires, Apart, locks, procVars, net
<1>3. ASSUME NEW s \in Sids, SignInEnds(s) PROVE Apart
  BY <1>3 DEF SignInEnds, Apart, locks, procVars, net
<1>4. UNCHANGED vars => Apart
  BY DEF vars, Apart, locks, procVars, net
<1> QED  BY <1>1, <1>2, <1>3, <1>4, RelayReplies, ProcessMoves DEF Next, Relay

LEMMA LockStep ==
    ASSUME Base, [Next]_vars
    PROVE  LockType' /\ ProcType' /\ answer' \in [Procs -> {"yes", "no", None}] /\ LockInv'
<1>0. /\ ProcType /\ LockType /\ LockInv /\ answer \in [Procs -> {"yes", "no", None}]
      /\ None \notin Procs
  BY NoneIsNone DEF Base, Types, NetType, BaseInv
<1>1. CASE Apart
  BY <1>0, <1>1 DEF Apart, ProcType, LockType, LockInv, LockOf, Waiting
<1>2. ASSUME NEW r \in flying, Replies(r)
      PROVE  LockType' /\ ProcType' /\ answer' \in [Procs -> {"yes", "no", None}] /\ LockInv'
  <2>1. r.from # None => r.from \in Procs /\ Waiting(r.from)
    <3>1. r.kind \in {"refresh", "begin", "finish"} /\ r.from \in Procs \cup {None}
      BY RequestNamed DEF Named, Req
    <3> QED  BY <3>1, RequestNamed DEF RequestOf, Waiting
  <2>2. LockInv'
    BY <1>0, <1>2, <2>1 DEF Replies, LockInv, LockOf, Waiting
  <2> QED  BY <1>0, <1>2, <2>2 DEF Replies, ProcType, LockType
<1>3. ASSUME NEW p \in Procs, Moved(p)
      PROVE  LockType' /\ ProcType' /\ answer' \in [Procs -> {"yes", "no", None}] /\ LockInv'
  <2>1. ASSUME NEW q \in Procs, q # p PROVE LockOf(q)'
    BY <1>0, <1>3, <2>1 DEF Moved, Others, Rests, LockInv, LockOf, Waiting
  <2>2. LockInv'
    BY <1>3, <2>1 DEF Moved, LockInv
  <2> QED  BY <1>3, <2>2 DEF Moved
<1> QED  BY <1>1, <1>2, <1>3, StepCases
-----------------------------------------------------------------------------
(* What the processes have in memory.                                      *)

\* MemoryOf(p), of a process that has no answer.
Remembers(p) ==
    /\ pc'[p] \in Steps \ {"off", "open", "permitted", "spending"} => HoldsNext(snap'[p])
    /\ pc'[p] \in {"otp", "verified"} => snap'[p].phase = "awaitingOtp"
    /\ pc'[p] \in {"gate", "due", "locked", "pending", "renewing"} => snap'[p].phase \in Pending
    /\ pc'[p] = "beginning" => snap'[p].phase = "prepared"
    /\ pc'[p] \in {"signed", "finishing"} => snap'[p].phase \in {"committing", "serverCommitted"}
    /\ pc'[p] = "recorded" => snap'[p].phase = "serverCommitted"
    /\ pc'[p] \in Using \cup {"verified", "beginning", "renewing"} =>
          pair'[p] # None /\ pair'[p].sid <= issued'

LEMMA MemoryNext ==
    ASSUME NEW p \in Procs, Remembers(p), answer'[p] # "yes"
    PROVE  MemoryOf(p)'
BY DEF Remembers, MemoryOf, Holds, HoldsNext

LEMMA MemoryRests ==
    ASSUME Base, Later, RelayType', HistType', NEW q \in Procs, pc'[q] = pc[q], snap'[q] = snap[q],
           pair'[q] = pair[q]
    PROVE  Remembers(q)
<1>1. MemoryOf(q)
  BY Remembered
<1>2. Holds(snap[q]) => HoldsNext(snap'[q])
  BY HoldsStays
<1>3. pc[q] \in Using \cup {"verified", "beginning", "renewing"} => pair[q].sid <= issued'
  BY PairOf, Numbers, Bounds DEF Later, RelayType, Sids
<1> QED  BY <1>1, <1>2, <1>3 DEF MemoryOf, Remembers

\* Knowledge in the memory of a process stays true.
LEMMA MemoryStays ==
    ASSUME Base, Later, RelayType', HistType', NEW q \in Procs, Rests(q), answer'[q] = answer[q]
    PROVE  MemoryOf(q)'
<1>1. MemoryOf(q) /\ Remembers(q)
  BY Remembered, MemoryRests DEF Rests
<1>2. Len(chals) \in Nat /\ Len(chals') \in Nat
  <2>1. chals' \in Seq([sid : Sids, status : Status])
    BY DEF RelayType, Chals
  <2> QED  BY <2>1, LenProperties, Numbers
<1>3. ASSUME pc[q] = "beginning", answer[q] = "yes"
      PROVE  chal'[q] \in 1 .. Len(chals') /\ chals'[chal'[q]].sid = snap'[q].nid
  BY <1>1, <1>2, <1>3 DEF MemoryOf, Rests, Later, Grows
<1>4. ASSUME pc[q] = "finishing", answer[q] = "yes"
      PROVE  chals'[snap'[q].chal].status = "committed"
  <2>1. snap[q].chal \in 1 .. Len(chals) /\ chals[snap[q].chal].status = "committed"
    BY <1>1, <1>4 DEF MemoryOf, Holds, Steps
  <2> QED  BY <2>1 DEF Rests, Later, Grows
<1>5. pc'[q] = "spending" /\ answer'[q] = "yes" => pair'[q].tok < MaxToks
  BY <1>1 DEF MemoryOf, Rests
<1>6. pc'[q] = "renewing" /\ answer'[q] = "yes" => snap'[q].next.tok < MaxToks
  BY <1>1 DEF MemoryOf, Rests
<1> QED
  BY <1>1, <1>3, <1>4, <1>5, <1>6 DEF Rests, Remembers, MemoryOf, Holds, HoldsNext

LEMMA ReplyMemory ==
    ASSUME Base, Later, RelayType', HistType', NEW r \in flying, r.from # None, Replies(r),
           ServeRefresh(r) \/ ServeBegin(r) \/ ServeFinish(r)
    PROVE  MemoryOf(r.from)'
<1> DEFINE p == r.from
<1>1. p \in Procs /\ p = r.from
  BY RequestNamed DEF Named, Req
<1>2. RequestOf(r) /\ Named(r) /\ r.pair \in Pair /\ r.pair.sid \in Sids
  BY RequestNamed
<1> HIDE DEF p
<1>3. /\ pc'[p] = pc[p] /\ snap'[p] = snap[p] /\ pair'[p] = pair[p]
      /\ answer'[p] \in {"yes", "no"} /\ UNCHANGED <<snap, pair>>
  BY <1>1 DEF Replies
<1>4. Remembers(p) /\ MemoryOf(p)
  BY <1>1, <1>3, MemoryRests, Remembered
<1>5. CASE answer'[p] # "yes"
  BY <1>1, <1>4, <1>5, MemoryNext DEF p
<1>6. answer \in [Procs -> {"yes", "no", None}] /\ chal \in [Procs -> Nat \cup {None}]
      /\ Len(chals) \in Nat /\ toks[r.pair.sid] \in Nat /\ chals \in Chals
  <2>1. /\ answer \in [Procs -> {"yes", "no", None}] /\ chal \in [Procs -> Nat \cup {None}]
        /\ chals \in Chals /\ toks \in [Sids -> 0 .. MaxToks]
    BY DEF Base, Types, NetType, ProcType, RelayType
  <2>2. toks[r.pair.sid] \in 0 .. MaxToks /\ Len(chals) \in Nat
    BY <1>2, <2>1, Numbers
  <2> QED  BY <2>1, <2>2, Bounds
<1>7. CASE ServeRefresh(r) /\ answer'[p] = "yes"
  <2>1. r.kind = "refresh" /\ r.pair.tok = toks[r.pair.sid] /\ toks[r.pair.sid] < MaxToks
    BY <1>1, <1>6, <1>7 DEF ServeRefresh, Reply
  <2>2. \/ pc[p] = "spending" /\ r.pair = pair[p]
        \/ pc[p] = "renewing" /\ r.pair = snap[p].next
    BY <1>1, <1>2, <2>1 DEF RequestOf
  <2>3. /\ pc'[p] = "spending" => pair'[p].tok < MaxToks
        /\ pc'[p] = "renewing" => snap'[p].next.tok < MaxToks
        /\ pc'[p] \notin {"beginning", "finishing"}
    BY <1>3, <2>1, <2>2
  <2>4. MemoryOf(p)'
    BY <1>4, <2>3 DEF Remembers, MemoryOf, Holds, HoldsNext
  <2> QED  BY <2>4 DEF p
<1>8. CASE ServeBegin(r) /\ answer'[p] = "yes"
  <2>1. /\ r.kind = "begin" /\ chals' = Append(Superseded, [sid |-> r.pair.sid, status |-> "pending"])
        /\ chal' = [chal EXCEPT ![p] = Len(chals) + 1]
    BY <1>1, <1>6, <1>8 DEF ServeBegin, Reply
  <2>2. pc[p] = "beginning" /\ r.pair = snap[p].next
    BY <1>1, <1>2, <2>1 DEF RequestOf
  <2>3. snap[p].nid = r.pair.sid
    BY <1>4, <2>2, <1>2, NoneIsNone DEF MemoryOf, Holds, Steps
  <2>4. Len(chals') = Len(chals) + 1 /\ chals'[Len(chals) + 1].sid = r.pair.sid
    BY <1>2, <1>6, <2>1, NewChallenge
  <2>5. chal'[p] = Len(chals) + 1
    BY <1>1, <1>6, <2>1
  <2>6. chal'[p] \in 1 .. Len(chals') /\ chals'[chal'[p]].sid = snap'[p].nid
    BY <1>3, <1>6, <2>3, <2>4, <2>5
  <2>7. MemoryOf(p)'
    BY <1>3, <1>4, <2>2, <2>6 DEF Remembers, MemoryOf, Holds, HoldsNext
  <2> QED  BY <2>7 DEF p
<1>9. CASE ServeFinish(r) /\ answer'[p] = "yes"
  <2>1. /\ r.kind = "finish" /\ chals[r.chal].status = "pending"
        /\ chals' = [chals EXCEPT ![r.chal].status = "committed"]
    BY <1>1, <1>6, <1>9 DEF ServeFinish, Reply, StatusOf
  <2>2. pc[p] = "finishing" /\ r.chal = snap[p].chal /\ r.chal \in 1 .. Len(chals)
    BY <1>1, <1>2, <2>1 DEF RequestOf
  <2>3. chals'[r.chal].status = "committed"
    BY <1>6, <2>1, <2>2, StatusChange DEF Status
  <2>4. chals'[snap'[p].chal].status = "committed"
    BY <1>3, <2>2, <2>3
  <2>5. MemoryOf(p)'
    BY <1>3, <1>4, <2>2, <2>4 DEF Remembers, MemoryOf, Holds, HoldsNext
  <2> QED  BY <2>5 DEF p
<1> QED  BY <1>3, <1>5, <1>7, <1>8, <1>9

LEMMA ProcessMemory ==
    ASSUME Base, [Next]_vars, NEW p \in Procs, Moved(p),
           Use(p) \/ Reauth(p) \/ Refresh(p) \/ Ends(p) \/ Dies(p) \/ Changed(p)
    PROVE  MemoryOf(p)'
<1>0. /\ Later /\ RelayType' /\ HistType'
      /\ pc \in [Procs -> Steps] /\ snap \in [Procs -> Journal \cup {None}]
      /\ pair \in [Procs -> Pair \cup {None}]
      /\ journal' \in Journal \cup {None} /\ (journal' # None => HoldsNext(journal'))
      /\ MemoryOf(p)
      /\ \A j : Holds(j) => HoldsNext(j)
  BY LaterStep, HoldsStays, JournalHolds, Remembered DEF Base, Types, ProcType
<1>1. answer'[p] # "yes"
  BY NoneIsNone DEF Moved
<1>2. /\ session # None => session.sid \in Nat /\ session.sid <= issued
      /\ issued \in Nat /\ issued' \in Nat /\ issued <= issued'
      /\ session \in Pair \cup {None}
  BY <1>0, Numbers, PairFields, Bounds DEF Base, Types, FileType, Later, RelayType, Sids
<1>3. ASSUME Leave(p) PROVE Remembers(p)
  <2>1. pc'[p] = "off"
    BY <1>0, <1>3 DEF Leave, Load, Go
  <2> QED  BY <2>1 DEF Remembers, Using
<1>4. ASSUME NEW step, NEW j, Load(p, step, j) PROVE pc'[p] = step /\ snap'[p] = j
  BY <1>0, <1>4 DEF Load, Go
<1>5. ASSUME Use(p) PROVE Remembers(p)
  <2>1. CASE StartPass(p) \/ Unspent(p) \/ Refreshed(p) \/ Rejected(p)
    <3>1. pc'[p] \in {"open", "off"}
      BY <1>0, <2>1 DEF StartPass, Unspent, Refreshed, Rejected, Reopen, Go
    <3> QED  BY <3>1 DEF Remembers, Using
  <2>2. CASE EndPass(p)
    BY <1>3, <2>2 DEF EndPass
  <2>3. CASE Permit(p)
    <3>1. pc'[p] = "permitted" /\ pair'[p] = session /\ session # None
      BY <1>0, <2>3 DEF Permit, Go
    <3> QED  BY <1>2, <3>1 DEF Remembers
  <2>4. CASE Spend(p)
    <3>1. pc[p] = "permitted" /\ pc'[p] = "spending" /\ pair'[p] = pair[p]
      BY <1>0, <2>4 DEF Spend, At, Go, Keeps
    <3>2. pair[p] # None /\ pair[p].sid <= issued'
      BY <1>0, <1>2, <3>1, PairOf, Numbers DEF MemoryOf, Using
    <3> QED  BY <3>1, <3>2 DEF Remembers
  <2> QED  BY <1>5, <2>1, <2>2, <2>3, <2>4 DEF Use
<1>6. ASSUME Reauth(p) PROVE Remembers(p)
  <2>1. CASE Prepare(p)
    <3>1. pc'[p] = "otp" /\ snap'[p] = journal' /\ journal'.phase = "awaitingOtp" /\ journal' # None
      BY <1>4, <2>1, PrepareDoes, NoneIsNone
    <3> QED  BY <1>0, <3>1 DEF Remembers, Using
  <2>2. CASE Rejoin(p)
    <3>1. /\ pc'[p] = "otp" /\ snap'[p] = journal' /\ journal'.phase = "awaitingOtp" /\ journal' # None
      BY <1>4, <2>2 DEF Rejoin, Loadable, files
    <3> QED  BY <1>0, <3>1 DEF Remembers, Using
  <2>3. CASE Verify(p)
    <3>1. /\ pc[p] = "otp" /\ pc'[p] = "verified" /\ snap'[p] = snap[p]
          /\ pair'[p] = [sid |-> issued + 1, tok |-> 0] /\ issued' = issued + 1
          /\ issued + 1 \in Sids
      BY <1>0, <1>2, <2>3, Bounds DEF Verify, At, Go, Sids, RelayType
    <3>2. HoldsNext(snap'[p]) /\ snap'[p].phase = "awaitingOtp"
      BY <1>0, <3>1 DEF MemoryOf, Steps
    <3>3. pair'[p] \in Pair /\ pair'[p].sid = issued + 1
      BY <3>1, PairFields, Bounds
    <3>4. pair'[p] # None /\ pair'[p].sid <= issued'
      BY <1>2, <3>1, <3>3, NoneIsNone
    <3> QED  BY <3>1, <3>2, <3>4 DEF Remembers
  <2>4. CASE Complete(p)
    <3>1. pc'[p] = "gate" /\ snap'[p] = journal' /\ journal'.phase \in Pending /\ journal' # None
      BY <1>4, <2>4, CompleteDoes, NoneIsNone DEF Pending
    <3> QED  BY <1>0, <3>1 DEF Remembers, Using
  <2>5. CASE Rerun(p, "gate")
    <3>1. pc'[p] = "gate" /\ snap'[p] = journal' /\ journal'.phase \in Pending /\ journal' # None
      BY <1>4, <2>5 DEF Rerun, Loadable, files
    <3> QED  BY <1>0, <3>1 DEF Remembers, Using
  <2>6. CASE Lock(p, "gate", "locked")
    <3>1. pc[p] = "gate" /\ pc'[p] = "locked" /\ snap'[p] = snap[p]
      BY <1>0, <2>6 DEF Lock, At, Go, Keeps
    <3>2. HoldsNext(snap'[p]) /\ snap'[p].phase \in Pending
      BY <1>0, <3>1 DEF MemoryOf, Steps
    <3> QED  BY <3>1, <3>2 DEF Remembers, Using
  <2>7. CASE Begin(p)
    <3>1. /\ pc[p] = "locked" /\ pc'[p] = "beginning" /\ snap'[p] = snap[p] /\ pair'[p] = session
          /\ session # None /\ snap[p].phase = "prepared"
      BY <1>0, <2>7 DEF Begin, At, Go, Same, Loadable, Sound
    <3>2. HoldsNext(snap'[p])
      BY <1>0, <3>1 DEF MemoryOf, Steps
    <3> QED  BY <1>2, <3>1, <3>2 DEF Remembers, Using
  <2>8. CASE Begun(p)
    <3>1. pc'[p] = "signed" /\ snap'[p] = journal' /\ journal'.phase = "committing" /\ journal' # None
      BY <1>4, <2>8, BegunDoes, NoneIsNone
    <3> QED  BY <1>0, <3>1 DEF Remembers, Using
  <2>9. CASE Continue(p) \/ Finish(p)
    <3>1. /\ pc[p] \in {"locked", "signed"} /\ pc'[p] \in {"signed", "finishing"}
          /\ snap'[p] = snap[p] /\ snap[p].phase \in {"committing", "serverCommitted"}
      BY <1>0, <2>9 DEF Continue, Finish, At, Go, Keeps, Same, MemoryOf
    <3>2. HoldsNext(snap'[p])
      BY <1>0, <3>1 DEF MemoryOf, Steps
    <3> QED  BY <3>1, <3>2 DEF Remembers, Using
  <2>10. CASE Renounced(p) \/ PublishJournal(p)
    BY <1>3, <2>10 DEF Renounced, PublishJournal
  <2>11. CASE ServerCommitted(p)
    <3>1. /\ pc'[p] = "recorded" /\ snap'[p] = journal' /\ journal'.phase = "serverCommitted"
          /\ journal' # None
      BY <1>4, <2>11, RecordedDoes, NoneIsNone
    <3> QED  BY <1>0, <3>1 DEF Remembers, Using
  <2>12. CASE PublishSession(p)
    <3>1. pc[p] = "recorded" /\ pc'[p] = "recorded" /\ snap'[p] = snap[p]
      BY <1>0, <2>12 DEF PublishSession, At, Go, Keeps
    <3>2. HoldsNext(snap'[p]) /\ snap'[p].phase = "serverCommitted"
      BY <1>0, <3>1 DEF MemoryOf, Steps
    <3> QED  BY <3>1, <3>2 DEF Remembers, Using
  <2> QED
    BY <1>6, <2>1, <2>2, <2>3, <2>4, <2>5, <2>6, <2>7, <2>8, <2>9, <2>10, <2>11, <2>12 DEF Reauth
<1>7. ASSUME Refresh(p) PROVE Remembers(p)
  <2>1. CASE Rerun(p, "due")
    <3>1. pc'[p] = "due" /\ snap'[p] = journal' /\ journal'.phase \in Pending /\ journal' # None
      BY <1>4, <2>1 DEF Rerun, Loadable, files
    <3> QED  BY <1>0, <3>1 DEF Remembers, Using
  <2>2. CASE Lock(p, "due", "pending")
    <3>1. pc[p] = "due" /\ pc'[p] = "pending" /\ snap'[p] = snap[p]
      BY <1>0, <2>2 DEF Lock, At, Go, Keeps
    <3>2. HoldsNext(snap'[p]) /\ snap'[p].phase \in Pending
      BY <1>0, <3>1 DEF MemoryOf, Steps
    <3> QED  BY <3>1, <3>2 DEF Remembers, Using
  <2>3. CASE Renew(p)
    <3>1. /\ pc'[p] = "renewing" /\ snap'[p] = journal' /\ journal'.phase \in Pending
          /\ journal' # None /\ pair'[p] = session /\ session # None
      BY <1>0, <2>3 DEF Renew, At, Go, SamePending, Loadable, Sound, files
    <3> QED  BY <1>0, <1>2, <3>1 DEF Remembers, Using
  <2>4. CASE Unrenewed(p)
    <3>1. pc'[p] = "gate" /\ snap'[p] = journal' /\ journal'.phase \in Pending /\ journal' # None
      BY <1>4, <2>4 DEF Unrenewed, SamePending, Loadable, files
    <3> QED  BY <1>0, <3>1 DEF Remembers, Using
  <2>5. CASE Renewed(p)
    <3>1. pc'[p] = "gate" /\ snap'[p] = journal' /\ journal'.phase \in Pending /\ journal' # None
      BY <1>4, <2>5, RenewedDoes, NoneIsNone
    <3> QED  BY <1>0, <3>1 DEF Remembers, Using
  <2>6. CASE RenewalRequired(p)
    BY <1>3, <2>6 DEF RenewalRequired
  <2> QED  BY <1>7, <2>1, <2>2, <2>3, <2>4, <2>5, <2>6 DEF Refresh
<1>8. Ends(p) \/ Dies(p) \/ Changed(p) => Remembers(p)
  BY <1>3 DEF Ends, Dies, Changed
<1> QED  BY <1>1, <1>5, <1>6, <1>7, <1>8, MemoryNext

LEMMA MemoryStep ==
    ASSUME Base, [Next]_vars
    PROVE  MemoryInv'
<1>1. Later /\ RelayType' /\ HistType'
  BY LaterStep
<1>2. CASE Apart
  BY <1>1, <1>2, MemoryStays DEF Apart, Rests, MemoryInv
<1>3. ASSUME NEW r \in flying, Replies(r), ServeRefresh(r) \/ ServeBegin(r) \/ ServeFinish(r)
      PROVE  MemoryInv'
  <2>1. ASSUME NEW q \in Procs, q # r.from PROVE MemoryOf(q)'
    BY <1>1, <1>3, <2>1, MemoryStays DEF Replies, Rests
  <2>2. ASSUME NEW q \in Procs, q = r.from PROVE MemoryOf(q)'
    <3>1. r.from # None
      BY <2>2, NoneIsNone
    <3>2. MemoryOf(r.from)'
      BY <1>1, <1>3, <3>1, ReplyMemory
    <3> QED  BY <2>2, <3>2
  <2> QED  BY <2>1, <2>2 DEF MemoryInv
<1>4. ASSUME NEW p \in Procs, Moved(p),
             Use(p) \/ Reauth(p) \/ Refresh(p) \/ Ends(p) \/ Dies(p) \/ Changed(p)
      PROVE  MemoryInv'
  <2>1. ASSUME NEW q \in Procs, q # p PROVE MemoryOf(q)'
    BY <1>1, <1>4, <2>1, MemoryStays DEF Moved, Others
  <2>2. MemoryOf(p)'
    BY <1>4, ProcessMemory
  <2> QED  BY <2>1, <2>2 DEF MemoryInv
<1> QED  BY <1>2, <1>3, <1>4, StepCases
-----------------------------------------------------------------------------
(* Requests.                                                               *)

\* Whoever waits for an answer can only give up.
LEMMA Unanswered ==
    ASSUME Base, NEW r \in flying, NEW p \in Procs, r.from = p,
           Use(p) \/ Reauth(p) \/ Refresh(p) \/ Ends(p) \/ Dies(p) \/ Changed(p)
    PROVE  Dies(p)
<1>1. answer[p] = None /\ pc[p] \in {"spending", "beginning", "finishing", "renewing"}
  <2>1. r.kind \in {"refresh", "begin", "finish"} /\ p # None
    BY RequestNamed, NoneIsNone DEF Named, Req
  <2> QED  BY <2>1, RequestNamed DEF RequestOf
<1>2. None # "yes" /\ None # "no"
  BY NoneIsNone
<1>3. ~Use(p)
  BY <1>1, <1>2 DEF Use, StartPass, EndPass, Permit, Unspent, Spend, Refreshed, Rejected, At, Answered
<1>4. ~Reauth(p)
  BY <1>1, <1>2 DEF Reauth, Prepare, Rejoin, Verify, Complete, Rerun, Lock, Begin, Begun, Continue,
                    Finish, Renounced, ServerCommitted, PublishSession, PublishJournal, At, Answered
<1>5. ~Refresh(p)
  BY <1>1, <1>2 DEF Refresh, Rerun, Lock, Renew, Unrenewed, Renewed, RenewalRequired, At, Answered
<1>6. ~Ends(p)
  BY <1>1 DEF Ends
<1>7. ~Changed(p)
  BY <1>1, <1>2 DEF Changed, Fits, Waited, At
<1> QED  BY <1>3, <1>4, <1>5, <1>6, <1>7

\* Two requests of one process are the same.
LEMMA OneRequest ==
    ASSUME Base, NEW q \in flying, NEW r \in flying, q.from = r.from, r.from # None
    PROVE  q = r
<1>1. RequestOf(q) /\ RequestOf(r) /\ q \in Req /\ r \in Req
  BY RequestNamed DEF Named
<1>2. \A x, y \in Req : x.from = y.from /\ x.kind = y.kind /\ x.pair = y.pair /\ x.chal = y.chal => x = y
  BY DEF Req
<1>3. q.kind = r.kind
  BY <1>1 DEF RequestOf, Req
<1>4. q.pair = r.pair /\ q.chal = r.chal
  <2>1. CASE r.kind = "refresh"
    BY <1>1, <1>3, <2>1 DEF RequestOf
  <2>2. CASE r.kind = "begin"
    BY <1>1, <1>3, <2>2 DEF RequestOf
  <2>3. CASE r.kind = "finish"
    BY <1>1, <1>3, <2>3 DEF RequestOf
  <2> QED  BY <1>1, <2>1, <2>2, <2>3 DEF Req
<1> QED  BY <1>1, <1>2, <1>3, <1>4

\* What a request names stays.
LEMMA NamedStays ==
    ASSUME Base, Later, RelayType', HistType', NEW r \in flying
    PROVE  /\ r.pair.sid <= issued'
           /\ r.kind # "finish" => r.chal = None
           /\ r.kind = "finish" => r.chal \in 1 .. Len(chals') /\ chals'[r.chal].sid = r.pair.sid
           /\ r.from = None /\ r.kind = "refresh" => r.pair.sid \in lost'
<1>1. RequestOf(r) /\ r.pair.sid \in Nat
  BY RequestNamed, Numbers
<1>2. issued \in Nat /\ issued' \in Nat /\ Len(chals) \in Nat /\ Len(chals') \in Nat
  <2>1. issued' \in Nat
    BY Bounds DEF RelayType, Sids
  <2>2. chals' \in Seq([sid : Sids, status : Status])
    BY DEF RelayType, Chals
  <2> QED  BY <2>1, <2>2, LenProperties, Numbers
<1> QED  BY <1>1, <1>2 DEF RequestOf, Later, Grows

LEMMA RequestStays ==
    ASSUME Base, Later, RelayType', HistType', NEW r \in flying,
           r.from # None => Rests(r.from) /\ answer'[r.from] = answer[r.from]
    PROVE  RequestOf(r)'
<1>1. RequestOf(r)
  BY RequestNamed
<1>2. ASSUME r.from # None
      PROVE  /\ answer'[r.from] = None
             /\ r.kind = "refresh" => \/ pc'[r.from] = "spending" /\ r.pair = pair'[r.from]
                                      \/ pc'[r.from] = "renewing" /\ r.pair = snap'[r.from].next
             /\ r.kind = "begin" => pc'[r.from] = "beginning" /\ r.pair = snap'[r.from].next
             /\ r.kind = "finish" => /\ pc'[r.from] = "finishing" /\ r.pair = snap'[r.from].next
                                     /\ r.chal = snap'[r.from].chal
  BY <1>1, <1>2 DEF RequestOf, Rests
<1> QED  BY <1>2, NamedStays DEF RequestOf

\* Who sends what.
LEMMA FlyingMoves ==
    ASSUME NEW p \in Procs, Use(p) \/ Reauth(p) \/ Refresh(p) \/ Ends(p) \/ Changed(p)
    PROVE  \/ UNCHANGED flying
           \/ Spend(p) \/ Begin(p) \/ Finish(p) \/ Renew(p)
<1>1. CASE Use(p) \/ Ends(p) \/ Changed(p)
  BY <1>1 DEF Use, StartPass, EndPass, Permit, Unspent, Refreshed, Rejected, Ends, Changed, Alone, net
<1>2. CASE Reauth(p)
  BY <1>2 DEF Reauth, Prepare, Rejoin, Verify, Complete, Rerun, Lock, Begun, Continue,
              Renounced, ServerCommitted, PublishSession, PublishJournal, Alone, net
<1>3. CASE Refresh(p)
  BY <1>3 DEF Refresh, Rerun, Lock, Unrenewed, Renewed, RenewalRequired, Alone, net
<1> QED  BY <1>1, <1>2, <1>3

LEMMA SentType ==
    ASSUME NEW p \in Procs, NEW k \in {"refresh", "begin", "finish"}, NEW x \in Pair,
           NEW c \in Nat \cup {None}, NEW r, r = [from |-> p, kind |-> k, pair |-> x, chal |-> c]
    PROVE  r \in Req /\ r.from = p /\ r.kind = k /\ r.pair = x /\ r.chal = c
BY DEF Req

\* The request that p sends.
Sent(p, r) ==
    /\ r \in Req /\ r.from = p
    /\ Spend(p) => r.kind = "refresh" /\ r.pair = pair[p] /\ r.chal = None
    /\ Begin(p) => r.kind = "begin" /\ r.pair = journal.next /\ r.chal = None
    /\ Finish(p) => r.kind = "finish" /\ r.pair = journal.next /\ r.chal = journal.chal
    /\ Renew(p) => r.kind = "refresh" /\ r.pair = journal.next /\ r.chal = None

LEMMA SendDoes ==
    ASSUME Base, NEW p \in Procs, Spend(p) \/ Begin(p) \/ Finish(p) \/ Renew(p)
    PROVE  flying \subseteq flying' /\ \A r \in flying' : r \notin flying => Sent(p, r)
<1>0. /\ pc \in [Procs -> Steps] /\ MemoryOf(p)
      /\ journal # None => Holds(journal) /\ journal \in Journal
      /\ Len(chals) \in Nat
  BY Remembered, Loaded, Numbers DEF Base, Types, ProcType
<1>1. CASE Spend(p)
  <2>1. pc[p] = "permitted"
        /\ flying' = flying \cup {[from |-> p, kind |-> "refresh", pair |-> pair[p], chal |-> None]}
    BY <1>1 DEF Spend, At, Request
  <2>2. pair[p] \in Pair
    BY <2>1, PairOf DEF Using
  <2>3. ~Begin(p) /\ ~Finish(p) /\ ~Renew(p)
    BY <2>1 DEF Begin, Finish, Renew, At
  <2> QED  BY <2>1, <2>2, <2>3, SentType DEF Sent
<1>2. CASE Begin(p)
  <2>1. /\ pc[p] = "locked" /\ journal # None /\ journal.phase = "prepared"
        /\ flying' = flying \cup {[from |-> p, kind |-> "begin", pair |-> journal.next, chal |-> None]}
    BY <1>2 DEF Begin, At, Request, Same, Loadable
  <2>2. journal.next \in Pair
    BY <1>0, <2>1, JournalFields DEF Holds, Pending
  <2>3. ~Spend(p) /\ ~Finish(p) /\ ~Renew(p)
    BY <2>1 DEF Spend, Finish, Renew, At
  <2> QED  BY <2>1, <2>2, <2>3, SentType DEF Sent
<1>3. CASE Finish(p)
  <2>1. /\ pc[p] = "signed" /\ journal # None /\ journal.phase \in {"committing", "serverCommitted"}
        /\ flying' = flying \cup {[from |-> p, kind |-> "finish", pair |-> journal.next,
                                   chal |-> journal.chal]}
    BY <1>0, <1>3 DEF Finish, At, Request, Same, Loadable, MemoryOf
  <2>2. journal.next \in Pair /\ journal.chal \in Nat \cup {None}
    BY <1>0, <2>1, JournalFields DEF Holds, Pending
  <2>3. ~Spend(p) /\ ~Begin(p) /\ ~Renew(p)
    BY <2>1 DEF Spend, Begin, Renew, At
  <2> QED  BY <2>1, <2>2, <2>3, SentType DEF Sent
<1>4. CASE Renew(p)
  <2>1. /\ pc[p] = "pending" /\ journal # None /\ journal.phase \in Pending
        /\ flying' = flying \cup {[from |-> p, kind |-> "refresh", pair |-> journal.next, chal |-> None]}
    BY <1>4 DEF Renew, At, Request, SamePending, Loadable
  <2>2. journal.next \in Pair
    BY <1>0, <2>1, JournalFields DEF Holds
  <2>3. ~Spend(p) /\ ~Begin(p) /\ ~Finish(p)
    BY <2>1 DEF Spend, Begin, Finish, At
  <2> QED  BY <2>1, <2>2, <2>3, SentType DEF Sent
<1> QED  BY <1>1, <1>2, <1>3, <1>4

LEMMA SentFits ==
    ASSUME Base, NEW p \in Procs, Spend(p) \/ Begin(p) \/ Finish(p) \/ Renew(p), Moved(p),
           NEW r \in flying', r \notin flying
    PROVE  RequestOf(r)'
<1>0. /\ pc \in [Procs -> Steps] /\ snap \in [Procs -> Journal \cup {None}]
      /\ pair \in [Procs -> Pair \cup {None}] /\ answer'[p] = None /\ p # None
      /\ MemoryOf(p) /\ (journal # None => Holds(journal) /\ journal \in Journal)
      /\ UNCHANGED <<issued, chals>> /\ Sent(p, r)
  BY Remembered, Loaded, NoneIsNone, SendDoes
     DEF Base, Types, ProcType, Moved, Spend, Begin, Finish, Renew, Quiet, relay
<1>1. CASE Spend(p)
  <2>1. pc[p] = "permitted" /\ pc'[p] = "spending" /\ pair'[p] = pair[p]
    BY <1>0, <1>1 DEF Spend, At, Go, Keeps
  <2>2. pair[p] \in Pair /\ pair[p].sid <= issued
    BY <2>1, PairOf DEF Using
  <2> QED  BY <1>0, <1>1, <2>1, <2>2 DEF RequestOf, Sent
<1>2. CASE Begin(p)
  <2>1. /\ pc'[p] = "beginning" /\ snap'[p] = journal /\ journal # None /\ journal.phase = "prepared"
    BY <1>0, <1>2 DEF Begin, At, Go, Same, Loadable
  <2>2. journal.next.sid <= issued
    BY <1>0, <2>1, JournalFields, Numbers, PairFields DEF Holds, Pending
  <2> QED  BY <1>0, <1>2, <2>1, <2>2 DEF RequestOf, Sent
<1>3. CASE Finish(p)
  <2>1. /\ pc'[p] = "finishing" /\ snap'[p] = journal /\ journal # None
        /\ journal.phase \in {"committing", "serverCommitted"}
    BY <1>0, <1>3 DEF Finish, At, Go, Keeps, Same, Loadable, MemoryOf
  <2>2. journal.next.sid <= issued /\ journal.next.sid = journal.nid
    BY <1>0, <2>1, JournalFields, Numbers, PairFields DEF Holds, Pending
  <2>3. journal.chal \in 1 .. Len(chals) /\ chals[journal.chal].sid = journal.nid
    BY <1>0, <2>1 DEF Holds
  <2> QED  BY <1>0, <1>3, <2>1, <2>2, <2>3 DEF RequestOf, Sent
<1>4. CASE Renew(p)
  <2>1. /\ pc'[p] = "renewing" /\ snap'[p] = journal /\ journal # None /\ journal.phase \in Pending
    BY <1>0, <1>4 DEF Renew, At, Go, SamePending, Loadable
  <2>2. journal.next.sid <= issued
    BY <1>0, <2>1, JournalFields, Numbers, PairFields DEF Holds
  <2> QED  BY <1>0, <1>4, <2>1, <2>2 DEF RequestOf, Sent
<1> QED  BY <1>1, <1>2, <1>3, <1>4

\* A process that dies leaves a request whose answer nobody will see.
LEMMA Renamed ==
    ASSUME NEW r \in Req, NEW x, x = [r EXCEPT !.from = None]
    PROVE  x \in Req /\ x.from = None /\ x.kind = r.kind /\ x.pair = r.pair /\ x.chal = r.chal
BY DEF Req

LEMMA DeadRequests ==
    ASSUME Base, NEW p \in Procs, Dies(p), NEW x \in flying'
    PROVE  \E r \in flying : /\ x.kind = r.kind /\ x.pair = r.pair /\ x.chal = r.chal /\ x \in Req
                             /\ \/ r.from # p /\ x = r
                                \/ /\ r.from = p /\ x.from = None
                                   /\ r.kind = "refresh" => r.pair.sid \in lost'
<1>1. PICK r \in flying : x = IF r.from = p THEN [r EXCEPT !.from = None] ELSE r
  BY DEF Dies, Abandoned
<1>2. r \in Req /\ RequestOf(r) /\ p # None
  BY RequestNamed, NoneIsNone DEF Named
<1>3. CASE r.from # p
  BY <1>1, <1>2, <1>3
<1>4. CASE r.from = p
  <2>1. x \in Req /\ x.from = None /\ x.kind = r.kind /\ x.pair = r.pair /\ x.chal = r.chal
    BY <1>1, <1>2, <1>4, Renamed
  <2>2. ASSUME r.kind = "refresh" PROVE r.pair.sid \in Spent(p)
    <3>1. CASE pc[p] = "spending" /\ r.pair = pair[p]
      BY <3>1 DEF Spent, At
    <3>2. CASE pc[p] = "renewing" /\ r.pair = snap[p].next
      <4>1. snap[p].nid = r.pair.sid
        BY <3>2, RequestNamed, Remembered, NoneIsNone DEF MemoryOf, Holds, Steps
      <4> QED  BY <3>2, <4>1 DEF Spent, At
    <3> QED  BY <1>2, <1>4, <2>2, <3>1, <3>2 DEF RequestOf
  <2> QED  BY <1>4, <2>1, <2>2 DEF Dies
<1> QED  BY <1>3, <1>4

LEMMA RequestStep ==
    ASSUME Base, [Next]_vars
    PROVE  NetType' /\ RequestInv'
<1>0. Later /\ RelayType' /\ HistType' /\ answer' \in [Procs -> {"yes", "no", None}] /\ flying \subseteq Req
  BY LaterStep, LockStep DEF Base, Types, NetType
<1>1. CASE Apart
  <2>1. \A r \in flying : r.from # None => r.from \in Procs
    BY <1>0 DEF Req
  <2>2. ASSUME NEW r \in flying PROVE RequestOf(r)'
    BY <1>0, <1>1, <2>1, RequestStays DEF Apart, Rests
  <2> QED  BY <1>0, <1>1, <2>2 DEF Apart, NetType, RequestInv
<1>2. ASSUME NEW r \in flying, Replies(r) PROVE NetType' /\ RequestInv'
  <2>1. ASSUME NEW q \in flying, q # r PROVE RequestOf(q)'
    <3>1. q.from # None => q.from # r.from /\ q.from \in Procs
      BY <1>0, <2>1, OneRequest DEF Req
    <3> QED  BY <1>0, <1>2, <3>1, RequestStays DEF Replies, Rests
  <2>2. flying' = flying \ {r}
    BY <1>2 DEF Replies
  <2> QED  BY <1>0, <2>1, <2>2 DEF NetType, RequestInv
<1>3. ASSUME NEW p \in Procs, Moved(p),
             Use(p) \/ Reauth(p) \/ Refresh(p) \/ Ends(p) \/ Dies(p) \/ Changed(p)
      PROVE  NetType' /\ RequestInv'
  <2>0. ASSUME NEW r \in flying, r.from # p PROVE RequestOf(r)'
    <3>1. r.from # None => r.from \in Procs
      BY <1>0 DEF Req
    <3> QED  BY <1>0, <1>3, <2>0, <3>1, RequestStays DEF Moved, Others
  <2>1. CASE Dies(p)
    <3>1. ASSUME NEW x \in flying' PROVE x \in Req /\ RequestOf(x)'
      <4>1. PICK r \in flying : /\ x.kind = r.kind /\ x.pair = r.pair /\ x.chal = r.chal /\ x \in Req
                                /\ \/ r.from # p /\ x = r
                                   \/ /\ r.from = p /\ x.from = None
                                      /\ r.kind = "refresh" => r.pair.sid \in lost'
        BY <2>1, DeadRequests
      <4>2. CASE r.from # p
        BY <1>3, <2>0, <4>1, <4>2, NoneIsNone
      <4>3. CASE r.from = p
        <5>1. /\ r.pair.sid <= issued'
              /\ r.kind # "finish" => r.chal = None
              /\ r.kind = "finish" => r.chal \in 1 .. Len(chals') /\ chals'[r.chal].sid = r.pair.sid
          BY <1>0, NamedStays
        <5>2. x.from = None /\ (x.kind = "refresh" => x.pair.sid \in lost')
          BY <1>3, <4>1, <4>3
        <5> QED  BY <4>1, <5>1, <5>2 DEF RequestOf
      <4> QED  BY <4>2, <4>3
    <3> QED  BY <1>0, <3>1 DEF NetType, RequestInv
  <2>2. CASE ~Dies(p)
    <3>1. \A r \in flying : r.from # p
      BY <1>3, <2>2, Unanswered
    <3>2. ASSUME UNCHANGED flying PROVE NetType' /\ RequestInv'
      BY <1>0, <2>0, <3>1, <3>2 DEF NetType, RequestInv
    <3>3. ASSUME Spend(p) \/ Begin(p) \/ Finish(p) \/ Renew(p) PROVE NetType' /\ RequestInv'
      <4>1. ASSUME NEW r \in flying', r \notin flying PROVE r \in Req /\ RequestOf(r)'
        BY <1>3, <3>3, <4>1, SendDoes, SentFits DEF Sent
      <4> QED  BY <1>0, <2>0, <3>1, <4>1 DEF NetType, RequestInv
    <3> QED  BY <1>3, <2>2, <3>2, <3>3, FlyingMoves
  <2> QED  BY <2>1, <2>2
<1> QED  BY <1>1, <1>2, <1>3, StepCases
-----------------------------------------------------------------------------
(* What a step of each kind leaves alone.                                  *)

LEMMA InvParts ==
    ASSUME Inv
    PROVE  /\ Base /\ ChallengeInv /\ FinishInv /\ BoundInv /\ TokenInv /\ StoredInv /\ NewInv
           /\ \A p \in Procs : TokenOf(p)
BY DEF Inv, Base, TokenInv

LEMMA JournalFrame ==
    ASSUME NEW p \in Procs, JournalStep(p)
    PROVE  UNCHANGED <<session, bound, chals, toks, issued, expired, flying, lost>>
BY DEF JournalStep, Prepare, Complete, Begun, Renounced, ServerCommitted, PublishJournal, Renewed,
       RenewalRequired, Advance, Alone, Quiet, net, relay

\* Every step, by what it writes.
LEMMA Writes ==
    ASSUME [Next]_vars
    PROVE  \/ UNCHANGED <<session, journal, bound, toks, issued>>
           \/ UNCHANGED <<session, journal, chals, bound, expired>>
           \/ \E r \in flying : ServeFinish(r)
           \/ Relink \/ ClearSession \/ ClearJournal
           \/ \E p \in Procs : Refreshed(p) \/ PublishSession(p) \/ JournalStep(p)
<1>1. ASSUME NEW p \in Procs, Use(p) \/ Ends(p) \/ Dies(p) \/ Changed(p)
      PROVE  UNCHANGED <<session, journal, chals, bound, expired>> \/ Refreshed(p)
  BY <1>1 DEF Use, StartPass, EndPass, Permit, Unspent, Spend, Rejected, Ends, Dies,
              Changed, files, Alone, Quiet, relay
<1>2. ASSUME NEW p \in Procs, Reauth(p) \/ Refresh(p)
      PROVE  UNCHANGED <<session, journal, chals, bound, expired>> \/ PublishSession(p) \/ JournalStep(p)
  BY <1>2 DEF Reauth, Refresh, Rejoin, Verify, Rerun, Lock, Begin, Continue, Finish,
              Renew, Unrenewed, files, JournalStep, Alone, Quiet, relay
<1>3. ASSUME Relay
      PROVE  \/ UNCHANGED <<session, journal, bound, toks, issued>>
             \/ UNCHANGED <<session, journal, chals, bound, expired>>
             \/ \E r \in flying : ServeFinish(r)
  BY <1>3 DEF Relay, ServeRefresh, ServeBegin, ChallengeExpires, SignInEnds, Unserved, files, procVars
<1> QED  BY <1>1, <1>2, <1>3 DEF Next, Logout, vars, files, relay

\* What becomes of the challenges.
LEMMA ChallengeMoves ==
    ASSUME Base, [Next]_vars
    PROVE  \/ UNCHANGED chals
           \/ \E c \in 1 .. Len(chals) :
                 /\ chals[c].status = "pending" /\ chals' = [chals EXCEPT ![c].status = "expired"]
                 /\ Apart
           \/ \E r \in flying :
                 /\ ServeFinish(r) /\ Moves(r)
                 /\ chals' = [chals EXCEPT ![r.chal].status = "committed"]
           \/ \E r \in flying :
                 /\ ServeBegin(r)
                 /\ chals' = Append(Superseded, [sid |-> r.pair.sid, status |-> "pending"])
           \/ Relink /\ chals' = Superseded
<1> DEFINE Stays == UNCHANGED chals
           Expires == \E c \in 1 .. Len(chals) :
               chals[c].status = "pending" /\ chals' = [chals EXCEPT ![c].status = "expired"] /\ Apart
           Commits == \E r \in flying :
               /\ ServeFinish(r) /\ Moves(r)
               /\ chals' = [chals EXCEPT ![r.chal].status = "committed"]
           Begins == \E r \in flying :
               /\ ServeBegin(r)
               /\ chals' = Append(Superseded, [sid |-> r.pair.sid, status |-> "pending"])
<1>1. \A c \in DOMAIN chals : c \in 1 .. Len(chals)
  BY ChalType DEF Base, Types, RelayType
<1>2. ASSUME NEW c \in DOMAIN chals, ChallengeExpires(c) PROVE Expires
  BY <1>1, <1>2 DEF ChallengeExpires, StatusOf, Apart, locks, procVars, net
<1>3. ASSUME NEW r \in flying, ServeRefresh(r) PROVE Stays
  BY <1>3 DEF ServeRefresh
<1>4. ASSUME NEW r \in flying, ServeBegin(r) PROVE Stays \/ Begins
  BY <1>4 DEF ServeBegin
<1>5. ASSUME NEW r \in flying, ServeFinish(r) PROVE Stays \/ Commits
  BY <1>5 DEF ServeFinish, Moves, StatusOf
<1>6. ASSUME NEW s \in Sids, SignInEnds(s) PROVE Stays
  BY <1>6 DEF SignInEnds
<1>7. Relink => chals' = Superseded
  BY DEF Relink
<1>8. ASSUME NEW p \in Procs, Verify(p) PROVE Stays
  BY <1>8 DEF Verify
<1>9. UNCHANGED relay => Stays
  BY DEF relay
<1>10. Stays \/ Expires \/ Commits \/ Begins \/ (Relink /\ chals' = Superseded)
  <2> HIDE DEF Stays, Expires, Commits, Begins
  <2> QED  BY <1>2, <1>3, <1>4, <1>5, <1>6, <1>7, <1>8, <1>9, RelayMoves DEF RelayStep
<1> QED  BY <1>10

\* No challenge becomes pending again, and one is committed by a finish alone.
LEMMA PendingWas ==
    ASSUME Base, [Next]_vars, NEW c \in 1 .. Len(chals)
    PROVE  /\ chals'[c].status = "pending" =>
                 chals[c].status = "pending" /\ Len(chals') = Len(chals)
           /\ chals'[c].status = "committed" =>
                 \/ chals[c].status = "committed"
                 \/ \E r \in flying : ServeFinish(r) /\ Moves(r) /\ r.chal = c
<1>0. chals \in Chals /\ \A r \in flying : r.pair.sid \in Sids /\ Named(r)
  BY RequestNamed DEF Base, Types, RelayType
<1> DEFINE Good == /\ chals'[c].status = "pending" =>
                         chals[c].status = "pending" /\ Len(chals') = Len(chals)
                   /\ chals'[c].status = "committed" =>
                         \/ chals[c].status = "committed"
                         \/ \E r \in flying : ServeFinish(r) /\ Moves(r) /\ r.chal = c
<1>1. UNCHANGED chals => Good
  OBVIOUS
<1>2. ASSUME NEW d \in 1 .. Len(chals), chals[d].status = "pending",
             chals' = [chals EXCEPT ![d].status = "expired"]
      PROVE  Good
  BY <1>0, <1>2, StatusChange DEF Status
<1>3. ASSUME NEW r \in flying, ServeFinish(r), Moves(r),
             chals' = [chals EXCEPT ![r.chal].status = "committed"]
      PROVE  Good
  BY <1>0, <1>3, StatusChange DEF Status, Moves, Named
<1>4. ASSUME NEW r \in flying, chals' = Append(Superseded, [sid |-> r.pair.sid, status |-> "pending"])
      PROVE  Good
  <2>1. chals'[c].status # "pending" /\ (chals[c].status # "pending" => chals'[c].status = chals[c].status)
    BY <1>0, <1>4, NewChallenge DEF Grows
  <2>2. chals[c].status = "pending" => chals'[c].status # "committed"
    <3>1. Superseded \in Chals /\ Len(Superseded) = Len(chals) /\ Len(chals) \in Nat
      BY <1>0, SupersededType, ChalType
    <3>2. [sid |-> r.pair.sid, status |-> "pending"] \in [sid : Sids, status : Status]
      BY <1>0 DEF Status
    <3>3. chals'[c] = Superseded[c]
      BY <1>4, <3>1, <3>2, AppendProperties DEF Chals
    <3>4. chals[c].status = "pending" => Superseded[c].status = "superseded"
      <4>1. c \in DOMAIN chals /\ chals[c] \in [sid : Sids, status : Status]
        BY <1>0, ElementOfSeq, ChalType DEF Chals
      <4> QED  BY <4>1 DEF Superseded
    <3> QED  BY <3>3, <3>4
  <2> QED  BY <2>1, <2>2
<1>5. ASSUME chals' = Superseded PROVE Good
  <2>1. chals'[c].status # "pending" /\ (chals[c].status # "pending" => chals'[c].status = chals[c].status)
    BY <1>0, <1>5, SupersededGrows DEF Grows
  <2>2. chals[c].status = "pending" => chals'[c].status = "superseded"
    <3>1. c \in DOMAIN chals /\ chals[c] \in [sid : Sids, status : Status]
      BY <1>0, ElementOfSeq, ChalType DEF Chals
    <3> QED  BY <1>5, <3>1 DEF Superseded
  <2> QED  BY <2>1, <2>2
<1> QED  BY <1>1, <1>2, <1>3, <1>4, <1>5, ChallengeMoves

LEMMA ChallengeStep ==
    ASSUME Inv, [Next]_vars
    PROVE  ChallengeInv'
<1>0. Base /\ ChallengeInv /\ FinishInv /\ chals \in Chals /\ Len(chals) \in Nat
  BY InvParts, Numbers DEF Base, Types, RelayType
<1>1. ASSUME NEW c \in 1 .. Len(chals'), chals'[c].status = "pending"
      PROVE  c = Len(chals')
  <2>1. CASE c \in 1 .. Len(chals)
    BY <1>0, <1>1, <2>1, PendingWas DEF ChallengeInv
  <2>2. CASE c \notin 1 .. Len(chals)
    <3>1. Len(chals') = Len(chals) \/ Len(chals') = Len(chals) + 1
      <4>0. \A r \in flying : r.pair.sid \in Sids /\ Named(r)
        BY <1>0, RequestNamed
      <4>1. ASSUME NEW d \in 1 .. Len(chals), chals[d].status = "pending", NEW s \in Status,
                   chals' = [chals EXCEPT ![d].status = s]
            PROVE  Len(chals') = Len(chals)
        BY <1>0, <4>1, StatusChange
      <4>2. ASSUME NEW r \in flying,
                   chals' = Append(Superseded, [sid |-> r.pair.sid, status |-> "pending"])
            PROVE  Len(chals') = Len(chals) + 1
        BY <1>0, <4>0, <4>2, NewChallenge
      <4>3. chals' = Superseded => Len(chals') = Len(chals)
        BY <1>0, SupersededGrows
      <4> QED  BY <1>0, <4>0, <4>1, <4>2, <4>3, ChallengeMoves DEF Status, Moves, Named
    <3> QED  BY <1>0, <2>2, <3>1
  <2> QED  BY <2>1, <2>2
<1>2. ASSUME NEW p \in Procs, pc'[p] = "beginning", answer'[p] = "yes"
      PROVE  chals'[chal'[p]].status # "committed"
  <2>0. None # "yes"
    BY NoneIsNone
  <2>1. ASSUME pc[p] = "beginning", answer[p] = "yes", chal'[p] = chal[p]
        PROVE  chals'[chal'[p]].status # "committed"
    <3>1. chal[p] \in 1 .. Len(chals)
      BY <1>0, <2>1, Remembered DEF MemoryOf
    <3>2. chals[chal[p]].status # "committed"
      BY <1>0, <2>1 DEF ChallengeInv
    <3>3. \A r \in flying : ~Moves(r)
      BY <1>0, <2>1 DEF FinishInv, FinishOf
    <3> QED  BY <1>0, <2>1, <3>1, <3>2, <3>3, PendingWas
  <2>2. CASE Apart
    BY <1>2, <2>1, <2>2 DEF Apart
  <2>3. ASSUME NEW r \in flying, Replies(r), ServeRefresh(r) \/ ServeBegin(r) \/ ServeFinish(r)
        PROVE  chals'[chal'[p]].status # "committed"
    <3>1. CASE p # r.from
      BY <1>2, <2>1, <2>3, <3>1 DEF Replies
    <3>2. CASE p = r.from
      <4>1. r.kind = "begin" /\ p # None
        BY <1>0, <1>2, <2>3, <3>2, RequestNamed, NoneIsNone DEF RequestOf, Named, Req, Replies
      <4>2. /\ chals' = Append(Superseded, [sid |-> r.pair.sid, status |-> "pending"])
            /\ chal' = [chal EXCEPT ![p] = Len(chals) + 1]
        BY <1>0, <1>2, <2>3, <3>2, <4>1 DEF ServeRefresh, ServeBegin, ServeFinish, Reply, Base, Types, NetType
      <4>3. chal'[p] = Len(chals) + 1
        BY <1>0, <4>2 DEF Base, Types, ProcType
      <4>4. chals'[Len(chals) + 1].status = "pending"
        BY <1>0, <4>2, NewChallenge, RequestNamed
      <4> QED  BY <4>3, <4>4
    <3> QED  BY <3>1, <3>2
  <2>4. ASSUME NEW q \in Procs, Moved(q) PROVE chals'[chal'[p]].status # "committed"
    BY <1>2, <2>0, <2>1, <2>4 DEF Moved, Others, Rests
  <2> QED  BY <1>0, <2>2, <2>3, <2>4, StepCases
<1> QED  BY <1>1, <1>2 DEF ChallengeInv

LEMMA JournalInvStep ==
    ASSUME Inv, [Next]_vars
    PROVE  JournalInv'
<1>0. Base /\ Later
  BY InvParts, LaterStep
<1>1. journal' # None => HoldsNext(journal')
  BY <1>0, JournalHolds
<1>2. ASSUME journal' # None, journal'.phase = "renewalRequired"
      PROVE  journal'.nid \in lost' \cup expired'
  <2>1. CASE UNCHANGED journal
    BY <1>0, <1>2, <2>1 DEF Later, Base, BaseInv, JournalInv
  <2>2. ASSUME NEW p \in Procs, JournalStep(p) PROVE journal'.nid \in lost' \cup expired'
    <3>1. RenewalRequired(p)
      BY <1>0, <1>2, <2>2, PrepareDoes, CompleteDoes, BegunDoes, RenouncedDoes, RecordedDoes,
         PublishedDoes, RenewedDoes DEF JournalStep, Pending
    <3>2. TokenOf(p)
      BY InvParts
    <3>3. journal.nid \in lost \cup expired
      BY <1>0, <3>1, <3>2, RefusedDoes DEF TokenOf, Same
    <3> QED  BY <1>0, <3>1, <3>3, RefusedDoes DEF Later
  <2> QED  BY <1>2, <2>1, <2>2, JournalMoves DEF ClearJournal
<1> QED  BY <1>1, <1>2 DEF JournalInv, Holds, HoldsNext
-----------------------------------------------------------------------------
(* A finish that can still move the device.                                *)

\* Where a request comes from.
LEMMA WasFlying ==
    ASSUME Base, [Next]_vars, NEW x \in flying'
    PROVE  \/ \E r \in flying : /\ x.kind = r.kind /\ x.pair = r.pair /\ x.chal = r.chal
                                /\ x.from \in {r.from, None}
           \/ \E p \in Procs : /\ Spend(p) \/ Begin(p) \/ Finish(p) \/ Renew(p)
                               /\ Moved(p) /\ Sent(p, x) /\ x \notin flying
<1>1. CASE x \in flying
  BY <1>1
<1>2. CASE Apart
  BY <1>2 DEF Apart
<1>3. (\E r \in flying : Replies(r)) => x \in flying
  BY DEF Replies
<1>4. ASSUME NEW p \in Procs, Dies(p)
      PROVE  \E r \in flying : /\ x.kind = r.kind /\ x.pair = r.pair /\ x.chal = r.chal
                               /\ x.from \in {r.from, None}
  BY <1>4, DeadRequests
<1>5. ASSUME NEW p \in Procs, Moved(p), Use(p) \/ Reauth(p) \/ Refresh(p) \/ Ends(p) \/ Changed(p),
             x \notin flying
      PROVE  (Spend(p) \/ Begin(p) \/ Finish(p) \/ Renew(p)) /\ Sent(p, x)
  <2>1. Spend(p) \/ Begin(p) \/ Finish(p) \/ Renew(p)
    BY <1>5, FlyingMoves
  <2> QED  BY <1>5, <2>1, SendDoes
<1> QED  BY <1>1, <1>2, <1>3, <1>4, <1>5, StepCases

\* While one is under way nobody starts to work and nothing is adopted.
LEMMA StillNobody ==
    ASSUME Inv, [Next]_vars, NEW r \in flying, Moves(r), FinishOf(r),
           chals'[r.chal].status = "pending", NEW q \in Procs
    PROVE  /\ ~(pc'[q] = "beginning" /\ answer'[q] = "yes")
           /\ pc'[q] \notin Using \cup {"open"}
<1>0. /\ Base /\ pc \in [Procs -> Steps] /\ RequestOf(r) /\ None # "yes"
      /\ ~(pc[q] = "beginning" /\ answer[q] = "yes") /\ pc[q] \notin Using \cup {"open"}
      /\ r.chal \in 1 .. Len(chals) /\ chals \in Chals
      /\ session # None => Blocks(journal)
  BY InvParts, RequestNamed, NoneIsNone DEF Base, Types, ProcType, RelayType, FinishOf, Named, Moves
<1>1. CASE Apart
  BY <1>0, <1>1 DEF Apart
<1>2. ASSUME NEW x \in flying, Replies(x), ServeRefresh(x) \/ ServeBegin(x) \/ ServeFinish(x)
      PROVE  /\ ~(pc'[q] = "beginning" /\ answer'[q] = "yes")
             /\ pc'[q] \notin Using \cup {"open"}
  <2>1. pc'[q] = pc[q]
    BY <1>2 DEF Replies
  <2>2. ASSUME pc[q] = "beginning", answer'[q] = "yes" PROVE FALSE
    <3>1. x.from = q /\ q # None /\ x \in Req
      BY <1>0, <1>2, <2>2, RequestNamed, NoneIsNone DEF Replies, Named
    <3>2. RequestOf(x)
      BY <1>0, RequestNamed
    <3>3. x.kind = "begin"
      BY <2>2, <3>1, <3>2 DEF RequestOf, Req
    <3>4. chals' = Append(Superseded, [sid |-> x.pair.sid, status |-> "pending"])
      BY <1>0, <1>2, <2>2, <3>1, <3>3 DEF ServeRefresh, ServeBegin, ServeFinish, Reply, Base, Types, NetType
    <3>5. chals'[r.chal].status # "pending"
      BY <1>0, <3>4, NewChallenge, RequestNamed
    <3> QED  BY <3>5
  <2> QED  BY <1>0, <2>1, <2>2
<1>3. ASSUME NEW p \in Procs, Moved(p), q # p
      PROVE  /\ ~(pc'[q] = "beginning" /\ answer'[q] = "yes")
             /\ pc'[q] \notin Using \cup {"open"}
  BY <1>0, <1>3 DEF Moved, Others, Rests
<1>4. ASSUME Moved(q), Use(q) \/ Reauth(q) \/ Refresh(q) \/ Ends(q) \/ Dies(q) \/ Changed(q)
      PROVE  /\ ~(pc'[q] = "beginning" /\ answer'[q] = "yes")
             /\ pc'[q] \notin Using \cup {"open"}
  <2>1. answer'[q] # "yes"
    BY <1>0, <1>4 DEF Moved
  <2>2. ~Use(q)
    <3>1. ~StartPass(q) /\ ~Permit(q)
      BY <1>0 DEF StartPass, Permit, Ready, Blocks
    <3> QED  BY <1>0, <3>1 DEF Use, EndPass, Unspent, Spend, Refreshed, Rejected, At, Using
  <2>3. Ends(q) \/ Dies(q) \/ Changed(q) => pc'[q] = "off"
    BY <1>0 DEF Ends, Dies, Changed, Leave, Load, Go
  <2>4. Reauth(q) => pc'[q] \notin Using \cup {"open"}
    BY <1>0 DEF Reauth, Prepare, Rejoin, Verify, Complete, Rerun, Lock, Begin, Begun, Continue,
                Finish, Renounced, ServerCommitted, PublishSession, PublishJournal, Advance, Leave,
                Load, Go, Using
  <2>5. Refresh(q) => pc'[q] \notin Using \cup {"open"}
    BY <1>0 DEF Refresh, Rerun, Lock, Renew, Unrenewed, Renewed, RenewalRequired, Advance, Leave,
                Load, Go, Using
  <2> QED  BY <1>4, <2>1, <2>2, <2>3, <2>4, <2>5 DEF Using
<1> QED  BY <1>0, <1>1, <1>2, <1>3, <1>4, StepCases

\* ... and the machine stays paused.
Paused(r) ==
    session' # None =>
        /\ Blocks(journal') /\ journal'.phase # "serverCommitted"
        /\ journal'.phase = "committing" => journal'.chal = r.chal
        /\ journal'.phase # "committing" => r.pair.sid \in lost' \cup expired'

LEMMA StillPaused ==
    ASSUME Inv, [Next]_vars, NEW r \in flying, Moves(r), FinishOf(r),
           chals'[r.chal].status = "pending"
    PROVE  Paused(r)
<1>0. /\ Base /\ Later /\ RequestOf(r) /\ r.chal \in 1 .. Len(chals) /\ chals \in Chals
      /\ chals[r.chal].status = "pending" /\ chals[r.chal].sid = r.pair.sid
      /\ journal # None => Holds(journal) /\ journal \in Journal
  BY InvParts, RequestNamed, LaterStep, Loaded DEF Base, Types, RelayType, Named, Moves
<1>1. ASSUME session # None
      PROVE  /\ Blocks(journal) /\ journal.phase # "serverCommitted" /\ journal # None
             /\ journal.phase = "committing" => journal.chal = r.chal
             /\ journal.phase # "committing" => r.pair.sid \in lost \cup expired
  BY <1>1 DEF FinishOf, Blocks
<1>2. UNCHANGED <<session, journal>> => Paused(r)
  BY <1>0, <1>1 DEF Paused, Later
<1>3. ClearSession => Paused(r)
  BY DEF ClearSession, Paused
<1>4. ClearJournal => Paused(r)
  BY DEF ClearJournal, Paused
<1>5. ~Relink
  BY <1>0, SupersededGrows DEF Relink
<1>6. ASSUME NEW p \in Procs, Refreshed(p) PROVE FALSE
  BY <1>6 DEF FinishOf, Refreshed, At, Using
<1>7. ASSUME NEW p \in Procs, PublishSession(p) PROVE FALSE
  <2>1. Same(p) /\ pc[p] = "recorded"
    BY <1>7 DEF PublishSession, At
  <2>2. journal.phase = "serverCommitted" /\ session # None
    BY <1>0, <2>1, Remembered DEF MemoryOf, Same, Loadable, Sound
  <2> QED  BY <1>1, <2>2
<1>8. ASSUME NEW p \in Procs, JournalStep(p) PROVE Paused(r)
  <2>0. UNCHANGED session /\ session # None
    BY <1>0, <1>8, JournalFrame, PrepareDoes, CompleteDoes, BegunDoes, RenouncedDoes, RecordedDoes,
       PublishedDoes, RenewedDoes, RefusedDoes DEF JournalStep, Same, Loadable, Sound
  <2>1. CASE Prepare(p)
    <3>1. /\ journal' # None /\ journal'.phase = "awaitingOtp"
          /\ journal'.prior = (journal # None /\ journal.phase = "renewalRequired")
      BY <1>0, <2>1, PrepareDoes, NoneIsNone
    <3>2. journal.phase = "renewalRequired"
      BY <1>0, <1>1, <2>0, <2>1, PrepareDoes DEF Preparable, Blocks, Pending
    <3> QED  BY <1>0, <1>1, <2>0, <3>1, <3>2 DEF Paused, Blocks, Later
  <2>2. CASE Complete(p)
    <3>1. journal' # None /\ journal'.phase = "prepared" /\ journal.phase = "awaitingOtp"
      BY <1>0, <2>2, CompleteDoes, NoneIsNone
    <3> QED  BY <1>0, <1>1, <2>0, <3>1 DEF Paused, Blocks, Pending, Later
  <2>3. CASE Begun(p)
    BY <1>0, <2>3, BegunDoes DEF FinishOf
  <2>4. CASE Renounced(p)
    BY <1>0, <1>1, <2>0, <2>4, RenouncedDoes
  <2>5. CASE ServerCommitted(p)
    BY <1>0, <1>1, <2>0, <2>5, RecordedDoes
  <2>6. CASE PublishJournal(p)
    BY <1>0, <1>1, <2>0, <2>6, PublishedDoes
  <2>7. CASE Renewed(p)
    <3>1. /\ journal' # None /\ journal'.phase = journal.phase /\ journal.phase \in Pending
          /\ journal'.chal = journal.chal
      BY <1>0, <2>7, RenewedDoes, NoneIsNone
    <3> QED  BY <1>0, <1>1, <2>0, <3>1 DEF Paused, Blocks, Later
  <2>8. CASE RenewalRequired(p)
    <3>1. /\ journal' # None /\ journal'.phase = "renewalRequired"
          /\ pc[p] = "renewing" /\ answer[p] = "no" /\ journal = snap[p] /\ journal # None
      BY <1>0, <2>8, RefusedDoes, NoneIsNone DEF Same, Loadable
    <3>2. journal.nid \in lost \cup expired
      BY <3>1, InvParts DEF TokenOf
    <3>3. journal.phase = "committing" => journal.nid = r.pair.sid
      BY <1>0, <1>1, <2>0, <3>1 DEF Holds
    <3> QED  BY <1>0, <1>1, <2>0, <3>1, <3>2, <3>3 DEF Paused, Blocks, Later
  <2> QED  BY <1>8, <2>1, <2>2, <2>3, <2>4, <2>5, <2>6, <2>7, <2>8 DEF JournalStep
<1>9. ASSUME NEW x \in flying, ServeFinish(x) PROVE UNCHANGED <<session, journal>>
  BY <1>9 DEF ServeFinish, Unserved, files
<1> QED  BY <1>2, <1>3, <1>4, <1>5, <1>6, <1>7, <1>8, <1>9, Writes

\* A finish that has just been sent.
LEMMA FinishSent ==
    ASSUME Inv, NEW p \in Procs, Finish(p), Moved(p), NEW r \in flying', Sent(p, r)
    PROVE  FinishOf(r)'
<1>0. /\ Base /\ pc[p] = "signed" /\ pc' = [pc EXCEPT ![p] = "finishing"] /\ Same(p)
      /\ chals[journal.chal].status = "pending" /\ r.chal = journal.chal
      /\ UNCHANGED <<files, chals, pump, fresh>> /\ pc \in [Procs -> Steps]
      /\ UNCHANGED answer
  BY InvParts DEF Finish, At, Go, StatusOf, Sent, Quiet, relay, locks, Base, Types, ProcType
<1>1. pump = p /\ fresh = p
  BY <1>0, Remembered DEF LockOf, Fresh, Gated
<1>2. ASSUME NEW q \in Procs
      PROVE  /\ ~(pc'[q] = "beginning" /\ answer'[q] = "yes")
             /\ pc'[q] \notin Using \cup {"open"}
  <2>1. CASE q = p
    BY <1>0, <2>1 DEF Using
  <2>2. CASE q # p
    <3>1. LockOf(q) /\ fresh # q /\ pump # q
      BY <1>0, <1>1, <2>2, Remembered
    <3> QED  BY <1>0, <2>2, <3>1 DEF LockOf, Fresh, Gated, Using
  <2> QED  BY <2>1, <2>2
<1>3. journal.phase = "committing" /\ journal # None
  BY <1>0, Remembered, Loaded DEF MemoryOf, Same, Loadable, Holds
<1>4. Blocks(journal)
  BY <1>3 DEF Blocks, Pending
<1> QED  BY <1>0, <1>2, <1>3, <1>4 DEF FinishOf, files, Blocks

LEMMA FinishStep ==
    ASSUME Inv, [Next]_vars
    PROVE  FinishInv'
<1>1. SUFFICES ASSUME NEW x \in flying' PROVE FinishOf(x)'
  BY DEF FinishInv
<1>2. ASSUME NEW r \in flying, x.kind = r.kind, x.pair = r.pair, x.chal = r.chal PROVE FinishOf(x)'
  <2>1. SUFFICES ASSUME x.kind = "finish", chals'[x.chal].status = "pending" PROVE FinishOf(x)'
    BY DEF FinishOf, Moves
  <2>2. r.chal \in 1 .. Len(chals) /\ FinishOf(r) /\ Base
    BY <1>2, <2>1, InvParts, RequestNamed DEF Named, FinishInv
  <2>3. Moves(r)
    BY <1>2, <2>1, <2>2, PendingWas DEF Moves
  <2>4. Paused(r)
    BY <1>2, <2>1, <2>2, <2>3, StillPaused
  <2>5. \A q \in Procs : /\ ~(pc'[q] = "beginning" /\ answer'[q] = "yes")
                         /\ pc'[q] \notin Using \cup {"open"}
    BY <1>2, <2>1, <2>2, <2>3, StillNobody
  <2> QED  BY <1>2, <2>4, <2>5 DEF FinishOf, Paused, Blocks
<1>3. ASSUME NEW p \in Procs, Spend(p) \/ Begin(p) \/ Renew(p), Sent(p, x) PROVE FinishOf(x)'
  BY <1>3 DEF Sent, FinishOf, Moves
<1>4. ASSUME NEW p \in Procs, Finish(p), Moved(p), Sent(p, x) PROVE FinishOf(x)'
  BY <1>4, FinishSent
<1> QED  BY <1>2, <1>3, <1>4, InvParts, WasFlying
-----------------------------------------------------------------------------
(* Where the relay's device is.                                            *)

LEMMA AcceptedIs ==
    ASSUME Inv
    PROVE  /\ Accepted => bound = journal.nid
           /\ session # None /\ bound \notin lost \cup expired =>
                 \/ session.sid = bound
                 \/ journal # None /\ journal.next # None /\ journal.next.sid = bound
BY InvParts DEF BoundInv, BoundPairKept

\* What BoundInv says of the next state.
BoundNext ==
    /\ Accepted' => bound' = journal'.nid
    /\ session' # None /\ bound' \notin lost' \cup expired' =>
          \/ session'.sid = bound'
          \/ journal' # None /\ journal'.next # None /\ journal'.next.sid = bound'

\* The device stays, and so do the files.
LEMMA BoundRests ==
    ASSUME Inv, [Next]_vars, UNCHANGED <<journal, bound>>, session' # None => session # None,
           session' # None => session'.sid = session.sid, ~ \E r \in flying : ServeFinish(r)
    PROVE  BoundNext
<1>0. Base /\ Later
  BY InvParts, LaterStep
<1>1. Accepted' => Accepted
  <2>1. SUFFICES ASSUME Accepted' PROVE Accepted
    OBVIOUS
  <2>2. journal # None /\ Sound(journal) /\ journal.phase \in {"committing", "serverCommitted"}
        /\ chals'[journal.chal].status = "committed"
    BY <2>1 DEF Accepted, Sound
  <2>3. journal.chal \in 1 .. Len(chals)
    BY <1>0, <2>2, Loaded DEF Holds
  <2> QED  BY <1>0, <2>2, <2>3, PendingWas DEF Accepted
<1> QED  BY <1>0, <1>1, AcceptedIs DEF BoundNext, Later

\* The device moves to the sign-in of the journal.
LEMMA BoundMoves ==
    ASSUME Inv, [Next]_vars, NEW r \in flying, ServeFinish(r)
    PROVE  BoundNext
<1>0. Base /\ Later /\ UNCHANGED <<session, journal>>
  BY InvParts, LaterStep DEF ServeFinish, Unserved, files
<1>1. /\ r.kind = "finish" /\ r.chal \in 1 .. Len(chals) /\ chals[r.chal].sid = r.pair.sid
      /\ FinishOf(r)
  BY <1>0, RequestNamed, InvParts DEF ServeFinish, Named, FinishInv
<1>2. CASE Moves(r) /\ bound' = chals[r.chal].sid
  <2>1. CASE session = None
    BY <1>0, <2>1 DEF BoundNext, Accepted, Sound
  <2>2. CASE session # None /\ journal.phase = "committing"
    <3>1. journal # None /\ journal.chal = r.chal
      BY <1>2, <1>1, <2>2 DEF FinishOf, Blocks
    <3>2. /\ chals[journal.chal].sid = journal.nid /\ journal.next # None
          /\ journal.next.sid = journal.nid
      BY <1>0, <2>2, <3>1, Loaded DEF Holds, Pending
    <3> QED  BY <1>0, <1>2, <3>1, <3>2 DEF BoundNext
  <2>3. CASE session # None /\ journal.phase # "committing"
    <3>1. journal.phase # "serverCommitted" /\ r.pair.sid \in lost \cup expired
      BY <1>2, <1>1, <2>3 DEF FinishOf
    <3> QED  BY <1>0, <1>1, <1>2, <2>3, <3>1 DEF BoundNext, Accepted, Later
  <2> QED  BY <2>1, <2>2, <2>3
<1>3. CASE UNCHANGED <<chals, bound>>
  BY <1>0, <1>3, AcceptedIs DEF BoundNext, Accepted, Sound, Later
<1>4. (Moves(r) /\ bound' = chals[r.chal].sid) \/ UNCHANGED <<chals, bound>>
  BY DEF ServeFinish, Moves, StatusOf
<1> QED  BY <1>2, <1>3, <1>4

LEMMA BoundJournal ==
    ASSUME Inv, [Next]_vars, NEW p \in Procs, JournalStep(p)
    PROVE  BoundNext
<1>0. Base /\ Later /\ UNCHANGED <<session, bound, chals, expired, lost>>
  BY InvParts, LaterStep, JournalFrame
<1> DEFINE Before == journal # None /\ journal.next # None /\ journal.next.sid = bound
<1>1. session # None /\ bound \notin lost \cup expired => session.sid = bound \/ Before
  BY AcceptedIs
<1>2. CASE Prepare(p)
  <2>1. /\ journal' # None /\ journal'.phase = "awaitingOtp" /\ Preparable
    BY <1>0, <1>2, PrepareDoes, NoneIsNone
  <2>2. ~Accepted'
    BY <2>1 DEF Accepted
  <2>3. ASSUME Before PROVE bound \in lost \cup expired
    <3>1. Holds(journal) /\ journal.phase \in {"committed", "renewalRequired"}
      BY <1>0, <2>1, <2>3, Loaded DEF Preparable
    <3>2. journal.phase = "renewalRequired" /\ journal.nid = bound
      BY <2>3, <3>1 DEF Holds
    <3> QED  BY <1>0, <2>3, <3>2 DEF Base, BaseInv, JournalInv
  <2> QED  BY <1>0, <1>1, <2>2, <2>3 DEF BoundNext
<1>3. CASE Complete(p)
  <2>1. journal # None /\ journal'.phase = "prepared" /\ journal.phase = "awaitingOtp"
    BY <1>0, <1>3, CompleteDoes DEF Same, Loadable
  <2>2. ~Accepted' /\ ~Before
    BY <1>0, <2>1, Loaded DEF Accepted, Holds
  <2> QED  BY <1>0, <1>1, <2>2 DEF BoundNext
<1>4. CASE Begun(p)
  <2>1. /\ pc[p] = "beginning" /\ answer[p] = "yes" /\ journal'.chal = chal[p]
        /\ journal' # None /\ journal'.next = journal.next
    BY <1>0, <1>4, BegunDoes, NoneIsNone
  <2>2. chals[journal'.chal].status # "committed"
    BY <2>1, InvParts DEF ChallengeInv
  <2> QED  BY <1>0, <1>1, <2>1, <2>2 DEF BoundNext, Accepted
<1>5. CASE Renounced(p)
  <2>1. journal' # None /\ journal'.next = journal.next /\ journal'.phase = "prepared"
    BY <1>0, <1>5, RenouncedDoes, NoneIsNone
  <2> QED  BY <1>0, <1>1, <2>1 DEF BoundNext, Accepted
<1>6. CASE ServerCommitted(p)
  <2>1. /\ journal' # None /\ journal'.next = journal.next /\ journal'.nid = journal.nid
        /\ Same(p) /\ journal.phase \in {"committing", "serverCommitted"}
        /\ chals[journal.chal].status = "committed"
    BY <1>0, <1>6, RecordedDoes, NoneIsNone
  <2>2. Accepted
    BY <2>1 DEF Accepted, Same, Loadable
  <2> QED  BY <1>0, <1>1, <2>1, <2>2, AcceptedIs DEF BoundNext
<1>7. CASE PublishJournal(p)
  <2>1. /\ journal'.phase = "committed" /\ Same(p) /\ journal.phase = "serverCommitted"
        /\ session = journal.next
    BY <1>0, <1>7, PublishedDoes
  <2>2. Holds(journal)
    BY <1>0, <2>1, Loaded DEF Same, Loadable
  <2>3. Accepted /\ session.sid = journal.nid
    BY <2>1, <2>2 DEF Accepted, Same, Loadable, Holds, Pending
  <2> QED  BY <1>0, <2>1, <2>3, AcceptedIs DEF BoundNext, Accepted
<1>8. CASE Renewed(p)
  <2>1. /\ journal' # None /\ journal'.next.sid = journal.next.sid /\ journal'.next # None
        /\ journal'.nid = journal.nid /\ journal'.phase = journal.phase
        /\ journal'.chal = journal.chal /\ Same(p)
    BY <1>0, <1>8, RenewedDoes, NoneIsNone
  <2>2. Accepted' => Accepted
    BY <1>0, <2>1 DEF Accepted, Same, Loadable
  <2> QED  BY <1>0, <1>1, <2>1, <2>2, AcceptedIs DEF BoundNext
<1>9. CASE RenewalRequired(p)
  <2>1. journal' # None /\ journal'.next = journal.next /\ journal'.phase = "renewalRequired"
    BY <1>0, <1>9, RefusedDoes, NoneIsNone
  <2> QED  BY <1>0, <1>1, <2>1 DEF BoundNext, Accepted
<1> QED  BY <1>2, <1>3, <1>4, <1>5, <1>6, <1>7, <1>8, <1>9 DEF JournalStep

LEMMA BoundStep ==
    ASSUME Inv, [Next]_vars
    PROVE  BoundInv'
<1>0. Base /\ Later
  BY InvParts, LaterStep
<1>1. ASSUME UNCHANGED <<session, journal, bound>>, ~ \E r \in flying : ServeFinish(r) PROVE BoundNext
  BY <1>1, BoundRests
<1>2. ASSUME Relink PROVE BoundNext
  <2>1. UNCHANGED journal /\ session' = [sid |-> issued + 1, tok |-> 0] /\ bound' = issued + 1
    BY <1>2 DEF Relink
  <2>2. session'.sid = bound'
    BY <2>1
  <2>3. ~Accepted'
    <3>1. SUFFICES ASSUME Accepted' PROVE FALSE
      OBVIOUS
    <3>2. journal # None /\ session'.sid \in {journal.orig, journal.nid}
      BY <2>1, <3>1 DEF Accepted, Sound
    <3>3. /\ journal.orig \in Nat /\ journal.orig <= issued /\ issued \in Nat
          /\ issued + 1 # None
          /\ journal.nid # None => journal.nid \in Nat /\ journal.nid <= issued
      BY <1>0, <3>2, Loaded, JournalFields, Numbers, NoneIsNone DEF Holds
    <3> QED  BY <2>1, <2>2, <3>2, <3>3
  <2> QED  BY <2>2, <2>3 DEF BoundNext
<1>3. ClearSession => BoundNext
  BY DEF ClearSession, BoundNext, Accepted, Sound
<1>4. ClearJournal => BoundNext
  BY DEF ClearJournal, BoundNext, Accepted
<1>5. ASSUME NEW p \in Procs, Refreshed(p) PROVE BoundNext
  <2>1. pc[p] = "spending" /\ answer[p] = "yes" /\ UNCHANGED <<journal, bound, chals>>
    BY <1>5 DEF Refreshed, At, Answered, Quiet, relay
  <2>2. pair[p] \in Pair /\ pair[p].tok < MaxToks
    BY <1>0, <2>1, PairOf, Remembered DEF MemoryOf, Using
  <2>3. session = pair[p] => session' = [pair[p] EXCEPT !.tok = @ + 1]
    BY <1>5 DEF Refreshed, Stored
  <2>4. session # pair[p] => UNCHANGED session
    BY <1>5 DEF Refreshed, Stored
  <2>5. session = pair[p] => session # None /\ session'.sid = session.sid
    BY <2>2, <2>3, NextPair, NoneIsNone
  <2>6. (session' # None => session # None) /\ (session' # None => session'.sid = session.sid)
    BY <2>4, <2>5
  <2>7. ASSUME Accepted' PROVE Accepted
    BY <2>1, <2>6, <2>7 DEF Accepted, Sound
  <2> QED  BY <1>0, <2>1, <2>6, <2>7, AcceptedIs DEF BoundNext, Later
<1>6. ASSUME NEW p \in Procs, PublishSession(p) PROVE BoundNext
  <2>1. pc[p] = "recorded" /\ Same(p) /\ session' = journal.next /\ UNCHANGED <<journal, bound, chals>>
    BY <1>6 DEF PublishSession, At, Alone, Quiet, relay
  <2>2. journal # None /\ journal.phase = "serverCommitted" /\ Holds(journal)
    BY <1>0, <2>1, Remembered, Loaded DEF MemoryOf, Same, Loadable
  <2>3. Accepted /\ journal.next.sid = journal.nid
    BY <2>1, <2>2 DEF Accepted, Same, Loadable, Holds, Pending
  <2> QED  BY <2>1, <2>2, <2>3, AcceptedIs DEF BoundNext
<1>7. BoundNext
  BY <1>1, <1>2, <1>3, <1>4, <1>5, <1>6, BoundMoves, BoundJournal, Writes
<1> QED  BY <1>7 DEF BoundNext, BoundInv, BoundPairKept
-----------------------------------------------------------------------------
(* Refresh tokens.                                                         *)

\* The refresh lock has one holder.
LEMMA OneFresh ==
    ASSUME Base, NEW p \in Procs, NEW q \in Procs, pc[p] \in Fresh, pc[q] \in Fresh
    PROVE  p = q
BY Remembered DEF LockOf

NewestNext(x) == x.sid \in lost' \/ x.tok = toks'[x.sid]
ReplacedNext(x) == x.sid \in lost' \/ toks'[x.sid] = x.tok + 1

\* The pair that a waiting process has sent.
LEMMA WaitsFor ==
    ASSUME Base, NEW r \in flying, r.kind = "refresh", r.from # None
    PROVE  /\ r.from \in Procs /\ answer[r.from] = None
           /\ \/ pc[r.from] = "spending" /\ pair[r.from] = r.pair
              \/ pc[r.from] = "renewing" /\ snap[r.from].next = r.pair /\ snap[r.from].nid = r.pair.sid
<1>1. RequestOf(r) /\ r \in Req /\ r.from \in Procs
  BY RequestNamed DEF Named, Req
<1>2. pc[r.from] = "renewing" /\ r.pair = snap[r.from].next => snap[r.from].nid = r.pair.sid
  <2>1. SUFFICES ASSUME pc[r.from] = "renewing", r.pair = snap[r.from].next
                 PROVE  snap[r.from].nid = r.pair.sid
    OBVIOUS
  <2>2. Holds(snap[r.from]) /\ snap[r.from].phase \in Pending
    BY <1>1, <2>1, Remembered DEF MemoryOf, Steps
  <2> QED  BY <2>1, <2>2 DEF Holds
<1> QED  BY <1>1, <1>2 DEF RequestOf

\* A token that can still be lost is spent by a process that knows it.
LEMMA Spending ==
    ASSUME Base, [Next]_vars, NEW s \in Sids, toks'[s] # toks[s], s \notin lost
    PROVE  \E p \in Procs :
              /\ UNCHANGED <<session, journal, pc, snap, pair, lost>>
              /\ answer[p] = None /\ answer'[p] = "yes"
              /\ toks'[s] = toks[s] + 1
              /\ \/ pc[p] = "spending" /\ pair[p].sid = s /\ pair[p].tok = toks[s]
                 \/ /\ pc[p] = "renewing" /\ snap[p].next.sid = s /\ snap[p].next.tok = toks[s]
                    /\ snap[p].nid = s
<1>1. PICK r \in flying : ServeRefresh(r)
  <2>1. \A r \in flying : ServeBegin(r) \/ ServeFinish(r) => UNCHANGED toks
    BY DEF ServeBegin, ServeFinish
  <2>2. (\E c \in DOMAIN chals : ChallengeExpires(c)) \/ (\E x \in Sids : SignInEnds(x)) \/ Relink
        \/ (\E p \in Procs : Verify(p)) => UNCHANGED toks
    BY DEF ChallengeExpires, SignInEnds, Relink, Verify
  <2> QED  BY <2>1, <2>2, RelayMoves DEF relay, RelayStep
<1>2. /\ r.pair.tok = toks[r.pair.sid] /\ Reply(r, "yes")
      /\ toks' = [toks EXCEPT ![r.pair.sid] = @ + 1] /\ r.kind = "refresh"
  BY <1>1 DEF ServeRefresh
<1>3. r.pair.sid = s /\ toks'[s] = toks[s] + 1
  BY <1>2, RequestNamed DEF Base, Types, RelayType
<1>4. r.from # None
  BY <1>2, <1>3, RequestNamed DEF RequestOf
<1>5. Replies(r)
  BY <1>1, RelayReplies
<1>6. answer'[r.from] = "yes"
  BY <1>2, <1>4, WaitsFor DEF Reply, Base, Types, NetType
<1> QED  BY <1>2, <1>3, <1>4, <1>5, <1>6, WaitsFor DEF Replies

\* While a process holds the refresh lock and hears nothing, no token is spent.
LEMMA TokensRest ==
    ASSUME Base, [Next]_vars, NEW p \in Procs, pc[p] \in Fresh, answer'[p] = answer[p],
           NEW s \in Sids, s \notin lost
    PROVE  toks'[s] = toks[s]
BY Spending, OneFresh, NoneIsNone DEF Fresh

LEMMA JournalFresh ==
    ASSUME Base, NEW p \in Procs, JournalStep(p)
    PROVE  \/ Prepare(p) \/ Complete(p)
           \/ pc[p] \in Fresh \ (Using \cup {"renewing"}) /\ ~Renewed(p) /\ ~RenewalRequired(p)
           \/ pc[p] = "renewing" /\ pc'[p] # "renewing" /\ (Renewed(p) \/ RenewalRequired(p))
<1>1. Begun(p) \/ Renounced(p) \/ ServerCommitted(p) \/ PublishJournal(p) =>
        pc[p] \in {"beginning", "signed", "finishing", "recorded"}
  BY DEF Begun, Renounced, ServerCommitted, PublishJournal, At
<1>2. Renewed(p) \/ RenewalRequired(p) => pc[p] = "renewing" /\ pc'[p] # "renewing"
  BY DEF Renewed, RenewalRequired, Advance, Leave, Load, Go, At, Base, Types, ProcType
<1> QED  BY <1>1, <1>2 DEF JournalStep, Fresh, Using

\* What can happen to the files while a process works with a token.
LEMMA FilesRest ==
    ASSUME Base, [Next]_vars, NEW p \in Procs, pc[p] \in Using \cup {"renewing"}, pc'[p] = pc[p]
    PROVE  /\ \/ UNCHANGED session \/ session' = None
              \/ session'.sid = issued + 1
           /\ \/ UNCHANGED journal
              \/ journal' = None /\ session' = None
              \/ /\ UNCHANGED session
                 /\ \E q \in Procs : Prepare(q) \/ Complete(q)
<1>0. pc[p] \in Fresh
  BY DEF Fresh, Using
<1>1. ASSUME NEW q \in Procs, Refreshed(q) PROVE FALSE
  <2>1. pc[q] = "spending" /\ pc'[q] # "spending"
    BY <1>1 DEF Refreshed, At, Reopen, Go, Base, Types, ProcType
  <2> QED  BY <1>0, <2>1, OneFresh DEF Fresh
<1>2. ASSUME NEW q \in Procs, PublishSession(q) PROVE FALSE
  BY <1>0, <1>2, OneFresh DEF PublishSession, At, Fresh, Using
<1>3. ASSUME NEW q \in Procs, JournalStep(q) PROVE Prepare(q) \/ Complete(q)
  BY <1>0, <1>3, JournalFresh, OneFresh DEF Fresh
<1>4. Relink => session'.sid = issued + 1
  BY DEF Relink
<1>5. ASSUME UNCHANGED session \/ session' = None \/ session'.sid = issued + 1,
             NEW q \in Procs, JournalStep(q)
      PROVE  UNCHANGED session
  BY <1>5, JournalFrame
<1> QED
  BY <1>1, <1>2, <1>3, <1>4, <1>5, SessionMoves, JournalMoves DEF ClearSession, ClearJournal

\* TokenOf(p) in the next state, and its two parts.
UsingNext(p) ==
    pc'[p] \in Using =>
        /\ IF answer'[p] = "yes" THEN ReplacedNext(pair'[p]) ELSE NewestNext(pair'[p])
        /\ session' # None /\ session'.sid = pair'[p].sid => session' = pair'[p]
        /\ journal' # None /\ journal'.phase \in Pending => journal'.nid # pair'[p].sid

RenewingNext(p) ==
    pc'[p] = "renewing" =>
        /\ IF answer'[p] = "yes" THEN ReplacedNext(snap'[p].next) ELSE NewestNext(snap'[p].next)
        /\ answer'[p] = "no" => snap'[p].nid \in lost' \cup expired'
        /\ journal' # None /\ journal'.phase \in Pending /\ journal'.nid = snap'[p].nid =>
              journal' = snap'[p]
        /\ session' # None /\ session'.sid = snap'[p].nid => Blocks(journal')

LEMMA TokenNext ==
    ASSUME NEW p \in Procs, UsingNext(p), RenewingNext(p)
    PROVE  TokenOf(p)'
BY DEF UsingNext, RenewingNext, TokenOf, Newest, Replaced, NewestNext, ReplacedNext, Blocks

\* The files, seen from a process that works with a token.
LEMMA UsingFiles ==
    ASSUME Inv, [Next]_vars, NEW p \in Procs, pc[p] \in Using, pc'[p] = pc[p], pair'[p] = pair[p]
    PROVE  /\ session' # None /\ session'.sid = pair'[p].sid => session' = pair'[p]
           /\ journal' # None /\ journal'.phase \in Pending => journal'.nid # pair'[p].sid
<1>0. Base /\ TokenOf(p)
  BY InvParts
<1>1. pair[p].sid # issued + 1
  BY <1>0, PairOf, Numbers
<1>2. /\ session # None /\ session.sid = pair[p].sid => session = pair[p]
      /\ journal # None /\ journal.phase \in Pending => journal.nid # pair[p].sid
  BY <1>0 DEF TokenOf
<1>3. session' # None /\ session'.sid = pair'[p].sid => session' = pair'[p]
  BY <1>0, <1>1, <1>2, FilesRest
<1>4. ASSUME NEW q \in Procs, Prepare(q) PROVE journal'.phase \notin Pending
  BY <1>0, <1>4, PrepareDoes DEF Pending
<1>5. ASSUME NEW q \in Procs, Complete(q) PROVE journal'.nid # pair[p].sid
  <2>1. NewOf(q) /\ pc[q] = "verified" /\ journal'.nid = pair[q].sid
    BY <1>0, <1>5, CompleteDoes, InvParts DEF NewInv
  <2> QED  BY <2>1 DEF NewOf
<1> QED  BY <1>0, <1>2, <1>3, <1>4, <1>5, FilesRest

LEMMA RenewingFiles ==
    ASSUME Inv, [Next]_vars, NEW p \in Procs, pc[p] = "renewing", pc'[p] = pc[p], snap'[p] = snap[p]
    PROVE  /\ journal' # None /\ journal'.phase \in Pending /\ journal'.nid = snap'[p].nid =>
                 journal' = snap'[p]
           /\ session' # None /\ session'.sid = snap'[p].nid => Blocks(journal')
<1>0. Base /\ TokenOf(p)
  BY InvParts
<1>1. snap[p].nid # issued + 1
  <2>1. Holds(snap[p]) /\ snap[p].phase \in Pending
    BY <1>0, Remembered DEF MemoryOf, Steps
  <2>2. snap[p].nid # None => snap[p].nid \in Nat /\ snap[p].nid <= issued
    BY <1>0, <2>1, JournalFields, Numbers DEF Holds
  <2> QED  BY <1>0, <2>2, Numbers, NoneIsNone
<1>2. /\ journal # None /\ journal.phase \in Pending /\ journal.nid = snap[p].nid => journal = snap[p]
      /\ session # None /\ session.sid = snap[p].nid => Blocks(journal)
  BY <1>0 DEF TokenOf
<1>3. ASSUME NEW q \in Procs, Prepare(q), UNCHANGED session
      PROVE  /\ journal'.phase \notin Pending
             /\ session # None /\ session.sid = snap[p].nid => Blocks(journal')
  <2>1. /\ journal'.phase = "awaitingOtp" /\ Preparable /\ journal' # None
        /\ journal'.prior = (journal # None /\ journal.phase = "renewalRequired")
    BY <1>0, <1>3, PrepareDoes, NoneIsNone
  <2> QED  BY <1>2, <2>1 DEF Preparable, Blocks, Pending
<1>4. ASSUME NEW q \in Procs, Complete(q)
      PROVE  journal'.nid # snap[p].nid /\ Blocks(journal')
  <2>1. /\ NewOf(q) /\ pc[q] = "verified" /\ journal'.nid = pair[q].sid
        /\ journal' # None /\ journal'.phase = "prepared"
    BY <1>0, <1>4, CompleteDoes, InvParts, NoneIsNone DEF NewInv
  <2> QED  BY <2>1 DEF NewOf, Blocks, Pending
<1> QED  BY <1>0, <1>1, <1>2, <1>3, <1>4, FilesRest

\* A process that hears nothing keeps what it knows of its token.
LEMMA NewestRests ==
    ASSUME Base, [Next]_vars, NEW p \in Procs, pc[p] \in Fresh, answer'[p] = answer[p], NEW x \in Pair
    PROVE  /\ Newest(x) => NewestNext(x)
           /\ Replaced(x) => ReplacedNext(x)
<1>1. x.sid \in Sids /\ lost \subseteq lost'
  BY PairFields, LaterStep DEF Later
<1> QED  BY <1>1, TokensRest DEF Newest, Replaced, NewestNext, ReplacedNext

LEMMA RenewingPair ==
    ASSUME Base, NEW p \in Procs, pc[p] = "renewing"
    PROVE  /\ Holds(snap[p]) /\ snap[p].phase \in Pending /\ snap[p].next \in Pair
           /\ snap[p].nid = snap[p].next.sid /\ snap[p].nid \in Sids
<1>1. Holds(snap[p]) /\ snap[p].phase \in Pending
  BY Remembered DEF MemoryOf, Steps
<1> QED  BY <1>1, JournalFields, PairFields DEF Holds

LEMMA TokenRests ==
    ASSUME Inv, [Next]_vars, NEW p \in Procs, Rests(p), answer'[p] = answer[p]
    PROVE  TokenOf(p)'
<1>0. Base /\ TokenOf(p) /\ Later
  BY InvParts, LaterStep
<1>1. UsingNext(p)
  <2>1. SUFFICES ASSUME pc'[p] \in Using PROVE UsingNext(p)
    BY DEF UsingNext
  <2>2. pc[p] \in Using /\ pc[p] \in Fresh /\ pair[p] \in Pair /\ pair'[p] = pair[p] /\ pc'[p] = pc[p]
    BY <1>0, <2>1, PairOf DEF Rests, Using, Fresh
  <2>3. IF answer'[p] = "yes" THEN ReplacedNext(pair'[p]) ELSE NewestNext(pair'[p])
    BY <1>0, <2>2, NewestRests DEF TokenOf
  <2> QED  BY <2>2, <2>3, UsingFiles DEF UsingNext
<1>2. RenewingNext(p)
  <2>1. SUFFICES ASSUME pc'[p] = "renewing" PROVE RenewingNext(p)
    BY DEF RenewingNext
  <2>2. pc[p] = "renewing" /\ pc[p] \in Fresh /\ snap'[p] = snap[p] /\ pc'[p] = pc[p]
    BY <2>1 DEF Rests, Fresh
  <2>3. IF answer'[p] = "yes" THEN ReplacedNext(snap'[p].next) ELSE NewestNext(snap'[p].next)
    BY <1>0, <2>2, NewestRests, RenewingPair DEF TokenOf
  <2>4. answer'[p] = "no" => snap'[p].nid \in lost' \cup expired'
    BY <1>0, <2>2 DEF TokenOf, Later
  <2> QED  BY <2>2, <2>3, <2>4, RenewingFiles DEF RenewingNext
<1> QED  BY <1>1, <1>2, TokenNext

\* The relay's answer tells the truth about the token.
LEMMA TokenReplied ==
    ASSUME Inv, [Next]_vars, NEW r \in flying, Replies(r), NEW p \in Procs, p = r.from,
           ServeRefresh(r) \/ ServeBegin(r) \/ ServeFinish(r)
    PROVE  TokenOf(p)'
<1>0. /\ Base /\ TokenOf(p) /\ Later /\ UNCHANGED <<pc, pair, snap, lost>> /\ p # None
      /\ answer'[p] \in {"yes", "no"} /\ answer[p] = None /\ None # "yes" /\ None # "no"
      /\ RequestOf(r) /\ r \in Req /\ r.pair \in Pair /\ r.pair.sid \in Sids
  BY InvParts, LaterStep, NoneIsNone, RequestNamed DEF Replies, Named
<1>1. CASE pc[p] \notin {"spending", "renewing"}
  <2>1. pc[p] # "permitted"
    BY <1>0 DEF RequestOf, Req
  <2> QED  BY <1>0, <1>1, <2>1, TokenNext DEF UsingNext, RenewingNext, Using
<1>2. CASE pc[p] \in {"spending", "renewing"}
  <2>1. r.kind = "refresh"
    BY <1>0, <1>2 DEF RequestOf, Req
  <2>2. ServeRefresh(r)
    BY <2>1 DEF ServeBegin, ServeFinish
  <2>3. \/ pc[p] = "spending" /\ pair[p] = r.pair
        \/ pc[p] = "renewing" /\ snap[p].next = r.pair /\ snap[p].nid = r.pair.sid
    BY <1>0, <2>1, WaitsFor
  <2>4. Newest(r.pair)
    BY <1>0, <2>3 DEF TokenOf, Using
  <2>5. /\ answer'[p] = "yes" => ReplacedNext(r.pair)
        /\ answer'[p] = "no" => NewestNext(r.pair) /\ r.pair.sid \in lost' \cup expired'
    <3>1. CASE r.pair.sid \notin expired /\ r.pair.tok = toks[r.pair.sid]
      <4>1. Reply(r, "yes") /\ toks' = [toks EXCEPT ![r.pair.sid] = @ + 1]
        BY <2>2, <3>1 DEF ServeRefresh
      <4>2. answer'[p] = "yes" /\ toks'[r.pair.sid] = r.pair.tok + 1
        BY <1>0, <3>1, <4>1 DEF Reply, Base, Types, NetType, RelayType
      <4> QED  BY <4>2 DEF ReplacedNext
    <3>2. CASE ~(r.pair.sid \notin expired /\ r.pair.tok = toks[r.pair.sid])
      <4>1. Reply(r, "no") /\ UNCHANGED toks
        BY <2>2, <3>2 DEF ServeRefresh
      <4>2. answer'[p] = "no"
        BY <1>0, <4>1 DEF Reply, Base, Types, NetType
      <4> QED  BY <1>0, <2>4, <3>2, <4>1, <4>2 DEF Newest, NewestNext, Later
    <3> QED  BY <3>1, <3>2
  <2>6. UsingNext(p)
    <3>1. SUFFICES ASSUME pc'[p] \in Using PROVE UsingNext(p)
      BY DEF UsingNext
    <3>2. pair'[p] = r.pair /\ pc[p] \in Using /\ pc'[p] = pc[p] /\ pair'[p] = pair[p]
      BY <1>0, <2>3, <3>1 DEF Using
    <3> QED  BY <1>0, <2>5, <3>2, UsingFiles DEF UsingNext
  <2>7. RenewingNext(p)
    <3>1. SUFFICES ASSUME pc'[p] = "renewing" PROVE RenewingNext(p)
      BY DEF RenewingNext
    <3>2. /\ snap'[p].next = r.pair /\ snap'[p].nid = r.pair.sid
          /\ pc[p] = "renewing" /\ pc'[p] = pc[p] /\ snap'[p] = snap[p]
      BY <1>0, <2>3, <3>1
    <3> QED  BY <1>0, <2>5, <3>2, RenewingFiles DEF RenewingNext
  <2> QED  BY <2>6, <2>7, TokenNext
<1> QED  BY <1>1, <1>2

\* Who starts to work with a token has the newest one.
LEMMA TokenMoves ==
    ASSUME Inv, [Next]_vars, NEW p \in Procs, Moved(p),
           Use(p) \/ Reauth(p) \/ Refresh(p) \/ Ends(p) \/ Dies(p) \/ Changed(p)
    PROVE  TokenOf(p)'
<1>0. /\ Base /\ TokenOf(p) /\ StoredInv /\ Later /\ answer'[p] = None /\ None # "yes" /\ None # "no"
      /\ pc \in [Procs -> Steps] /\ pair \in [Procs -> Pair \cup {None}]
      /\ snap \in [Procs -> Journal \cup {None}]
  BY InvParts, LaterStep, NoneIsNone DEF Moved, Base, Types, ProcType
<1>1. CASE Permit(p)
  <2>1. /\ pc'[p] = "permitted" /\ pair'[p] = session /\ session # None /\ Ready /\ fresh = None
        /\ UNCHANGED <<session, journal, toks, lost>>
    BY <1>0, <1>1 DEF Permit, Go, files, Alone, Quiet, relay
  <2>2. ~Blocks(journal)
    BY <2>1 DEF Ready, Blocks
  <2>3. ASSUME NEW q \in Procs PROVE pc[q] \notin Fresh
    BY <1>0, <2>1, Remembered, NoneIsNone DEF LockOf
  <2>4. Newest(session)
    BY <1>0, <2>1, <2>2, <2>3 DEF StoredInv, Fresh
  <2>5. NewestNext(pair'[p])
    BY <2>1, <2>4 DEF Newest, NewestNext
  <2>6. UsingNext(p)
    BY <1>0, <2>1, <2>2, <2>5 DEF UsingNext, Blocks
  <2> QED  BY <2>1, <2>6, TokenNext DEF RenewingNext
<1>2. CASE Spend(p)
  <2>1. /\ pc[p] = "permitted" /\ pc'[p] = "spending" /\ pair'[p] = pair[p]
        /\ UNCHANGED <<session, journal, toks, lost>> /\ answer[p] = None
    BY <1>0, <1>2, NoAnswer DEF Spend, At, Go, Keeps, files, Quiet, relay, Waiting
  <2>2. UsingNext(p)
    BY <1>0, <2>1 DEF TokenOf, UsingNext, Newest, NewestNext, Using
  <2> QED  BY <2>1, <2>2, TokenNext DEF RenewingNext
<1>3. CASE Renew(p)
  <2>1. /\ pc[p] = "pending" /\ pc'[p] = "renewing" /\ snap'[p] = journal /\ journal # None
        /\ journal.phase \in Pending
        /\ UNCHANGED <<session, journal, toks, lost>>
    BY <1>0, <1>3 DEF Renew, At, Go, SamePending, Loadable, files, Quiet, relay
  <2>2. ASSUME NEW q \in Procs PROVE pc[q] # "renewing"
    BY <1>0, <2>1, OneFresh DEF Fresh
  <2>3. NewestNext(snap'[p].next)
    BY <1>0, <2>1, <2>2 DEF StoredInv, Newest, NewestNext
  <2>4. Blocks(journal')
    BY <2>1 DEF Blocks
  <2>5. RenewingNext(p)
    BY <1>0, <2>1, <2>3, <2>4 DEF RenewingNext
  <2> QED  BY <2>1, <2>5, TokenNext DEF UsingNext, Using
<1>4. CASE ~Permit(p) /\ ~Spend(p) /\ ~Renew(p)
  <2>1. pc'[p] \notin Using \cup {"renewing"}
    <3>1. Use(p) => pc'[p] \notin Using \cup {"renewing"}
      BY <1>0, <1>4 DEF Use, StartPass, EndPass, Unspent, Refreshed, Rejected, Reopen, Leave, Load, Go,
                        Using
    <3>2. Ends(p) \/ Dies(p) \/ Changed(p) => pc'[p] \notin Using \cup {"renewing"}
      BY <1>0 DEF Ends, Dies, Changed, Leave, Load, Go, Using
    <3>3. Reauth(p) => pc'[p] \notin Using \cup {"renewing"}
      BY <1>0 DEF Reauth, Prepare, Rejoin, Verify, Complete, Rerun, Lock, Begin, Begun, Continue,
                  Finish, Renounced, ServerCommitted, PublishSession, PublishJournal, Advance, Leave,
                  Load, Go, Using
    <3>4. Refresh(p) => pc'[p] \notin Using \cup {"renewing"}
      BY <1>0, <1>4 DEF Refresh, Rerun, Lock, Unrenewed, Renewed, RenewalRequired, Advance, Leave,
                        Load, Go, Using
    <3> QED  BY <3>1, <3>2, <3>3, <3>4
  <2> QED  BY <2>1, TokenNext DEF UsingNext, RenewingNext
<1> QED  BY <1>1, <1>2, <1>3, <1>4

LEMMA TokenStep ==
    ASSUME Inv, [Next]_vars
    PROVE  TokenInv'
<1>1. SUFFICES ASSUME NEW p \in Procs PROVE TokenOf(p)'
  BY DEF TokenInv
<1>2. CASE Apart
  BY <1>2, TokenRests DEF Apart, Rests
<1>3. ASSUME NEW r \in flying, Replies(r), ServeRefresh(r) \/ ServeBegin(r) \/ ServeFinish(r)
      PROVE  TokenOf(p)'
  <2>1. CASE p = r.from
    BY <1>3, <2>1, TokenReplied
  <2>2. CASE p # r.from
    BY <1>3, <2>2, TokenRests DEF Replies, Rests
  <2> QED  BY <2>1, <2>2
<1>4. ASSUME NEW q \in Procs, Moved(q),
             Use(q) \/ Reauth(q) \/ Refresh(q) \/ Ends(q) \/ Dies(q) \/ Changed(q)
      PROVE  TokenOf(p)'
  <2>1. CASE p = q
    BY <1>4, <2>1, TokenMoves
  <2>2. CASE p # q
    BY <1>4, <2>2, TokenRests DEF Moved, Others
  <2> QED  BY <2>1, <2>2
<1> QED  BY <1>2, <1>3, <1>4, InvParts, StepCases
-----------------------------------------------------------------------------
(* The files have the newest pairs.                                        *)

\* What a process does with a pair that the relay has replaced.
LEMMA SpendingEnds ==
    ASSUME Base, NEW q \in Procs, pc[q] = "spending", answer[q] = "yes",
           Use(q) \/ Reauth(q) \/ Refresh(q) \/ Ends(q) \/ Dies(q) \/ Changed(q)
    PROVE  Refreshed(q) \/ Dies(q)
<1>1. Use(q) => Refreshed(q)
  BY DEF Use, StartPass, EndPass, Permit, Unspent, Spend, Rejected, At, Answered
<1>2. ~Reauth(q)
  BY DEF Reauth, Prepare, Rejoin, Verify, Complete, Rerun, Lock, Begin, Begun, Continue,
         Finish, Renounced, ServerCommitted, PublishSession, PublishJournal, At
<1>3. ~Refresh(q)
  BY DEF Refresh, Rerun, Lock, Renew, Unrenewed, Renewed, RenewalRequired, At
<1>4. ~Ends(q) /\ ~Changed(q)
  BY DEF Ends, Changed, Fits, Waited, At
<1> QED  BY <1>1, <1>2, <1>3, <1>4

LEMMA RenewingEnds ==
    ASSUME Base, NEW q \in Procs, pc[q] = "renewing", answer[q] = "yes",
           Use(q) \/ Reauth(q) \/ Refresh(q) \/ Ends(q) \/ Dies(q) \/ Changed(q)
    PROVE  Renewed(q) \/ snap[q].nid \in lost'
<1>1. ~Use(q)
  BY DEF Use, StartPass, EndPass, Permit, Unspent, Spend, Refreshed, Rejected, At
<1>2. ~Reauth(q)
  BY DEF Reauth, Prepare, Rejoin, Verify, Complete, Rerun, Lock, Begin, Begun, Continue,
         Finish, Renounced, ServerCommitted, PublishSession, PublishJournal, At
<1>3. Refresh(q) => Renewed(q)
  BY DEF Refresh, Rerun, Lock, Renew, Unrenewed, RenewalRequired, At, Answered
<1>4. ~Ends(q)
  BY DEF Ends
<1>5. Dies(q) \/ Changed(q) => snap[q].nid \in lost'
  BY DEF Dies, Changed, Spent, At
<1> QED  BY <1>1, <1>2, <1>3, <1>4, <1>5

\* A process that knows a new pair still knows it, or moves.
LEMMA KnowsStays ==
    ASSUME Base, [Next]_vars, NEW q \in Procs, answer[q] = "yes"
    PROVE  \/ pc'[q] = pc[q] /\ answer'[q] = "yes" /\ pair'[q] = pair[q] /\ snap'[q] = snap[q]
           \/ Use(q) \/ Reauth(q) \/ Refresh(q) \/ Ends(q) \/ Dies(q) \/ Changed(q)
<1>1. CASE Apart
  BY <1>1 DEF Apart
<1>2. ASSUME NEW r \in flying, Replies(r)
      PROVE  pc'[q] = pc[q] /\ answer'[q] = "yes" /\ pair'[q] = pair[q] /\ snap'[q] = snap[q]
  <2>1. q # r.from
    BY <1>2, NoneIsNone DEF Replies
  <2> QED  BY <1>2, <2>1 DEF Replies
<1>3. ASSUME NEW p \in Procs, Moved(p), p # q
      PROVE  pc'[q] = pc[q] /\ answer'[q] = "yes" /\ pair'[q] = pair[q] /\ snap'[q] = snap[q]
  BY <1>3 DEF Moved, Others, Rests
<1> QED  BY <1>1, <1>2, <1>3, StepCases

SessionKnown ==
    \/ NewestNext(session')
    \/ \E q \in Procs : pc'[q] = "spending" /\ answer'[q] = "yes" /\ pair'[q] = session'

JournalKnown ==
    \/ NewestNext(journal'.next)
    \/ \E q \in Procs : pc'[q] = "renewing" /\ answer'[q] = "yes" /\ snap'[q] = journal'

LEMMA NextToken ==
    ASSUME NEW x \in Pair, x.tok < MaxToks
    PROVE  [x EXCEPT !.tok = @ + 1] # x
<1> DEFINE y == [x EXCEPT !.tok = @ + 1]
<1>1. x.tok \in Nat /\ y.tok = x.tok + 1
  BY NextPair, PairFields, Bounds
<1> HIDE DEF y
<1>2. y # x
  BY <1>1
<1> QED  BY <1>2 DEF y

LEMMA SessionTokens ==
    ASSUME Inv, [Next]_vars, UNCHANGED session, session # None, ~Blocks(journal)
    PROVE  SessionKnown
<1>0. /\ Base /\ Later /\ session \in Pair /\ session.sid \in Sids
      /\ Newest(session)
         \/ \E p \in Procs : pc[p] = "spending" /\ answer[p] = "yes" /\ pair[p] = session
  BY InvParts, LaterStep, PairFields DEF Base, Types, FileType, StoredInv
<1>1. ASSUME Newest(session), session.sid \notin lost PROVE SessionKnown
  <2>1. CASE toks'[session.sid] = toks[session.sid]
    BY <1>1, <2>1 DEF SessionKnown, Newest, NewestNext
  <2>2. CASE toks'[session.sid] # toks[session.sid]
    <3>1. PICK p \in Procs :
              /\ UNCHANGED <<session, journal, pc, snap, pair, lost>> /\ answer'[p] = "yes"
              /\ \/ pc[p] = "spending" /\ pair[p].sid = session.sid
                 \/ pc[p] = "renewing" /\ snap[p].nid = session.sid
      BY <1>0, <1>1, <2>2, Spending
    <3>2. TokenOf(p)
      BY InvParts
    <3>3. pc[p] = "spending" /\ session = pair[p]
      BY <3>1, <3>2 DEF TokenOf, Using
    <3> QED  BY <3>1, <3>3 DEF SessionKnown
  <2> QED  BY <2>1, <2>2
<1>2. ASSUME NEW q \in Procs, pc[q] = "spending", answer[q] = "yes", pair[q] = session
      PROVE  SessionKnown
  <2>1. CASE pc'[q] = pc[q] /\ answer'[q] = "yes" /\ pair'[q] = pair[q]
    BY <1>2, <2>1 DEF SessionKnown
  <2>2. ASSUME Refreshed(q) PROVE FALSE
    <3>1. session' = [session EXCEPT !.tok = @ + 1]
      BY <1>2, <2>2 DEF Refreshed, Stored
    <3>2. session.tok < MaxToks
      BY <1>0, <1>2, Remembered DEF MemoryOf
    <3> QED  BY <1>0, <3>1, <3>2, NextToken
  <2>3. ASSUME Dies(q) PROVE SessionKnown
    <3>1. session.sid \in lost'
      BY <1>2, <2>3 DEF Dies, Spent, At
    <3> QED  BY <3>1 DEF SessionKnown, NewestNext
  <2> QED  BY <1>0, <1>2, <2>1, <2>2, <2>3, KnowsStays, SpendingEnds
<1>3. session.sid \in lost => SessionKnown
  BY <1>0 DEF SessionKnown, NewestNext, Later
<1> QED  BY <1>0, <1>1, <1>2, <1>3

LEMMA JournalTokens ==
    ASSUME Inv, [Next]_vars, UNCHANGED journal, journal # None, journal.phase \in Pending
    PROVE  JournalKnown
<1>0. /\ Base /\ Later /\ journal \in Journal
      /\ journal.next \in Pair /\ journal.next.sid \in Sids /\ journal.nid = journal.next.sid
      /\ Newest(journal.next)
         \/ \E p \in Procs : pc[p] = "renewing" /\ answer[p] = "yes" /\ snap[p] = journal
  BY InvParts, LaterStep, Loaded, JournalFields, PairFields DEF Holds, StoredInv
<1> DEFINE s == journal.next.sid
<1>1. ASSUME Newest(journal.next), s \notin lost PROVE JournalKnown
  <2>1. CASE toks'[s] = toks[s]
    BY <1>1, <2>1 DEF JournalKnown, Newest, NewestNext
  <2>2. CASE toks'[s] # toks[s]
    <3>1. PICK p \in Procs :
              /\ UNCHANGED <<session, journal, pc, snap, pair, lost>> /\ answer'[p] = "yes"
              /\ \/ pc[p] = "spending" /\ pair[p].sid = s
                 \/ pc[p] = "renewing" /\ snap[p].nid = s
      BY <1>0, <1>1, <2>2, Spending
    <3>2. TokenOf(p)
      BY InvParts
    <3>3. pc[p] = "renewing" /\ journal = snap[p]
      BY <1>0, <3>1, <3>2 DEF TokenOf, Using
    <3> QED  BY <3>1, <3>3 DEF JournalKnown
  <2> QED  BY <2>1, <2>2
<1>2. ASSUME NEW q \in Procs, pc[q] = "renewing", answer[q] = "yes", snap[q] = journal
      PROVE  JournalKnown
  <2>1. CASE pc'[q] = pc[q] /\ answer'[q] = "yes" /\ snap'[q] = snap[q]
    BY <1>2, <2>1 DEF JournalKnown
  <2>2. ASSUME Renewed(q) PROVE FALSE
    <3>1. journal'.next.tok = journal.next.tok + 1
      BY <1>0, <2>2, RenewedDoes
    <3>2. journal.next.tok \in Nat
      BY <1>0, PairFields, Bounds
    <3> QED  BY <3>1, <3>2
  <2>3. ASSUME snap[q].nid \in lost' PROVE JournalKnown
    BY <1>0, <1>2, <2>3 DEF JournalKnown, NewestNext
  <2> QED  BY <1>0, <1>2, <2>1, <2>2, <2>3, KnowsStays, RenewingEnds
<1>3. s \in lost => JournalKnown
  BY <1>0 DEF JournalKnown, NewestNext, Later
<1> QED  BY <1>0, <1>1, <1>2, <1>3

LEMMA SessionKnownStep ==
    ASSUME Inv, [Next]_vars, session' # None, ~Blocks(journal')
    PROVE  SessionKnown
<1>0. Base /\ Later /\ StoredInv
  BY InvParts, LaterStep
<1>1. CASE UNCHANGED <<session, journal>>
  BY <1>1, SessionTokens DEF Blocks
<1>2. ~ClearSession /\ ~ClearJournal
  BY DEF ClearSession, ClearJournal
<1>3. CASE Relink
  <2>1. session' = [sid |-> issued + 1, tok |-> 0] /\ UNCHANGED toks /\ issued + 1 \in Sids
    BY <1>0, <1>3, Numbers, Bounds DEF Relink, Sids
  <2>2. toks[issued + 1] = 0
    BY <1>0, <2>1, Numbers DEF Base, Types, RelayType
  <2> QED  BY <2>1, <2>2 DEF SessionKnown, NewestNext
<1>4. ASSUME NEW p \in Procs, Refreshed(p) PROVE SessionKnown
  <2>1. /\ pc[p] = "spending" /\ answer[p] = "yes" /\ UNCHANGED <<journal, toks>>
    BY <1>4 DEF Refreshed, At, Answered, Quiet, relay
  <2>2. CASE session = pair[p]
    <3>1. session' = [pair[p] EXCEPT !.tok = @ + 1]
      BY <1>4, <2>2 DEF Refreshed, Stored
    <3>2. pair[p] \in Pair /\ pair[p].tok < MaxToks
      BY <1>0, <2>1, PairOf, Remembered DEF MemoryOf, Using
    <3>3. session'.sid = pair[p].sid /\ session'.tok = pair[p].tok + 1
      BY <3>1, <3>2, NextPair
    <3>4. Replaced(pair[p])
      BY <2>1, InvParts DEF TokenOf, Using
    <3> QED  BY <1>0, <2>1, <3>3, <3>4 DEF Replaced, SessionKnown, NewestNext, Later
  <2>3. CASE session # pair[p]
    <3>1. UNCHANGED session
      BY <1>4, <2>3 DEF Refreshed, Stored
    <3> QED  BY <2>1, <3>1, SessionTokens DEF Blocks
  <2> QED  BY <2>2, <2>3
<1>5. ASSUME NEW p \in Procs, PublishSession(p) PROVE FALSE
  <2>1. pc[p] = "recorded" /\ Same(p) /\ UNCHANGED journal
    BY <1>5 DEF PublishSession, At
  <2>2. journal # None /\ journal.phase = "serverCommitted"
    BY <1>0, <2>1, Remembered DEF MemoryOf, Same, Loadable
  <2> QED  BY <2>1, <2>2 DEF Blocks, Pending
<1>6. ASSUME NEW p \in Procs, JournalStep(p) PROVE SessionKnown
  <2>0. UNCHANGED <<session, toks, lost>>
    BY <1>6, JournalFrame
  <2>1. CASE Prepare(p)
    <3>1. /\ journal' # None /\ journal'.phase = "awaitingOtp" /\ Preparable
          /\ journal'.prior = (journal # None /\ journal.phase = "renewalRequired")
      BY <1>0, <2>1, PrepareDoes, NoneIsNone
    <3>2. ~Blocks(journal)
      BY <3>1 DEF Blocks, Preparable, Pending
    <3> QED  BY <2>0, <3>2, SessionTokens
  <2>2. CASE PublishJournal(p)
    <3>1. /\ pc[p] = "recorded" /\ journal # None /\ journal.phase = "serverCommitted"
          /\ session = journal.next
      BY <1>0, <2>2, PublishedDoes DEF Same, Loadable
    <3>2. Newest(session)
      <4>1. \A q \in Procs : pc[q] # "renewing"
        BY <1>0, <3>1, OneFresh DEF Fresh
      <4> QED  BY <1>0, <3>1, <4>1 DEF StoredInv, Pending
    <3> QED  BY <2>0, <3>2 DEF SessionKnown, Newest, NewestNext
  <2>3. CASE ~Prepare(p) /\ ~PublishJournal(p)
    <3>1. journal' # None /\ journal'.phase \in Pending \cup {"renewalRequired"}
      BY <1>0, <1>6, <2>3, CompleteDoes, BegunDoes, RenouncedDoes, RecordedDoes, RenewedDoes, RefusedDoes,
         NoneIsNone DEF JournalStep, Pending
    <3> QED  BY <3>1 DEF Blocks
  <2> QED  BY <2>1, <2>2, <2>3
<1> QED  BY <1>1, <1>2, <1>3, <1>4, <1>5, <1>6, Writes DEF ServeFinish, Unserved, files

LEMMA JournalKnownStep ==
    ASSUME Inv, [Next]_vars, journal' # None, journal'.phase \in Pending
    PROVE  JournalKnown
<1>0. Base /\ Later /\ StoredInv
  BY InvParts, LaterStep
<1>1. CASE UNCHANGED journal
  BY <1>1, JournalTokens
<1>2. ~ClearJournal
  BY DEF ClearJournal
<1>3. ASSUME NEW p \in Procs, JournalStep(p) PROVE JournalKnown
  <2>0. UNCHANGED <<session, toks, lost>>
    BY <1>3, JournalFrame
  <2>1. CASE Complete(p)
    <3>1. pc[p] = "verified" /\ journal'.next = pair[p] /\ NewOf(p)
      BY <1>0, <2>1, CompleteDoes, InvParts DEF NewInv
    <3> QED  BY <2>0, <3>1 DEF NewOf, JournalKnown, NewestNext
  <2>2. CASE Begun(p) \/ Renounced(p) \/ ServerCommitted(p)
    <3>1. /\ pc[p] \in Fresh \ {"renewing"} /\ journal # None /\ journal.phase \in Pending
          /\ journal'.next = journal.next
      BY <1>0, <2>2, BegunDoes, RenouncedDoes, RecordedDoes DEF Same, Loadable, Fresh, Pending
    <3>2. \A q \in Procs : pc[q] # "renewing"
      BY <1>0, <3>1, OneFresh DEF Fresh
    <3> QED  BY <1>0, <2>0, <3>1, <3>2 DEF StoredInv, JournalKnown, Newest, NewestNext
  <2>3. CASE Renewed(p)
    <3>1. /\ pc[p] = "renewing" /\ answer[p] = "yes" /\ journal = snap[p]
          /\ journal'.next.sid = journal.next.sid /\ journal'.next.tok = journal.next.tok + 1
      BY <1>0, <2>3, RenewedDoes DEF Same
    <3>2. Replaced(journal.next)
      BY <3>1, InvParts DEF TokenOf
    <3> QED  BY <2>0, <3>1, <3>2 DEF Replaced, JournalKnown, NewestNext
  <2>4. ~Prepare(p) /\ ~PublishJournal(p) /\ ~RenewalRequired(p)
    BY <1>0, PrepareDoes, PublishedDoes, RefusedDoes DEF Pending
  <2> QED  BY <1>3, <2>1, <2>2, <2>3, <2>4 DEF JournalStep
<1> QED  BY <1>1, <1>2, <1>3, JournalMoves

LEMMA StoredStep ==
    ASSUME Inv, [Next]_vars
    PROVE  StoredInv'
<1>1. session' # None /\ ~Blocks(journal') => SessionKnown
  BY SessionKnownStep
<1>2. journal' # None /\ journal'.phase \in Pending => JournalKnown
  BY JournalKnownStep
<1> QED
  BY <1>1, <1>2 DEF StoredInv, Blocks, SessionKnown, JournalKnown, Newest, NewestNext
-----------------------------------------------------------------------------
(* The pair of a code that the journal does not have yet.                  *)

\* NewOf(p) in the next state, for the sign-in s of its pair.
Unknown(p, s) ==
    /\ toks'[s] = 0
    /\ session' # None => session'.sid # s
    /\ journal' # None => journal'.nid # s
    /\ \A q \in Procs :
          /\ pc'[q] \in Using \/ (pc'[q] = "verified" /\ q # p) => pair'[q].sid # s
          /\ pc'[q] = "renewing" => snap'[q].nid # s
    /\ \A r \in flying' : r.kind = "refresh" => r.pair.sid # s

LEMMA NewNext ==
    ASSUME NEW p \in Procs, pair'[p].tok = 0, Unknown(p, pair'[p].sid)
    PROVE  NewOf(p)'
BY DEF Unknown, NewOf

\* Whoever takes up a pair takes it from a file or from the relay.
LEMMA TakesUp ==
    ASSUME Base, NEW q \in Procs, Moved(q),
           Use(q) \/ Reauth(q) \/ Refresh(q) \/ Ends(q) \/ Dies(q) \/ Changed(q)
    PROVE  /\ pc'[q] \in Using =>
                 \/ session # None /\ pair'[q] = session
                 \/ pc[q] \in Using /\ pair'[q] = pair[q]
           /\ pc'[q] = "verified" => pair'[q].sid = issued + 1 /\ pair'[q].tok = 0 /\ Verify(q)
           /\ pc'[q] = "renewing" => journal # None /\ snap'[q] = journal
<1>0. /\ pc \in [Procs -> Steps] /\ pair \in [Procs -> Pair \cup {None}]
      /\ snap \in [Procs -> Journal \cup {None}]
  BY DEF Base, Types, ProcType
<1> DEFINE Takes == pc'[q] \in Using \cup {"verified", "renewing"}
<1>1. CASE Permit(q) \/ Spend(q)
  BY <1>0, <1>1 DEF Permit, Spend, Go, Keeps, At, Using
<1>2. CASE Renew(q)
  BY <1>0, <1>2 DEF Renew, Go, SamePending, Loadable, Using
<1>3. CASE Verify(q)
  <2>1. pc'[q] = "verified" /\ pair'[q] = [sid |-> issued + 1, tok |-> 0]
    BY <1>0, <1>3 DEF Verify, Go
  <2>2. pair'[q].sid = issued + 1 /\ pair'[q].tok = 0
    BY <2>1
  <2> QED  BY <1>3, <2>1, <2>2 DEF Using
<1>4. CASE ~Permit(q) /\ ~Spend(q) /\ ~Renew(q) /\ ~Verify(q)
  <2>1. Use(q) => ~Takes
    BY <1>0, <1>4 DEF Use, StartPass, EndPass, Unspent, Refreshed, Rejected, Reopen, Leave, Load, Go,
                      Using
  <2>2. Ends(q) \/ Dies(q) \/ Changed(q) => ~Takes
    BY <1>0 DEF Ends, Dies, Changed, Leave, Load, Go, Using
  <2>3. Reauth(q) => ~Takes
    BY <1>0, <1>4 DEF Reauth, Prepare, Rejoin, Complete, Rerun, Lock, Begin, Begun, Continue,
                Finish, Renounced, ServerCommitted, PublishSession, PublishJournal, Advance, Leave,
                Load, Go, Using
  <2>4. Refresh(q) => ~Takes
    BY <1>0, <1>4 DEF Refresh, Rerun, Lock, Unrenewed, Renewed, RenewalRequired, Advance, Leave,
                      Load, Go, Using
  <2> QED  BY <2>1, <2>2, <2>3, <2>4
<1> QED  BY <1>1, <1>2, <1>3, <1>4

\* The stored sign-in changes to one that was known, or to a new one.
LEMMA SessionFrom ==
    ASSUME Base, [Next]_vars, session' # None
    PROVE  \/ session # None /\ session'.sid = session.sid
           \/ session'.sid = issued + 1
           \/ journal # None /\ session'.sid = journal.nid
<1>1. ASSUME NEW q \in Procs, Refreshed(q)
      PROVE  session # None /\ session'.sid = session.sid
  <2>1. pc[q] = "spending" /\ answer[q] = "yes"
    BY <1>1 DEF Refreshed, At, Answered
  <2>2. pair[q] \in Pair /\ pair[q].tok < MaxToks
    BY <2>1, PairOf, Remembered DEF MemoryOf, Using
  <2>3. CASE session = pair[q]
    <3>1. session' = [pair[q] EXCEPT !.tok = @ + 1]
      BY <1>1, <2>3 DEF Refreshed, Stored
    <3> QED  BY <2>2, <2>3, <3>1, NextPair, NoneIsNone
  <2>4. CASE session # pair[q]
    BY <1>1, <2>4 DEF Refreshed, Stored
  <2> QED  BY <2>3, <2>4
<1>2. ASSUME NEW q \in Procs, PublishSession(q) PROVE journal # None /\ session'.sid = journal.nid
  <2>1. pc[q] = "recorded" /\ Same(q) /\ session' = journal.next
    BY <1>2 DEF PublishSession, At
  <2>2. journal # None /\ journal.phase = "serverCommitted" /\ Holds(journal)
    BY <2>1, Remembered, Loaded DEF MemoryOf, Same, Loadable
  <2> QED  BY <2>1, <2>2 DEF Holds, Pending
<1>3. Relink => session'.sid = issued + 1
  BY DEF Relink
<1> QED  BY <1>1, <1>2, <1>3, SessionMoves DEF ClearSession

LEMMA JournalFrom ==
    ASSUME Base, [Next]_vars, journal' # None
    PROVE  \/ journal # None /\ journal'.nid = journal.nid
           \/ journal'.nid = None
           \/ \E q \in Procs : pc[q] = "verified" /\ pc'[q] = "gate" /\ journal'.nid = pair[q].sid
<1>1. ASSUME NEW q \in Procs, JournalStep(q)
      PROVE  \/ journal # None /\ journal'.nid = journal.nid
             \/ journal'.nid = None
             \/ \E x \in Procs : pc[x] = "verified" /\ pc'[x] = "gate" /\ journal'.nid = pair[x].sid
  <2>1. Prepare(q) => journal'.nid = None
    BY PrepareDoes
  <2>2. Complete(q) => pc[q] = "verified" /\ pc'[q] = "gate" /\ journal'.nid = pair[q].sid
    BY CompleteDoes DEF Load, Go, Base, Types, ProcType
  <2> QED
    BY <1>1, <2>1, <2>2, BegunDoes, RenouncedDoes, RecordedDoes, PublishedDoes, RenewedDoes, RefusedDoes
       DEF JournalStep, Same, Loadable
<1> QED  BY <1>1, JournalMoves DEF ClearJournal

\* What nobody knows of a sign-in of which no one has a pair but p.
LEMMA UnknownStays ==
    ASSUME Inv, [Next]_vars, NEW p \in Procs, NewOf(p), pc[p] = "verified", pc'[p] = "verified",
           pair'[p] = pair[p]
    PROVE  Unknown(p, pair[p].sid)
<1> DEFINE s == pair[p].sid
<1>0. /\ Base /\ s \in Sids /\ s <= issued /\ s # issued + 1 /\ s # None
      /\ toks[s] = 0
      /\ session # None => session.sid # s
      /\ journal # None => journal.nid # s
      /\ \A q \in Procs :
            /\ pc[q] \in Using \/ (pc[q] = "verified" /\ q # p) => pair[q].sid # s
            /\ pc[q] = "renewing" => snap[q].nid # s
      /\ \A r \in flying : r.kind = "refresh" => r.pair.sid # s
  BY InvParts, PairOf, Numbers, NoneIsNone DEF NewOf
<1> HIDE DEF s
<1>1. session' # None => session'.sid # s
  BY <1>0, SessionFrom
<1>2. journal' # None => journal'.nid # s
  <2>1. ASSUME NEW q \in Procs, pc[q] = "verified", pc'[q] = "gate" PROVE pair[q].sid # s
    BY <1>0, <2>1
  <2> QED  BY <1>0, <2>1, JournalFrom
<1>3. ASSUME NEW q \in Procs
      PROVE  /\ pc'[q] \in Using \/ (pc'[q] = "verified" /\ q # p) => pair'[q].sid # s
             /\ pc'[q] = "renewing" => snap'[q].nid # s
  <2>1. ASSUME pc'[q] = pc[q], pair'[q] = pair[q], snap'[q] = snap[q]
        PROVE  /\ pc'[q] \in Using \/ (pc'[q] = "verified" /\ q # p) => pair'[q].sid # s
               /\ pc'[q] = "renewing" => snap'[q].nid # s
    BY <1>0, <2>1
  <2>2. ASSUME Moved(q), Use(q) \/ Reauth(q) \/ Refresh(q) \/ Ends(q) \/ Dies(q) \/ Changed(q)
        PROVE  /\ pc'[q] \in Using \/ (pc'[q] = "verified" /\ q # p) => pair'[q].sid # s
               /\ pc'[q] = "renewing" => snap'[q].nid # s
    <3>1. pc'[q] \in Using => pair'[q].sid # s
      BY <1>0, <2>2, TakesUp
    <3>2. pc'[q] = "verified" => pair'[q].sid # s
      BY <1>0, <2>2, TakesUp
    <3>3. pc'[q] = "renewing" => snap'[q].nid # s
      BY <1>0, <2>2, TakesUp
    <3> QED  BY <3>1, <3>2, <3>3
  <2>3. CASE Apart
    BY <2>1, <2>3 DEF Apart
  <2>4. ASSUME NEW r \in flying, Replies(r)
        PROVE  pc'[q] = pc[q] /\ pair'[q] = pair[q] /\ snap'[q] = snap[q]
    BY <2>4 DEF Replies
  <2>5. ASSUME NEW x \in Procs, Moved(x), x # q
        PROVE  pc'[q] = pc[q] /\ pair'[q] = pair[q] /\ snap'[q] = snap[q]
    BY <2>5 DEF Moved, Others, Rests
  <2> QED  BY <1>0, <2>1, <2>2, <2>3, <2>4, <2>5, StepCases
<1>4. ASSUME NEW x \in flying', x.kind = "refresh" PROVE x.pair.sid # s
  <2>1. ASSUME NEW q \in Procs, Spend(q), x.pair = pair[q] PROVE x.pair.sid # s
    BY <1>0, <2>1 DEF Spend, At, Using
  <2>2. ASSUME NEW q \in Procs, Renew(q), x.pair = journal.next PROVE x.pair.sid # s
    <3>1. journal # None /\ journal.phase \in Pending
      BY <2>2 DEF Renew, SamePending, Loadable
    <3>2. journal.next.sid = journal.nid
      BY <1>0, <3>1, Loaded DEF Holds
    <3> QED  BY <1>0, <2>2, <3>1, <3>2
  <2>3. ASSUME NEW q \in Procs, Begin(q) \/ Finish(q), Sent(q, x) PROVE FALSE
    BY <1>4, <2>3 DEF Sent
  <2>4. ASSUME NEW q \in Procs, Spend(q) \/ Begin(q) \/ Finish(q) \/ Renew(q), Sent(q, x)
        PROVE  x.pair.sid # s
    BY <2>1, <2>2, <2>3, <2>4 DEF Sent
  <2> QED  BY <1>0, <1>4, <2>4, WasFlying
<1>5. toks'[s] = 0
  <2>1. ASSUME NEW r \in flying, ServeRefresh(r) PROVE toks'[s] = toks[s]
    <3>1. r.pair.sid # s
      BY <1>0, <2>1 DEF ServeRefresh
    <3> QED  BY <1>0, <2>1, <3>1 DEF ServeRefresh, Base, Types, RelayType
  <2>2. \A r \in flying : ServeBegin(r) \/ ServeFinish(r) => UNCHANGED toks
    BY DEF ServeBegin, ServeFinish
  <2>3. (\E c \in DOMAIN chals : ChallengeExpires(c)) \/ (\E x \in Sids : SignInEnds(x)) \/ Relink
        \/ (\E q \in Procs : Verify(q)) => UNCHANGED toks
    BY DEF ChallengeExpires, SignInEnds, Relink, Verify
  <2> QED  BY <1>0, <2>1, <2>2, <2>3, RelayMoves DEF relay, RelayStep
<1> QED  BY <1>1, <1>2, <1>3, <1>4, <1>5 DEF Unknown, s

LEMMA UnknownNew ==
    ASSUME Inv, NEW p \in Procs, Verify(p), Moved(p)
    PROVE  Unknown(p, issued + 1)
<1>0. /\ Base /\ issued \in Nat /\ issued + 1 \in Sids /\ None \notin Nat
      /\ UNCHANGED <<session, journal, flying, toks>> /\ pc'[p] = "verified"
  BY InvParts, Numbers, Bounds, NoneIsNone DEF Verify, files, net, Sids, Go, Base, Types, ProcType
<1>1. toks'[issued + 1] = 0
  BY <1>0 DEF Base, Types, RelayType
<1>2. session' # None => session'.sid # issued + 1
  BY <1>0, Numbers, PairFields DEF Base, Types, FileType
<1>3. journal' # None => journal'.nid # issued + 1
  BY <1>0, Numbers, Loaded, JournalFields DEF Holds
<1>4. ASSUME NEW q \in Procs
      PROVE  /\ pc'[q] \in Using \/ (pc'[q] = "verified" /\ q # p) => pair'[q].sid # issued + 1
             /\ pc'[q] = "renewing" => snap'[q].nid # issued + 1
  <2>1. CASE q = p
    BY <1>0, <2>1 DEF Using
  <2>2. CASE q # p
    <3>1. pc'[q] = pc[q] /\ pair'[q] = pair[q] /\ snap'[q] = snap[q]
      BY <2>2 DEF Moved, Others, Rests
    <3>2. pc[q] \in Using \cup {"verified"} => pair[q].sid \in Nat /\ pair[q].sid <= issued
      BY <1>0, PairOf, Numbers
    <3>3. pc[q] = "renewing" => snap[q].nid \in Nat /\ snap[q].nid <= issued
      <4>1. SUFFICES ASSUME pc[q] = "renewing" PROVE snap[q].nid \in Nat /\ snap[q].nid <= issued
        OBVIOUS
      <4>2. Holds(snap[q]) /\ snap[q].nid \in Sids
        BY <1>0, <4>1, RenewingPair
      <4> QED  BY <1>0, <4>2, Numbers, NoneIsNone DEF Holds
    <3> QED  BY <1>0, <3>1, <3>2, <3>3
  <2> QED  BY <2>1, <2>2
<1>5. ASSUME NEW r \in flying' PROVE r.pair.sid # issued + 1
  BY <1>0, RequestNamed, Numbers DEF Named
<1> QED  BY <1>1, <1>2, <1>3, <1>4, <1>5 DEF Unknown

LEMMA NewStep ==
    ASSUME Inv, [Next]_vars
    PROVE  NewInv'
<1>0. Base
  BY InvParts
<1>1. SUFFICES ASSUME NEW p \in Procs, pc'[p] = "verified" PROVE NewOf(p)'
  BY DEF NewInv, NewOf
<1>2. ASSUME pc'[p] = pc[p], pair'[p] = pair[p] PROVE NewOf(p)'
  <2>1. NewOf(p) /\ pc[p] = "verified"
    BY <1>1, <1>2, InvParts DEF NewInv
  <2>2. Unknown(p, pair[p].sid)
    BY <1>1, <1>2, <2>1, UnknownStays
  <2>3. pair'[p].tok = 0
    BY <1>2, <2>1 DEF NewOf
  <2> QED  BY <1>2, <2>2, <2>3, NewNext
<1>3. CASE Apart
  BY <1>2, <1>3 DEF Apart
<1>4. ASSUME NEW r \in flying, Replies(r) PROVE pc'[p] = pc[p] /\ pair'[p] = pair[p]
  BY <1>4 DEF Replies
<1>5. ASSUME NEW q \in Procs, Moved(q), q # p PROVE pc'[p] = pc[p] /\ pair'[p] = pair[p]
  BY <1>5 DEF Moved, Others, Rests
<1>6. ASSUME Moved(p), Use(p) \/ Reauth(p) \/ Refresh(p) \/ Ends(p) \/ Dies(p) \/ Changed(p)
      PROVE  NewOf(p)'
  <2>1. pair'[p].sid = issued + 1 /\ pair'[p].tok = 0 /\ Verify(p)
    BY <1>0, <1>1, <1>6, TakesUp
  <2>2. Unknown(p, issued + 1)
    BY <1>6, <2>1, UnknownNew
  <2> QED  BY <2>1, <2>2, NewNext
<1> QED  BY <1>0, <1>2, <1>3, <1>4, <1>5, <1>6, StepCases
-----------------------------------------------------------------------------
(* All parts together are inductive.                                       *)

LEMMA InvInit == Init => Inv
<1> SUFFICES ASSUME Init PROVE Inv
  OBVIOUS
<1> USE DEF Init
<1>0. /\ MaxSids \in Nat /\ 1 \in Sids /\ 0 \in 0 .. MaxToks /\ None # "yes" /\ None # "no"
      /\ None \notin Procs
  BY Bounds, NoneIsNone DEF Sids
<1>1. session \in Pair /\ session.sid = 1 /\ session.tok = 0
  BY <1>0, PairFields
<1>2. session # None
  BY <1>1, NoneIsNone
<1>3. chals \in Chals /\ Len(chals) = 0
  BY EmptySeq DEF Chals
<1>4. Types
  BY <1>0, <1>1, <1>3 DEF Types, FileType, LockType, ProcType, NetType, RelayType, HistType, CountType,
                          Steps
<1>5. JournalInv
  BY DEF JournalInv
<1>6. LockInv
  BY <1>0 DEF LockInv, LockOf, Fresh, Gated, Using
<1>7. MemoryInv
  BY DEF MemoryInv, MemoryOf, Using
<1>8. RequestInv /\ FinishInv
  BY DEF RequestInv, FinishInv
<1>9. ChallengeInv
  BY <1>3 DEF ChallengeInv
<1>10. BoundInv
  BY <1>1 DEF BoundInv, BoundPairKept, Accepted
<1>11. TokenInv
  BY DEF TokenInv, TokenOf, Using
<1>12. StoredInv
  BY <1>0, <1>1 DEF StoredInv, Newest
<1>13. NewInv
  BY DEF NewInv, NewOf
<1> QED
  BY <1>4, <1>5, <1>6, <1>7, <1>8, <1>9, <1>10, <1>11, <1>12, <1>13 DEF Inv, BaseInv

LEMMA TypesStep ==
    ASSUME Base, [Next]_vars
    PROVE  Types'
BY FileTypeStep, LockStep, RequestStep, LaterStep DEF Types, NetType

LEMMA InvStep == Inv /\ [Next]_vars => Inv'
<1> SUFFICES ASSUME Inv, [Next]_vars PROVE Inv'
  OBVIOUS
<1>1. Base
  BY InvParts
<1>2. BaseInv'
  BY <1>1, JournalInvStep, LockStep, MemoryStep, RequestStep DEF BaseInv
<1> QED
  BY <1>1, <1>2, TypesStep, ChallengeStep, FinishStep, BoundStep, TokenStep, StoredStep, NewStep DEF Inv

LEMMA Inductive == Spec => []Inv
BY InvInit, InvStep, PTL DEF Spec

\* The files, the locks and the requests are what the code takes them for:
\* the journal has what its phase needs, the refresh lock is held by exactly
\* the processes in its critical steps, a request has a sender that waits.
THEOREM TypeCorrect == Spec => []TypeOK
<1>1. Inv => TypeOK
  <2> SUFFICES ASSUME Inv PROVE TypeOK
    OBVIOUS
  <2>0. Base /\ chals \in Chals
    BY InvParts DEF Base, Types, RelayType
  <2>1. session \in Pair \cup {None} /\ \A p \in Procs : pc[p] \in Steps
    BY <2>0 DEF Base, Types, FileType, ProcType
  <2>2. ASSUME journal # None
        PROVE  /\ journal.phase \in Phases /\ journal.orig \in Sids /\ journal.op \in 1 .. ops
               /\ journal.phase \in Pending => journal.next \in Pair /\ journal.nid = journal.next.sid
               /\ journal.phase \in {"committing", "serverCommitted"} =>
                     journal.pub \in Pair /\ journal.chal \in DOMAIN chals
    <3>1. journal \in Journal /\ Holds(journal)
      BY <2>0, <2>2, Loaded
    <3> QED  BY <2>0, <3>1, JournalFields, ChalType DEF Holds
  <2>3. \A p \in Procs : fresh = p <=> pc[p] \in Fresh
    BY <2>0, Remembered DEF LockOf
  <2>4. ASSUME NEW r \in flying, r.from # None PROVE Waiting(r.from) /\ answer[r.from] = None
    BY <2>0, <2>4, RequestNamed DEF RequestOf, Waiting, Named, Req
  <2> QED  BY <2>1, <2>2, <2>3, <2>4 DEF TypeOK, Fresh
<1> QED  BY Inductive, <1>1, PTL

\* The sign-in that the relay's device is bound to is not forgotten while it
\* can be renewed: what the relay has accepted is the pair that is published
\* (commit_with), and a new intent replaces only what is beyond renewal
\* (prepare).
THEOREM PairIsKept == Spec => []BoundPairKept
<1>1. Inv => BoundPairKept
  BY DEF Inv, BoundInv
<1> QED  BY Inductive, <1>1, PTL

-----------------------------------------------------------------------------
(* A refresh token is sent once.                                           *)

LEMMA RequestSame ==
    ASSUME NEW x \in Req, NEW y \in Req, x.from = y.from, x.kind = y.kind, x.pair = y.pair, x.chal = y.chal
    PROVE  x = y
BY DEF Req

\* The pair x of the holder p of the refresh lock has not been sent before.
LEMMA SentOnce ==
    ASSUME Inv, NEW p \in Procs, pc[p] \in Fresh \ {"spending", "renewing"}, NEW x \in Pair, Newest(x),
           x.sid \notin lost
    PROVE  /\ x.tok = toks[x.sid]
           /\ ~ \E q \in flying : q.kind = "refresh" /\ q.pair = x
<1>0. Base
  BY InvParts
<1>1. ASSUME NEW q \in flying, q.kind = "refresh", q.pair = x PROVE FALSE
  <2>1. q.from # None
    BY <1>0, <1>1, RequestNamed DEF RequestOf
  <2>2. q.from \in Procs /\ pc[q.from] \in {"spending", "renewing"}
    BY <1>0, <1>1, <2>1, WaitsFor
  <2> QED  BY <1>0, <2>2, OneFresh DEF Fresh
<1> QED  BY <1>1 DEF Newest

\* A refresh token is sent once, and while the relay accepts it, by whichever
\* copy a process comes to it (refresh_custody, refresh_pending): both send
\* under the refresh lock a pair that is then the newest of its sign-in.
THEOREM TokensSpentOnce == Spec => TokenSpentOnce
<1>1. ASSUME Inv, [Next]_vars, NEW r \in flying' \ flying, r.kind = "refresh", r.from # None,
             r.pair.sid \notin lost
      PROVE  /\ r.pair.tok = toks[r.pair.sid]
             /\ ~ \E q \in flying : q.kind = "refresh" /\ q.pair = r.pair
  <2>0. /\ Base /\ StoredInv /\ r \in Req /\ flying \subseteq Req
        /\ None # "yes" /\ r.pair \in Pair
    <3>1. Base /\ StoredInv
      BY <1>1, InvParts
    <3>2. NetType /\ NetType'
      BY <1>1, <3>1, RequestStep DEF Base, Types
    <3> QED  BY <3>1, <3>2, NoneIsNone DEF NetType, Req
  <2>1. ASSUME NEW q \in flying, r.kind = q.kind, r.pair = q.pair, r.chal = q.chal,
               r.from \in {q.from, None}
        PROVE  FALSE
    BY <1>1, <2>0, <2>1, RequestSame
  <2>2. ASSUME NEW p \in Procs, Spend(p), Sent(p, r)
        PROVE  /\ r.pair.tok = toks[r.pair.sid]
               /\ ~ \E q \in flying : q.kind = "refresh" /\ q.pair = r.pair
    <3>1. pc[p] = "permitted" /\ r.pair = pair[p]
      BY <2>2 DEF Spend, At, Sent
    <3>2. answer[p] = None /\ TokenOf(p)
      BY <1>1, <2>0, <3>1, NoAnswer, InvParts DEF Waiting
    <3>3. Newest(r.pair)
      BY <2>0, <3>1, <3>2 DEF TokenOf, Using
    <3> QED  BY <1>1, <2>0, <3>1, <3>3, SentOnce DEF Fresh
  <2>3. ASSUME NEW p \in Procs, Renew(p), Sent(p, r)
        PROVE  /\ r.pair.tok = toks[r.pair.sid]
               /\ ~ \E q \in flying : q.kind = "refresh" /\ q.pair = r.pair
    <3>1. pc[p] = "pending" /\ r.pair = journal.next /\ journal # None /\ journal.phase \in Pending
      BY <2>3 DEF Renew, At, Sent, SamePending, Loadable
    <3>2. \A q \in Procs : pc[q] # "renewing"
      BY <2>0, <3>1, OneFresh DEF Fresh
    <3>3. Newest(r.pair)
      BY <2>0, <3>1, <3>2 DEF StoredInv
    <3> QED  BY <1>1, <2>0, <3>1, <3>3, SentOnce DEF Fresh
  <2>4. ASSUME NEW p \in Procs, Begin(p) \/ Finish(p), Sent(p, r) PROVE FALSE
    BY <1>1, <2>4 DEF Sent
  <2> QED  BY <1>1, <2>0, <2>1, <2>2, <2>3, <2>4, WasFlying
<1>2. Inv /\ [Next]_vars =>
        [\A r \in flying' \ flying : r.kind = "refresh" /\ r.from # None /\ r.pair.sid \notin lost =>
            /\ r.pair.tok = toks[r.pair.sid]
            /\ ~ \E q \in flying : q.kind = "refresh" /\ q.pair = r.pair]_vars
  BY <1>1
<1> QED  BY Inductive, <1>2, PTL DEF Spec, TokenSpentOnce
-----------------------------------------------------------------------------
(* The renewal as a handover.                                              *)

\* The sign-in the machine has stored.
Cur == IF session = None THEN None ELSE session.sid

\* Who works, by the place alone: an open pass holds the gate.
Works == {q \in Procs : pc[q] \in Using \cup {"open"}}

LEMMA BusyIs ==
    ASSUME Base, Base'
    PROVE  Busy = Works /\ Busy' = Works' /\ pc \in [Procs -> Steps]
<1>1. Busy = Works
  BY DEF Base, BaseInv, LockInv, LockOf, Gated, Using, Busy, Works
<1>2. Busy' = Works'
  BY DEF Base, BaseInv, LockInv, LockOf, Gated, Using, Busy, Works
<1> QED  BY <1>1, <1>2 DEF Base, Types, ProcType

\* Who starts to work is let in.
LEMMA WorkMoves ==
    ASSUME Base, Base', NEW p \in Procs, Moved(p),
           Use(p) \/ Reauth(p) \/ Refresh(p) \/ Ends(p) \/ Dies(p) \/ Changed(p)
    PROVE  \/ Busy' = Busy \/ Busy' = Busy \ {p}
           \/ Busy' = Busy \cup {p} /\ session # None /\ ~Blocks(journal)
<1>0. Busy = Works /\ Busy' = Works' /\ pc \in [Procs -> Steps]
  BY BusyIs
<1>1. \A q \in Procs : q # p => pc'[q] = pc[q]
  BY DEF Moved, Others, Rests
<1>2. CASE StartPass(p) \/ Permit(p)
  <2>1. session # None /\ ~Blocks(journal)
    BY <1>2 DEF StartPass, Permit, Ready, Blocks
  <2>2. pc'[p] \in Using \cup {"open"}
    BY <1>0, <1>2 DEF StartPass, Permit, Go, Using
  <2> QED  BY <1>0, <1>1, <2>1, <2>2 DEF Works
<1>3. CASE ~StartPass(p) /\ ~Permit(p)
  <2>1. Use(p) => pc[p] \in Using \cup {"open"}
    BY <1>3 DEF Use, EndPass, Unspent, Spend, Refreshed, Rejected, At, Using
  <2>2. Ends(p) \/ Dies(p) \/ Changed(p) => pc'[p] = "off"
    BY <1>0 DEF Ends, Dies, Changed, Leave, Load, Go
  <2>3. Reauth(p) => pc'[p] \notin Using \cup {"open"}
    BY <1>0 DEF Reauth, Prepare, Rejoin, Verify, Complete, Rerun, Lock, Begin, Begun, Continue,
                Finish, Renounced, ServerCommitted, PublishSession, PublishJournal, Advance, Leave,
                Load, Go, Using
  <2>4. Refresh(p) => pc'[p] \notin Using \cup {"open"}
    BY <1>0 DEF Refresh, Rerun, Lock, Renew, Unrenewed, Renewed, RenewalRequired, Advance, Leave,
                Load, Go, Using
  <2>5. pc[p] \in Using \cup {"open"} \/ pc'[p] \notin Using \cup {"open"}
    BY <2>1, <2>2, <2>3, <2>4 DEF Using
  <2> QED  BY <1>0, <1>1, <2>5 DEF Works
<1> QED  BY <1>2, <1>3

\* A step that leaves the files and the device alone enters, leaves or works on.
LEMMA WorkStep ==
    ASSUME Base, Base', [Next]_vars, UNCHANGED <<session, journal, bound>>
    PROVE  [Change!Next]_<<Cur, bound, Blocks(journal), Busy>>
<1>0. Cur' = Cur /\ Blocks(journal)' = Blocks(journal)
  BY DEF Cur, Blocks
<1>1. ASSUME UNCHANGED pc PROVE Busy' = Busy
  <2>1. Busy = Works /\ Busy' = Works'
    BY BusyIs
  <2> QED  BY <1>1, <2>1 DEF Works
<1>2. Apart \/ (\E r \in flying : Replies(r)) => UNCHANGED pc
  BY DEF Apart, Replies
<1>3. ASSUME NEW p \in Procs, Moved(p),
             Use(p) \/ Reauth(p) \/ Refresh(p) \/ Ends(p) \/ Dies(p) \/ Changed(p)
      PROVE  \/ Busy' = Busy
             \/ Change!Leave(p) \/ Change!Enter(p)
  <2>1. Busy' = Busy \ {p} => Change!Leave(p)
    BY <1>0 DEF Change!Leave, Cur
  <2>2. ASSUME Busy' = Busy \cup {p}, session # None, ~Blocks(journal)
        PROVE  Change!Enter(p)
    <3>1. Cur # None
      BY <2>2, PairFields, Numbers DEF Cur, Base, Types, FileType
    <3> QED  BY <1>0, <2>2, <3>1 DEF Change!Enter, Cur
  <2> QED  BY <1>3, <2>1, <2>2, WorkMoves
<1> QED  BY <1>0, <1>1, <1>2, <1>3, StepCases DEF Change!Next

\* A finish that moves the device.
LEMMA MoveStep ==
    ASSUME Base', Inv, NEW r \in flying, ServeFinish(r), Moves(r), bound' = chals[r.chal].sid
    PROVE  Change!Switch
<1>0. /\ Base /\ FinishOf(r) /\ UNCHANGED <<session, journal, pc>>
      /\ r.chal \in 1 .. Len(chals) /\ chals[r.chal].sid = r.pair.sid /\ r.pair.sid \in Sids
  BY InvParts, RequestNamed DEF FinishInv, ServeFinish, Moves, Named, Unserved, files, procVars
<1>1. Busy = Works /\ Busy' = Works'
  BY <1>0, BusyIs
<1>2. Busy = {} /\ Busy' = Busy
  BY <1>0, <1>1 DEF FinishOf, Works
<1>3. Cur = None \/ Blocks(journal)
  BY <1>0 DEF FinishOf, Cur
<1> QED  BY <1>0, <1>2, <1>3 DEF Change!Switch, Cur, Blocks

\* A change of the journal pauses the machine, leaves it as it is, or lets it
\* go on with what the relay has accepted.
LEMMA JournalHandover ==
    ASSUME Inv, Base', NEW p \in Procs, JournalStep(p)
    PROVE  /\ UNCHANGED <<session, bound>> /\ Busy' = Busy
           /\ \/ Blocks(journal)' = Blocks(journal)
              \/ Blocks(journal)' = TRUE
              \/ Cur = bound
<1>0. /\ Base /\ UNCHANGED <<session, bound>> /\ Moved(p)
      /\ Reauth(p) \/ Refresh(p)
  <2>1. Reauth(p) \/ Refresh(p)
    BY DEF JournalStep, Reauth, Refresh
  <2> QED  BY <2>1, InvParts, JournalFrame, ProcessMoves
<1>1. Busy' = Busy
  <2>1. pc[p] \notin Using \cup {"open"} /\ pc'[p] \notin Using \cup {"open"}
    <3>1. pc \in [Procs -> Steps]
      BY <1>0 DEF Base, Types, ProcType
    <3> QED
      BY <3>1 DEF JournalStep, Prepare, Complete, Begun, Renounced, ServerCommitted, PublishJournal,
                  Renewed, RenewalRequired, Advance, Leave, Load, Go, At, Using
  <2>2. \A q \in Procs : q # p => pc'[q] = pc[q]
    BY <1>0 DEF Moved, Others, Rests
  <2> QED  BY <1>0, <2>1, <2>2, BusyIs DEF Works
<1>2. CASE Prepare(p)
  <2>1. /\ journal' # None /\ journal'.phase = "awaitingOtp" /\ Preparable
        /\ journal'.prior = (journal # None /\ journal.phase = "renewalRequired")
    BY <1>0, <1>2, PrepareDoes, NoneIsNone
  <2> QED  BY <1>0, <1>1, <2>1 DEF Preparable, Blocks, Pending
<1>3. CASE Complete(p) \/ Begun(p) \/ Renounced(p) \/ ServerCommitted(p) \/ RenewalRequired(p)
  <2>1. journal' # None /\ journal'.phase \in Pending \cup {"renewalRequired"}
    BY <1>0, <1>3, CompleteDoes, BegunDoes, RenouncedDoes, RecordedDoes, RefusedDoes, NoneIsNone
    DEF Pending
  <2> QED  BY <1>0, <1>1, <2>1 DEF Blocks
<1>4. CASE Renewed(p)
  <2>1. journal' # None /\ journal'.phase \in Pending
    BY <1>0, <1>4, RenewedDoes, NoneIsNone
  <2> QED  BY <1>0, <1>1, <2>1 DEF Blocks
<1>5. CASE PublishJournal(p)
  <2>1. Same(p) /\ pc[p] = "recorded" /\ journal.phase = "serverCommitted" /\ session = journal.next
    BY <1>0, <1>5, PublishedDoes
  <2>2. journal # None /\ session # None /\ Holds(journal)
    BY <1>0, <2>1, Loaded DEF Same, Loadable, Sound
  <2>3. Accepted /\ session.sid = journal.nid
    BY <2>1, <2>2 DEF Accepted, Same, Loadable, Holds, Pending
  <2> QED  BY <1>0, <1>1, <2>2, <2>3, AcceptedIs DEF Cur
<1> QED  BY <1>2, <1>3, <1>4, <1>5 DEF JournalStep

LEMMA HandoverStep ==
    ASSUME Inv, Inv', [Next]_vars
    PROVE  [Change!Next]_<<Cur, bound, Blocks(journal), Busy>>
<1>0. Base /\ Base'
  BY DEF Inv, Base
<1>1. ASSUME UNCHANGED pc PROVE Busy' = Busy
  BY <1>0, <1>1, BusyIs DEF Works
<1>2. ASSUME NEW r \in flying, ServeFinish(r)
      PROVE  [Change!Next]_<<Cur, bound, Blocks(journal), Busy>>
  <2>1. CASE UNCHANGED bound
    BY <1>0, <1>2, <2>1, WorkStep DEF ServeFinish, Unserved, files
  <2>2. CASE Moves(r) /\ bound' = chals[r.chal].sid
    BY <1>0, <1>2, <2>2, MoveStep DEF Change!Next
  <2> QED  BY <1>2, <2>1, <2>2 DEF ServeFinish, Moves, StatusOf
<1>3. CASE Relink
  <2>1. /\ Cur = None /\ session' = [sid |-> issued + 1, tok |-> 0] /\ bound' = issued + 1
        /\ issued + 1 \in Sids /\ UNCHANGED <<journal, pc>>
    BY <1>0, <1>3, Bounds, Numbers DEF Relink, Cur, procVars, Sids
  <2>2. session' # None /\ session'.sid = issued + 1
    <3>1. session' \in Pair
      BY <2>1, Bounds, PairFields
    <3> QED  BY <2>1, <3>1, NoneIsNone
  <2>3. Change!Link
    BY <1>1, <2>1, <2>2 DEF Change!Link, Cur, Blocks
  <2> QED  BY <2>3 DEF Change!Next
<1>4. CASE ClearSession
  <2>1. Change!Remove
    BY <1>1, <1>4 DEF ClearSession, Change!Remove, Blocks, procVars, relay
  <2> QED  BY <2>1 DEF Change!Next
<1>5. CASE ClearJournal
  <2>1. Change!Resume
    BY <1>1, <1>5 DEF ClearJournal, Change!Resume, Blocks, procVars, Alone, Quiet, relay
  <2> QED  BY <2>1 DEF Change!Next
<1>6. ASSUME NEW p \in Procs, Refreshed(p)
      PROVE  [Change!Next]_<<Cur, bound, Blocks(journal), Busy>>
  <2>1. pc[p] = "spending" /\ answer[p] = "yes" /\ UNCHANGED <<journal, bound>>
    BY <1>6 DEF Refreshed, At, Answered, Quiet, relay
  <2>2. pair[p] \in Pair /\ pair[p].tok < MaxToks
    BY <1>0, <2>1, PairOf, Remembered DEF MemoryOf, Using
  <2>3. IF session = pair[p] THEN session' = [pair[p] EXCEPT !.tok = @ + 1] ELSE UNCHANGED session
    BY <1>6 DEF Refreshed, Stored
  <2>4. session = pair[p] => session # None /\ session' \in Pair /\ session'.sid = session.sid
    BY <2>2, <2>3, NextPair, NoneIsNone
  <2>5. Cur' = Cur /\ Blocks(journal)' = Blocks(journal)
    BY <2>1, <2>3, <2>4, NoneIsNone DEF Cur, Blocks
  <2>6. \A q \in Procs : q # p => pc'[q] = pc[q]
    BY <1>0, <1>6, UseMoves DEF Use, Moved, Others, Rests
  <2>7. Busy' = Busy \/ Busy' = Busy \ {p}
    BY <1>0, <2>1, <2>6, BusyIs DEF Works, Using
  <2>8. Busy' = Busy \ {p} => Change!Leave(p)
    BY <2>1, <2>5 DEF Change!Leave, Cur
  <2> QED  BY <2>1, <2>5, <2>7, <2>8 DEF Change!Next
<1>7. ASSUME NEW p \in Procs, PublishSession(p)
      PROVE  [Change!Next]_<<Cur, bound, Blocks(journal), Busy>>
  <2>1. pc[p] = "recorded" /\ Same(p) /\ session' = journal.next /\ UNCHANGED <<journal, bound>>
    BY <1>7 DEF PublishSession, At, Alone, Quiet, relay
  <2>2. /\ journal # None /\ journal.phase = "serverCommitted" /\ Holds(journal)
        /\ session # None /\ journal \in Journal
    BY <1>0, <2>1, Remembered, Loaded DEF MemoryOf, Same, Loadable, Sound
  <2>3. Accepted /\ journal.next.sid = journal.nid /\ journal.next # None
    BY <2>1, <2>2 DEF Accepted, Same, Loadable, Holds, Pending
  <2>4. Cur # None /\ Cur' = bound /\ Blocks(journal)
    <3>1. session.sid # None
      BY <1>0, <2>2, PairFields, NoneIsNone DEF Base, Types, FileType, Sids
    <3> QED  BY <2>1, <2>2, <2>3, <3>1, AcceptedIs DEF Cur, Blocks, Pending
  <2>5. pc' = [pc EXCEPT ![p] = "recorded"]
    BY <1>7 DEF PublishSession, Go
  <2>6. Busy' = Busy
    BY <1>0, <1>1, <2>1, <2>5, BusyIs
  <2>7. Change!Adopt
    BY <2>1, <2>4, <2>6 DEF Change!Adopt, Cur, Blocks
  <2> QED  BY <2>7 DEF Change!Next
<1>8. ASSUME NEW p \in Procs, JournalStep(p)
      PROVE  [Change!Next]_<<Cur, bound, Blocks(journal), Busy>>
  <2>1. /\ Cur' = Cur /\ bound' = bound /\ Busy' = Busy
        /\ \/ Blocks(journal)' = Blocks(journal)
           \/ Blocks(journal)' = TRUE
           \/ Cur = bound
    BY <1>0, <1>8, JournalHandover DEF Cur
  <2>2. Blocks(journal)' = TRUE => Change!Pause
    BY <2>1 DEF Change!Pause, Cur
  <2>3. Blocks(journal)' = FALSE /\ Cur = bound => Change!Resume
    BY <2>1 DEF Change!Resume, Cur
  <2>4. Blocks(journal)' \in BOOLEAN
    BY DEF Blocks
  <2> QED  BY <2>1, <2>2, <2>3, <2>4 DEF Change!Next
<1>9. CASE UNCHANGED <<session, journal, bound>>
  BY <1>0, <1>9, WorkStep
<1> QED  BY <1>2, <1>3, <1>4, <1>5, <1>6, <1>7, <1>8, <1>9, Writes

\* A renewal hands the device over: it moves only while nobody works with the
\* stored sign-in, the machine is paused until it has adopted what the relay
\* has accepted, whatever dies or arrives late (reauth.rs, link.rs).
THEOREM ImplementsHandover == Spec => HandoverSpec
<1>1. Init => Change!Init
  <2> SUFFICES ASSUME Init PROVE Change!Init
    OBVIOUS
  <2>1. session # None /\ session.sid = 1 /\ 1 \in Sids
    BY Bounds, PairFields, NoneIsNone DEF Init, Sids
  <2>2. Busy = {}
    BY DEF Init, Busy
  <2> QED  BY <2>1, <2>2 DEF Init, Change!Init, Blocks
<1>2. Inv /\ Inv' /\ [Next]_vars =>
        [Change!Next]_<<IF session = None THEN None ELSE session.sid, bound, Blocks(journal), Busy>>
  BY HandoverStep DEF Cur
<1> QED  BY Inductive, <1>1, <1>2, PTL DEF Spec, HandoverSpec, Change!Spec
=============================================================================
