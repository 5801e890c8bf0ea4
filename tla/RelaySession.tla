---------------------------- MODULE RelaySession ----------------------------
(***************************************************************************)
(* The relay sign-in of a linked machine and its renewal                   *)
(* (crates/xcb-runtime/src/cloud/: reauth.rs, link.rs, custody.rs and      *)
(* relay_gate.rs).  session.json holds a token pair whose refresh token    *)
(* can be spent once; every process of the machine refreshes it under one  *)
(* lock.  `xcb link --reauth' replaces it by the pair of a new sign-in,    *)
(* along a journal that survives its process, and moves the device to the  *)
(* new sign-in at the relay.                                               *)
(*                                                                         *)
(* Any process may die between two steps, requests may arrive after their  *)
(* sender has given up, and logout takes neither of the long locks.  A     *)
(* file's content stands for its identity: no pair is ever written twice.  *)
(* The relay answers as the code expects it to; it is not part of this     *)
(* repository, and neither are the loops that call these functions.        *)
(***************************************************************************)
EXTENDS Naturals, Sequences

CONSTANTS
    Procs,      \* processes that use the sign-in or renew it
    None,       \* no process, no file, no value
    MaxSids,    \* bound: sign-ins
    MaxToks,    \* bound: refreshes of one sign-in
    MaxOps,     \* bound: renewals
    MaxChals,   \* bound: challenges of the relay
    MaxCrashes, \* bound: deaths with a lock, lost replies
    MaxFaults   \* bound: expired sign-ins and logouts

ASSUME BoundsAssumption ==
    {MaxToks, MaxOps, MaxChals, MaxCrashes, MaxFaults} \subseteq Nat /\ MaxSids \in Nat \ {0}

VARIABLES
    session,    \* session.json: [sid, tok]
    journal,    \* reauth.json
    pump, fresh,    \* who holds the relay gate, the refresh lock
    pc,         \* the processes: where each one is,
    opened,     \*   the sign-in its relay pass or client opened,
    snap,       \*   the journal it has loaded,
    pair, chal, \*   a pair and a challenge in its memory
    flying,     \* requests under way to the relay
    answer,     \* the relay's answer to each process
    bound,      \* the relay: the sign-in of the device,
    chals,      \*   its challenges [sid, status],
    issued, toks,   \*   the sign-ins, the pair each now accepts,
    expired,    \*   the sign-ins that ended
    lost,       \* history: sign-ins whose newest pair never reached a file
    ops, crashes, faults

files == <<session, journal>>
locks == <<pump, fresh>>
procVars == <<pc, opened, snap, pair, chal>>
net == <<flying, answer>>
relay == <<bound, chals, issued, toks, expired>>
vars == <<files, locks, procVars, net, relay, lost, ops, crashes, faults>>

Sids == 1 .. MaxSids
Pair == [sid : Sids, tok : 0 .. MaxToks]

Pending == {"prepared", "committing", "serverCommitted"}
Phases == Pending \cup {"awaitingOtp", "renewalRequired", "committed"}
Journal == [op : Nat, phase : Phases, orig : Sids, prior : BOOLEAN, next : Pair \cup {None},
            nid : Sids \cup {None}, pub : Pair \cup {None}, chal : Nat \cup {None}]

ASSUME NoneAssumption == None \notin Procs \cup Nat \cup Pair \cup Journal \cup {"yes", "no"}

Init ==
    /\ session = [sid |-> 1, tok |-> 0] /\ journal = None
    /\ pump = None /\ fresh = None
    /\ pc = [p \in Procs |-> "off"] /\ opened = [p \in Procs |-> None]
    /\ snap = [p \in Procs |-> None]
    /\ pair = [p \in Procs |-> None] /\ chal = [p \in Procs |-> None]
    /\ flying = {} /\ answer = [p \in Procs |-> None]
    /\ bound = 1 /\ chals = <<>>
    /\ issued = 1 /\ toks = [s \in Sids |-> 0] /\ expired = {}
    /\ lost = {} /\ ops = 0 /\ crashes = 0 /\ faults = 0

-----------------------------------------------------------------------------
(* The journal.                                                            *)

\* Mutant: a second renewal does not keep the relay paused through its code.
BadBlocks(j) == j # None /\ j.phase \in Pending \cup {"renewalRequired"}

Blocks(j) == /\ j # None
             /\ \/ j.phase \in Pending \cup {"renewalRequired"}
                \/ j.phase = "awaitingOtp" /\ j.prior

\* Journal::check: the stored sign-in is the old one or the one it becomes.
Sound(j) == session # None /\ session.sid \in {j.orig, j.nid}

\* Mutant: work goes on although a renewal is unfinished.
BadReady == journal # None => Sound(journal)

\* relay_state is Ready.
Ready == journal # None =>
    /\ Sound(journal) /\ ~Blocks(journal)
    /\ journal.phase = "committed" => session.sid = journal.nid

\* Snapshot::load, and Snapshot::check of what p has loaded.
Loadable == journal # None /\ Sound(journal)
Same(p) == Loadable /\ journal = snap[p]

-----------------------------------------------------------------------------
(* Steps of a process.                                                     *)

At(p, step) == pc[p] = step
Go(p, step) == pc' = [pc EXCEPT ![p] = step]
Keeps == UNCHANGED <<opened, snap, pair, chal>>

\* p goes on with the journal j and nothing else in its memory.
Load(p, step, j) ==
    /\ Go(p, step) /\ snap' = [snap EXCEPT ![p] = j]
    /\ opened' = [opened EXCEPT ![p] = None]
    /\ pair' = [pair EXCEPT ![p] = None] /\ chal' = [chal EXCEPT ![p] = None]

\* A relay pass goes on after a refresh, a client has ended.
Reopen(p) ==
    /\ Go(p, IF pump = p THEN "open" ELSE "off")
    /\ pair' = [pair EXCEPT ![p] = None]
    /\ opened' = IF pump = p THEN opened ELSE [opened EXCEPT ![p] = None]
    /\ UNCHANGED <<snap, chal>>

Held(p, lock) == IF lock = p THEN None ELSE lock

Drop(p) == pump' = Held(p, pump) /\ fresh' = Held(p, fresh)

\* An error or the end: the locks go with the process.
Leave(p) == Load(p, "off", None) /\ Drop(p)

Waiting(p) == pc[p] \in {"spending", "beginning", "finishing", "renewing"}

Request(p, kind, new, c) ==
    flying' = flying \cup {[from |-> p, kind |-> kind, pair |-> new, chal |-> c]}
Answered(p, what) == answer[p] = what /\ answer' = [answer EXCEPT ![p] = None]

Quiet == UNCHANGED <<relay, ops, crashes, faults>>
Alone == UNCHANGED <<net, lost>> /\ Quiet

-----------------------------------------------------------------------------
(* Ordinary use: clients, and the relay's own pass under the gate.         *)

StartPass(p) ==
    /\ At(p, "off") /\ pump = None /\ session # None /\ Ready
    /\ pump' = p
    /\ Go(p, "open") /\ opened' = [opened EXCEPT ![p] = session.sid]
    /\ UNCHANGED <<files, fresh, snap, pair, chal>> /\ Alone

EndPass(p) == At(p, "open") /\ pump = p /\ Leave(p) /\ UNCHANGED files /\ Alone

\* refresh_custody under its lock: permitted, and still the sign-in p opened.
\* A client opens it here: one that has changed since refuses the refresh.
Permit(p) ==
    /\ fresh = None /\ Ready /\ session # None
    /\ At(p, "off") \/ (At(p, "open") /\ session.sid = opened[p])
    /\ fresh' = p
    /\ Go(p, "permitted") /\ pair' = [pair EXCEPT ![p] = session]
    /\ opened' = [opened EXCEPT ![p] = session.sid]
    /\ UNCHANGED <<files, pump, snap, chal>> /\ Alone

\* Not due, or another process has replaced the pair that failed.
Unspent(p) ==
    /\ At(p, "permitted") /\ Reopen(p) /\ fresh' = None
    /\ UNCHANGED <<files, pump>> /\ Alone

Spend(p) ==
    /\ At(p, "permitted") /\ Go(p, "spending") /\ Keeps
    /\ Request(p, "refresh", pair[p], None)
    /\ UNCHANGED <<files, locks, answer, lost>> /\ Quiet

\* replace_session: the pair that was spent is still the stored one.
Stored(p, new) ==
    IF session = pair[p] THEN session' = new
    ELSE UNCHANGED session

Refreshed(p) ==
    /\ At(p, "spending") /\ Answered(p, "yes")
    /\ Stored(p, [pair[p] EXCEPT !.tok = @ + 1])
    /\ lost' = IF session = pair[p] THEN lost ELSE lost \cup {pair[p].sid}
    /\ Reopen(p) /\ fresh' = None
    /\ UNCHANGED <<journal, pump, flying>> /\ Quiet

Rejected(p) ==
    /\ At(p, "spending") /\ Answered(p, "no")
    /\ Reopen(p) /\ fresh' = None
    /\ UNCHANGED <<files, pump, flying, lost>> /\ Quiet

-----------------------------------------------------------------------------
(* xcb link --reauth: an intent, a code, a signed operation.               *)

\* Mutant: a signed operation is forgotten for a new intent.
BadPreparable == journal # None => Sound(journal)

\* prepare, under the mutation lock: a signed operation is not forgotten.
Preparable == journal # None =>
    Sound(journal) /\ journal.phase \in {"committed", "renewalRequired"}

Prepare(p) ==
    /\ At(p, "off") /\ session # None /\ Preparable
    /\ ops < MaxOps /\ ops' = ops + 1
    /\ journal' = [op |-> ops + 1, phase |-> "awaitingOtp", orig |-> session.sid,
                   prior |-> journal # None /\ journal.phase = "renewalRequired",
                   next |-> None, nid |-> None, pub |-> None, chal |-> None]
    /\ Load(p, "otp", journal')
    /\ UNCHANGED <<session, locks, net, relay, lost, crashes, faults>>

\* An intent that is there already is waited for again.
Rejoin(p) ==
    /\ At(p, "off") /\ Loadable /\ journal.phase = "awaitingOtp"
    /\ Load(p, "otp", journal)
    /\ UNCHANGED <<files, locks>> /\ Alone

\* verify_code: the relay issues a pair of a new sign-in.
Verify(p) ==
    /\ At(p, "otp") /\ issued < MaxSids /\ issued' = issued + 1
    /\ Go(p, "verified") /\ pair' = [pair EXCEPT ![p] = [sid |-> issued + 1, tok |-> 0]]
    /\ UNCHANGED <<files, locks, opened, snap, chal, net, bound, chals, toks, expired, lost, ops, crashes, faults>>

\* Every change of the journal by p, which holds what it replaces.
Advance(p, step, j) ==
    /\ Same(p) /\ journal' = j /\ Load(p, step, j) /\ UNCHANGED session

\* complete_with: the pair is durable before the relay hears of it.
Complete(p) ==
    /\ At(p, "verified")
    /\ Advance(p, "gate", [journal EXCEPT !.phase = "prepared", !.next = pair[p],
                                          !.nid = pair[p].sid])
    /\ UNCHANGED locks /\ Alone

\* resume: an operation that another process has left.
Rerun(p, step) ==
    /\ At(p, "off") /\ Loadable /\ journal.phase \in Pending
    /\ Load(p, step, journal)
    /\ UNCHANGED <<files, locks>> /\ Alone

\* Mutant: commit_with without the refresh lock.
BadLock(p, from, to) ==
    /\ At(p, from) /\ pump = None
    /\ pump' = p /\ Go(p, to) /\ Keeps
    /\ UNCHANGED <<files, fresh>> /\ Alone

\* Both locks of commit_with and of refresh_pending; between the two nothing
\* happens but that the gate keeps others out.
Lock(p, from, to) ==
    /\ At(p, from) /\ pump = None /\ fresh = None
    /\ pump' = p /\ fresh' = p /\ Go(p, to) /\ Keeps
    /\ UNCHANGED files /\ Alone

\* A challenge for a prepared operation; the stored pair is remembered.
Begin(p) ==
    /\ At(p, "locked") /\ Same(p) /\ journal.phase = "prepared"
    /\ session.sid = journal.orig
    /\ Go(p, "beginning") /\ pair' = [pair EXCEPT ![p] = session]
    /\ Request(p, "begin", journal.next, None)
    /\ UNCHANGED <<files, locks, opened, snap, chal, answer, lost>> /\ Quiet

Begun(p) ==
    /\ At(p, "beginning") /\ Answered(p, "yes")
    /\ session = pair[p]
    /\ Advance(p, "signed", [journal EXCEPT !.phase = "committing", !.pub = pair[p],
                                            !.chal = chal[p]])
    /\ UNCHANGED <<locks, flying, lost>> /\ Quiet

\* An operation that was signed before goes on from here.
Continue(p) ==
    /\ At(p, "locked") /\ Same(p) /\ journal.phase \in {"committing", "serverCommitted"}
    /\ Go(p, "signed") /\ Keeps
    /\ UNCHANGED <<files, locks>> /\ Alone

\* check_publication.
Publishable == \/ journal.phase = "serverCommitted" /\ session = journal.next
               \/ session = journal.pub

StatusOf(c) == chals[c].status

Finish(p) ==
    /\ At(p, "signed") /\ Same(p) /\ Publishable
    /\ StatusOf(journal.chal) = "pending"
    /\ Go(p, "finishing") /\ Keeps
    /\ Request(p, "finish", journal.next, journal.chal)
    /\ UNCHANGED <<files, locks, answer, lost>> /\ Quiet

\* Expired or superseded: signed again by a later invocation.
Renounced(p) ==
    /\ At(p, "signed") /\ Same(p) /\ Publishable
    /\ StatusOf(journal.chal) \in {"expired", "superseded"}
    /\ journal' = [journal EXCEPT !.phase = "prepared", !.prior = TRUE,
                                  !.chal = None, !.pub = None]
    /\ Leave(p) /\ UNCHANGED session /\ Alone

ServerCommitted(p) ==
    /\ \/ At(p, "signed") /\ Same(p) /\ Publishable
          /\ StatusOf(journal.chal) = "committed"
          /\ UNCHANGED answer
       \/ At(p, "finishing") /\ Answered(p, "yes")
    /\ Advance(p, "recorded", [journal EXCEPT !.phase = "serverCommitted"])
    /\ UNCHANGED <<locks, flying, lost>> /\ Quiet

\* publish: session.json, then the journal.
PublishSession(p) ==
    /\ At(p, "recorded") /\ Same(p) /\ session # journal.next
    /\ session = journal.pub
    /\ session' = journal.next
    /\ Go(p, "recorded") /\ Keeps
    /\ UNCHANGED <<journal, locks>> /\ Alone

PublishJournal(p) ==
    /\ At(p, "recorded") /\ Same(p) /\ session = journal.next
    /\ journal' = [journal EXCEPT !.phase = "committed", !.next = None, !.pub = None, !.chal = None]
    /\ Leave(p) /\ UNCHANGED session /\ Alone

\* refresh_pending: the pair of the journal, when it is due.
SamePending(p) ==
    /\ Loadable /\ journal.phase \in Pending
    /\ journal.op = snap[p].op /\ journal.nid = snap[p].nid

Renew(p) ==
    /\ At(p, "pending") /\ SamePending(p)
    /\ Go(p, "renewing") /\ snap' = [snap EXCEPT ![p] = journal]
    /\ pair' = [pair EXCEPT ![p] = session]
    /\ Request(p, "refresh", journal.next, None)
    /\ UNCHANGED <<files, locks, opened, chal, answer, lost>> /\ Quiet

\* Not due any more.
Unrenewed(p) ==
    /\ At(p, "pending") /\ SamePending(p) /\ Load(p, "gate", journal)
    /\ Drop(p) /\ UNCHANGED files /\ Alone

Published(p) == journal.phase = "serverCommitted" /\ pair[p] = journal.next

Republish(p) == IF Published(p) THEN session ELSE journal.pub

Renewed(p) ==
    /\ At(p, "renewing") /\ Answered(p, "yes")
    /\ Same(p) /\ (Published(p) => session = pair[p])
    /\ Advance(p, "gate", [journal EXCEPT !.next.tok = @ + 1, !.pub = Republish(p)])
    /\ Drop(p) /\ UNCHANGED <<flying, lost>> /\ Quiet

\* Refused: another code is needed, and the relay stays paused.
RenewalRequired(p) ==
    /\ At(p, "renewing") /\ Answered(p, "no") /\ Same(p)
    /\ journal' = [journal EXCEPT !.phase = "renewalRequired", !.prior = TRUE]
    /\ Leave(p) /\ UNCHANGED <<session, flying, lost>> /\ Quiet

-----------------------------------------------------------------------------
(* Errors, crashes, logout.                                                *)

Abandoned(p) == {IF r.from = p THEN [r EXCEPT !.from = None] ELSE r : r \in flying}
Spent(p) == IF At(p, "spending") THEN {pair[p].sid}
            ELSE IF At(p, "renewing") THEN {snap[p].nid} ELSE {}

\* Between the steps that hold a lock p may end at any time.
Working(p) == p \in {pump, fresh}
Ends(p) ==
    /\ pc[p] \in {"otp", "verified", "gate", "due"}
    /\ Leave(p) /\ UNCHANGED files /\ Alone

\* p dies, or gives up waiting and ends with an error.
Dies(p) ==
    /\ Working(p) /\ crashes < MaxCrashes /\ crashes' = crashes + 1
    /\ Leave(p)
    /\ flying' = Abandoned(p) /\ answer' = [answer EXCEPT ![p] = None]
    /\ lost' = lost \cup Spent(p)
    /\ UNCHANGED <<files, relay, ops, faults>>

\* What p goes by is as it left it, and the relay has not refused; otherwise
\* p ends with an error.
Waited(p) == pc[p] \in {"beginning", "finishing", "renewing"} /\ answer[p] # None
Fits(p) ==
    /\ Waited(p) \/ pc[p] \in {"verified", "locked", "signed", "recorded"} => Same(p)
    /\ At(p, "pending") => SamePending(p)
    /\ At(p, "locked") => (journal.phase = "prepared" => session.sid = journal.orig)
    /\ At(p, "signed") => Publishable
    /\ At(p, "recorded") => session \in {journal.next, journal.pub}
    /\ Waited(p) /\ answer[p] = "no" => At(p, "renewing")
    /\ At(p, "beginning") /\ Waited(p) => session = pair[p]
    /\ At(p, "renewing") /\ answer[p] = "yes" /\ Published(p) => session = pair[p]

Changed(p) ==
    /\ ~Fits(p) /\ Leave(p)
    /\ answer' = [answer EXCEPT ![p] = None]
    /\ lost' = lost \cup (IF At(p, "renewing") /\ answer[p] = "yes" THEN Spent(p) ELSE {})
    /\ UNCHANGED <<files, flying>> /\ Quiet

\* clear_session: the session first, then the intent; it may be cut between.
ClearSession ==
    /\ session # None /\ faults < MaxFaults /\ faults' = faults + 1
    /\ session' = None
    /\ UNCHANGED <<journal, locks, procVars, net, relay, lost, ops, crashes>>
ClearJournal ==
    /\ session = None /\ journal # None /\ journal' = None
    /\ UNCHANGED <<session, locks, procVars>> /\ Alone

Superseded == [c \in DOMAIN chals |->
    IF chals[c].status = "pending" THEN [chals[c] EXCEPT !.status = "superseded"] ELSE chals[c]]

\* Linking again enrols the machine under a new sign-in.
Relink ==
    /\ session = None /\ issued < MaxSids
    /\ issued' = issued + 1
    /\ session' = [sid |-> issued + 1, tok |-> 0] /\ bound' = issued + 1
    /\ chals' = Superseded
    /\ UNCHANGED <<journal, locks, procVars, net, toks, expired, lost, ops, crashes, faults>>

-----------------------------------------------------------------------------
(* The relay.                                                              *)

\* The request r is handled; its sender may have given up.
Reply(r, what) ==
    /\ r \in flying /\ flying' = flying \ {r}
    /\ answer' = IF r.from = None THEN answer ELSE [answer EXCEPT ![r.from] = what]

Unserved == UNCHANGED <<files, locks, expired, issued, lost, ops, crashes, faults>>

\* A refresh token is good once, and not after the end of its sign-in.
ServeRefresh(r) ==
    /\ r.kind = "refresh"
    /\ IF r.pair.sid \notin expired /\ r.pair.tok = toks[r.pair.sid]
       THEN /\ toks[r.pair.sid] < MaxToks
            /\ Reply(r, "yes") /\ toks' = [toks EXCEPT ![r.pair.sid] = @ + 1]
       ELSE /\ Reply(r, "no") /\ UNCHANGED toks
    /\ UNCHANGED <<procVars, bound, chals>> /\ Unserved

ServeBegin(r) ==
    /\ r.kind = "begin"
    /\ IF r.pair.sid \in expired
       THEN Reply(r, "no") /\ UNCHANGED <<chals, chal>>
       ELSE /\ Len(chals) < MaxChals
            /\ chals' = Append(Superseded, [sid |-> r.pair.sid, status |-> "pending"])
            /\ chal' = IF r.from = None THEN chal
                       ELSE [chal EXCEPT ![r.from] = Len(chals) + 1]
            /\ Reply(r, "yes")
    /\ UNCHANGED <<pc, opened, snap, pair, bound, toks>> /\ Unserved

\* A pending challenge moves the device, once.
ServeFinish(r) ==
    /\ r.kind = "finish"
    /\ IF StatusOf(r.chal) = "pending" /\ r.pair.sid \notin expired
       THEN /\ chals' = [chals EXCEPT ![r.chal].status = "committed"]
            /\ bound' = chals[r.chal].sid
            /\ Reply(r, "yes")
       ELSE Reply(r, "no") /\ UNCHANGED <<chals, bound>>
    /\ UNCHANGED <<procVars, toks>> /\ Unserved

ChallengeExpires(c) ==
    /\ StatusOf(c) = "pending"
    /\ chals' = [chals EXCEPT ![c].status = "expired"]
    /\ UNCHANGED <<files, locks, procVars, net, bound, issued, toks, expired, lost, ops, crashes, faults>>

SignInEnds(s) ==
    /\ s <= issued /\ s \notin expired /\ faults < MaxFaults /\ faults' = faults + 1
    /\ expired' = expired \cup {s}
    /\ UNCHANGED <<files, locks, procVars, net, bound, chals, issued, toks, lost, ops, crashes>>

-----------------------------------------------------------------------------
Use(p) ==
    \/ StartPass(p) \/ EndPass(p) \/ Permit(p) \/ Unspent(p)
    \/ Spend(p) \/ Refreshed(p) \/ Rejected(p)

Reauth(p) ==
    \/ Prepare(p) \/ Rejoin(p) \/ Verify(p) \/ Complete(p)
    \/ Rerun(p, "gate") \/ Lock(p, "gate", "locked")
    \/ Begin(p) \/ Begun(p) \/ Continue(p) \/ Finish(p) \/ Renounced(p)
    \/ ServerCommitted(p) \/ PublishSession(p) \/ PublishJournal(p)

Refresh(p) ==
    \/ Rerun(p, "due") \/ Lock(p, "due", "pending")
    \/ Renew(p) \/ Unrenewed(p) \/ Renewed(p) \/ RenewalRequired(p)

Logout == ClearSession \/ ClearJournal \/ Relink

Relay ==
    \/ \E r \in flying : ServeRefresh(r) \/ ServeBegin(r) \/ ServeFinish(r)
    \/ \E c \in DOMAIN chals : ChallengeExpires(c)
    \/ \E s \in Sids : SignInEnds(s)

Next == \/ \E p \in Procs : Use(p) \/ Reauth(p) \/ Refresh(p) \/ Ends(p) \/ Dies(p) \/ Changed(p)
        \/ Logout \/ Relay

Spec == Init /\ [][Next]_vars

-----------------------------------------------------------------------------
Steps == {"off", "open", "permitted", "spending", "otp", "verified", "gate", "locked", "beginning",
          "signed", "finishing", "recorded", "due", "pending", "renewing"}

\* The variables have their types, the journal has what its phase needs, and
\* the long locks are held by exactly the processes in their critical steps.
TypeOK ==
    /\ session \in Pair \cup {None}
    /\ journal # None =>
          /\ journal.phase \in Phases /\ journal.orig \in Sids /\ journal.op \in 1 .. ops
          /\ journal.phase \in Pending => journal.next \in Pair /\ journal.nid = journal.next.sid
          /\ journal.phase \in {"committing", "serverCommitted"} =>
                journal.pub \in Pair /\ journal.chal \in DOMAIN chals
    /\ \A p \in Procs : pc[p] \in Steps
    /\ \A p \in Procs : fresh = p <=> pc[p] \in
          {"permitted", "spending", "locked", "beginning", "signed", "finishing",
           "recorded", "pending", "renewing"}
    /\ \A r \in flying : r.from # None => Waiting(r.from) /\ answer[r.from] = None

\* Whoever works with the stored sign-in: a relay pass, a refresh of a process
\* that is alive.
Busy == {p \in Procs : \/ pump = p /\ pc[p] \in {"open", "permitted", "spending"}
                       \/ pc[p] \in {"permitted", "spending"}}

Change == INSTANCE Handover WITH
    Users <- Procs, SignIns <- Sids,
    cur <- IF session = None THEN None ELSE session.sid,
    paused <- Blocks(journal), busy <- Busy

\* The device moves to the new sign-in only while nothing uses the old one,
\* and the old one is not used again until the machine has adopted what the
\* relay accepted, whatever dies or arrives late (reauth.rs:6-8).
HandoverSpec == Change!Spec

\* A refresh token is sent once, and only while the relay accepts it: the
\* copies of a pair in session.json, in the journal and in the memory of
\* processes are never spent twice.  Only a pair that a crash or a logout
\* kept from its file is an exception.
TokenSpentOnce ==
    [][\A r \in flying' \ flying : r.kind = "refresh" /\ r.from # None /\ r.pair.sid \notin lost =>
          /\ r.pair.tok = toks[r.pair.sid]
          /\ ~ \E q \in flying : q.kind = "refresh" /\ q.pair = r.pair]_vars

\* The sign-in that the relay's device is bound to is never forgotten while
\* it can still be renewed: its newest pair is stored, or the journal has it.
BoundPairKept ==
    session # None /\ bound \notin lost \cup expired =>
        \/ session.sid = bound
        \/ journal # None /\ journal.next # None /\ journal.next.sid = bound
=============================================================================
