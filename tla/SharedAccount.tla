--------------------------- MODULE SharedAccount ---------------------------
(***************************************************************************)
(* What custody of an account promises, with nothing of how it is kept: a  *)
(* lock that session runs share up to a capacity and a probe takes alone,  *)
(* and that no run gives up while a process of it is at work.              *)
(* docs/quota-routing.md:60-66 and the comments of prepare_run say this;   *)
(* AccountCustody implements it.                                           *)
(***************************************************************************)
EXTENDS Integers, FiniteSets

CONSTANTS Runs, Capacity

VARIABLES
    holders, \* the runs that hold the account
    sole,    \* those of them that hold it alone
    busy     \* the runs that have a process at work

vars == <<holders, sole, busy>>

Init == holders = {} /\ sole = {} /\ busy = {}

AcquireShared(r) ==
    /\ r \notin holders /\ sole = {}
    /\ Cardinality(holders) < Capacity
    /\ holders' = holders \cup {r}
    /\ UNCHANGED <<sole, busy>>

AcquireSole(r) ==
    /\ holders = {}
    /\ holders' = {r} /\ sole' = {r}
    /\ UNCHANGED busy

\* Processes come and go, of runs that hold the account only.
Work ==
    /\ busy' \subseteq holders
    /\ UNCHANGED <<holders, sole>>

Release(r) ==
    /\ r \in holders \ busy
    /\ holders' = holders \ {r} /\ sole' = sole \ {r}
    /\ UNCHANGED busy

Next ==
    \/ \E r \in Runs : AcquireShared(r) \/ AcquireSole(r) \/ Release(r)
    \/ Work

Spec == Init /\ [][Next]_vars
=============================================================================
