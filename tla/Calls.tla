------------------------------- MODULE Calls -------------------------------
(***************************************************************************)
(* What the calls of programs and daemons to managed children promise,     *)
(* whatever crashes: a caller asks for one piece of work at a time, each   *)
(* request becomes one task and each is answered once, before the next is  *)
(* asked.  A caller that has closed asks for nothing more.                 *)
(***************************************************************************)
EXTENDS Naturals

CONSTANTS Callers, MaxCalls

VARIABLES asked, answered, closed

calls == <<asked, answered, closed>>

Init ==
    /\ asked = [o \in Callers |-> 0]
    /\ answered = [o \in Callers |-> 0]
    /\ closed = [o \in Callers |-> FALSE]

Ask(o) ==
    /\ ~closed[o] /\ asked[o] = answered[o] /\ asked[o] < MaxCalls
    /\ asked' = [asked EXCEPT ![o] = @ + 1]
    /\ UNCHANGED <<answered, closed>>

Answer(o) ==
    /\ ~closed[o] /\ answered[o] < asked[o]
    /\ answered' = [answered EXCEPT ![o] = @ + 1]
    /\ UNCHANGED <<asked, closed>>

Close(o) ==
    /\ ~closed[o]
    /\ closed' = [closed EXCEPT ![o] = TRUE]
    /\ UNCHANGED <<asked, answered>>

Next == \E o \in Callers : Ask(o) \/ Answer(o) \/ Close(o)

Spec == Init /\ [][Next]_calls
=============================================================================
