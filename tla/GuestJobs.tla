------------------------------ MODULE GuestJobs ------------------------------
(***************************************************************************)
(* What the owner of an account is promised about the commands its turns   *)
(* run in the guest: one command is out at a time, and a turn lets go of   *)
(* a command only when nothing of it can run any more.                     *)
(***************************************************************************)
CONSTANT Commands

VARIABLES
    cmd,    \* where each command stands for the turn that asked for it
    live    \* commands of which something runs, or may still start to

Stage == {"idle", "held", "out", "stopped", "free"}

Init == cmd = [c \in Commands |-> "idle"] /\ live = {}

Move(c, from, to) == cmd[c] \in from /\ cmd' = [cmd EXCEPT ![c] = to]

Hold(c) == Move(c, {"idle"}, "held") /\ UNCHANGED live

Submit(c) ==
    /\ \A d \in Commands : cmd[d] # "out"
    /\ Move(c, {"held"}, "out")
    /\ UNCHANGED live

Start(c) == cmd[c] = "out" /\ live' = live \cup {c} /\ UNCHANGED cmd

End == live' \in SUBSET live /\ UNCHANGED cmd

Stop(c) == c \notin live /\ Move(c, {"out"}, "stopped") /\ UNCHANGED live

Release(c) == c \notin live /\ Move(c, {"held", "stopped"}, "free") /\ UNCHANGED live

Next == \/ End
        \/ \E c \in Commands : \/ Hold(c) \/ Submit(c) \/ Start(c)
                               \/ Stop(c) \/ Release(c)

Spec == Init /\ [][Next]_<<cmd, live>>
=============================================================================
