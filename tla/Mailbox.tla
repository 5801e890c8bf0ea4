------------------------------- MODULE Mailbox -------------------------------
(***************************************************************************)
(* What the durable inbox of managed tasks promises its senders            *)
(* (crates/xcb-runtime/src/managed_inbox.rs): an accepted event goes into  *)
(* at most one worker turn, comes back only if that turn never reached the *)
(* provider, and is receipted only if it did.                              *)
(***************************************************************************)
CONSTANT Ids        \* event identities

VARIABLES
    box,            \* where each event stands
    handed          \* events whose text went to a provider

Place == {"none", "pending", "out", "acked", "closed"}

Init == box = [i \in Ids |-> "none"] /\ handed = {}

(* What one step may do to one event.                                      *)
Step(i) == \/ box'[i] = box[i]
           \/ box[i] = "none"    /\ box'[i] \in {"pending", "closed"}
           \/ box[i] = "pending" /\ box'[i] \in {"out", "closed"}
           \/ box[i] = "out"     /\ box'[i] = "pending" /\ i \notin handed
           \/ box[i] = "out"     /\ box'[i] = "acked"   /\ i \in handed
           \/ box[i] = "out"     /\ box'[i] = "closed"

(* Several events move in one transaction of their tasks.                  *)
Move == /\ box' \in [Ids -> Place]
        /\ \A i \in Ids : Step(i)
        /\ UNCHANGED handed

(* A prompt goes out with events that were never in one before.            *)
Hand == \E S \in SUBSET Ids :
    /\ S # {} /\ S \cap handed = {}
    /\ \A i \in S : box[i] = "out"
    /\ handed' = handed \cup S
    /\ UNCHANGED box

Next == Move \/ Hand

Spec == Init /\ [][Next]_<<box, handed>>
=============================================================================
