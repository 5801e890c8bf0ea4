------------------------------ MODULE Handover ------------------------------
(***************************************************************************)
(* What renewing a relay sign-in promises (crates/xcb-runtime/src/cloud/   *)
(* reauth.rs): the relay's device moves to the new sign-in only while      *)
(* nobody works with the old one, work is paused until the machine has     *)
(* adopted what the relay has accepted, and a sign-in that was removed     *)
(* comes back only by linking again.                                       *)
(***************************************************************************)
CONSTANTS Users, SignIns, None

VARIABLES
    cur,        \* the sign-in the machine has stored
    bound,      \* the sign-in the relay's device is bound to
    paused,     \* remote work may not start
    busy        \* who works with the stored sign-in

Init == cur \in SignIns /\ bound = cur /\ paused = FALSE /\ busy = {}

Enter(u) == ~paused /\ cur # None /\ busy' = busy \cup {u} /\ UNCHANGED <<cur, bound, paused>>
Leave(u) == busy' = busy \ {u} /\ UNCHANGED <<cur, bound, paused>>

Pause == paused' = TRUE /\ UNCHANGED <<cur, bound, busy>>

Switch == /\ busy = {} /\ (paused \/ cur = None)
          /\ bound' \in SignIns
          /\ UNCHANGED <<cur, paused, busy>>

Adopt == paused /\ cur # None /\ cur' = bound /\ UNCHANGED <<bound, paused, busy>>

Resume == cur \in {bound, None} /\ paused' = FALSE /\ UNCHANGED <<cur, bound, busy>>

Remove == cur' = None /\ UNCHANGED <<bound, paused, busy>>

Link == /\ cur = None
        /\ cur' \in SignIns /\ bound' = cur'
        /\ UNCHANGED <<paused, busy>>

Next == \/ \E u \in Users : Enter(u) \/ Leave(u)
        \/ Pause \/ Switch \/ Adopt \/ Resume \/ Remove \/ Link

Spec == Init /\ [][Next]_<<cur, bound, paused, busy>>
=============================================================================
