------------------------ MODULE NotificationLifecycle -----------------------
(***************************************************************************)
(* What the write engine promises of every (event_id, recipient_address)   *)
(* slot, whoever calls it, in whatever order, and wherever they crash: one *)
(* notification that moves along the lifecycle of NotificationStatus and   *)
(* never back, and that announces a state in the very step that enters it. *)
(*                                                                         *)
(* The one liberty taken is Repeat: a caller that lost the race for a      *)
(* pending row announces its own dispatch outcome again, or against the    *)
(* one that won.  It may do so only once the slot has left pending.        *)
(***************************************************************************)
CONSTANT Slot

VARIABLES
    state,      \* where each slot stands
    announced   \* the lifecycle events durably announced for it

State == {"absent", "pending", "sent", "delivered", "undelivered", "failed"}
Announcement == {"NotificationDispatched", "NotificationFailed",
                 "NotificationDelivered", "NotificationUndelivered"}

LifecycleInit ==
    /\ state = [s \in Slot |-> "absent"]
    /\ announced = [s \in Slot |-> {}]

Move(s, from, to, a) ==
    /\ state[s] = from
    /\ state' = [state EXCEPT ![s] = to]
    /\ announced' = [announced EXCEPT ![s] = @ \cup {a}]

Claim(s) ==
    /\ state[s] = "absent"
    /\ state' = [state EXCEPT ![s] = "pending"]
    /\ UNCHANGED announced

Dispatched(s)  == Move(s, "pending", "sent", "NotificationDispatched")
Failed(s)      == Move(s, "pending", "failed", "NotificationFailed")
Delivered(s)   == Move(s, "sent", "delivered", "NotificationDelivered")
Undelivered(s) == Move(s, "sent", "undelivered", "NotificationUndelivered")

Repeat(s) ==
    /\ state[s] \notin {"absent", "pending"}
    /\ \E a \in {"NotificationDispatched", "NotificationFailed"} :
          announced' = [announced EXCEPT ![s] = @ \cup {a}]
    /\ UNCHANGED state

LifecycleNext ==
    \E s \in Slot : Claim(s) \/ Dispatched(s) \/ Failed(s) \/ Delivered(s)
                       \/ Undelivered(s) \/ Repeat(s)

LifecycleSpec == LifecycleInit /\ [][LifecycleNext]_<<state, announced>>
=============================================================================
