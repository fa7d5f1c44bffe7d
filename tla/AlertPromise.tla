---------------------------- MODULE AlertPromise ----------------------------
(***************************************************************************)
(* What the outbox promises about an alert, without workers, leases,       *)
(* attempts or time: an alert that was raised stays in the outbox until it *)
(* is settled, once and for all, as delivered or failed, and delivered     *)
(* means that the receiver acted upon it at least once                     *)
(* (docs/PROJECT_STATUS.md:354; backend/app/models.py:176-198).            *)
(***************************************************************************)
CONSTANT Alerts

VARIABLES
    state,      \* what the table says about the alert
    processed   \* alerts the webhook receiver has acted upon

promiseVars == <<state, processed>>

Init ==
    /\ state = [a \in Alerts |-> "absent"]
    /\ processed = {}

Raise(a) ==
    /\ state[a] = "absent"
    /\ state' = [state EXCEPT ![a] = "open"]
    /\ UNCHANGED processed

(* The receiver may act again on an alert that is already settled.         *)
Process(a) ==
    /\ state[a] # "absent"
    /\ processed' = processed \cup {a}
    /\ UNCHANGED state

Settle(a) ==
    /\ state[a] = "open"
    /\ \/ state' = [state EXCEPT ![a] = "failed"]
       \/ a \in processed /\ state' = [state EXCEPT ![a] = "delivered"]
    /\ UNCHANGED processed

Next == \E a \in Alerts : Raise(a) \/ Process(a) \/ Settle(a)

Spec == Init /\ [][Next]_promiseVars
=============================================================================
