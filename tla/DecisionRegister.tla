-------------------------- MODULE DecisionRegister --------------------------
(***************************************************************************)
(* What the approval endpoint promises of a run, without requests, tables  *)
(* or checkpoints: one decision is taken per run, once; it is published    *)
(* after it was taken, as it was taken, and is never withdrawn.            *)
(***************************************************************************)
CONSTANT Runs

VARIABLES
    decision,   \* the decision on record for each run
    published   \* the decision a reader of the run is shown

vars == <<decision, published>>

Decisions == {"approved", "rejected"}

Init ==
    /\ decision = [r \in Runs |-> "none"]
    /\ published = [r \in Runs |-> "none"]

Decide(r, d) ==
    /\ decision[r] = "none"
    /\ decision' = [decision EXCEPT ![r] = d]
    /\ UNCHANGED published

Publish(r) ==
    /\ decision[r] # "none"
    /\ published' = [published EXCEPT ![r] = decision[r]]
    /\ UNCHANGED decision

Next == \E r \in Runs : Publish(r) \/ \E d \in Decisions : Decide(r, d)

Spec == Init /\ [][Next]_vars
=============================================================================
