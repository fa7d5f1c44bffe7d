-------------------------- MODULE MCAlertScheduler --------------------------
(* A finite instance of AlertScheduler for TLC.                            *)
EXTENDS AlertScheduler

CONSTANTS p1, q1

MCHours == 1..2
MCWorkers == {p1, q1}
MCOutcomes == {"success", "timeout"}

(* An operator, an administrator, a reader and somebody unauthenticated.   *)
MCPrincipals ==
    {[authenticated |-> TRUE, roles |-> {r}] :
        r \in {"alert_operator", "agent_admin", "alert_viewer"}}
    \cup {[authenticated |-> FALSE, roles |-> {}]}
=============================================================================
