--------------------------- MODULE MCAlertOutbox ---------------------------
(* Finite instances of AlertOutbox for TLC.                                *)
EXTENDS AlertOutbox, TLC

CONSTANTS a1, a2, w1, w2

MCAlerts == {a1, a2}
MCOneAlert == {a1}
MCWorkers == {w1, w2}

(* One outcome of each kind process_one tells apart.                       *)
MCOutcomes == {"success", "rejected_http", "timeout"}

(* A receiver that only accepts or times out.                              *)
MCTransient == {"success", "timeout"}

(* The same with a webhook that answers 3xx.                               *)
MCOutcomesWithRedirect == MCOutcomes \cup {"redirect"}

MCSymmetry == Permutations(MCAlerts) \cup Permutations(MCWorkers)
=============================================================================
