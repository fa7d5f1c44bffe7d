----------------------- MODULE MCCheckpointRetention -----------------------
(* Model values and small sets for the TLC runs of CheckpointRetention.    *)
EXTENDS CheckpointRetention, TLC

CONSTANTS t1, p1, p2, o1, o2

MCThreads == {t1}
MCResumers == {p1, p2}
MCOperators == {o1, o2}

MCSymmetry == Permutations(MCResumers) \cup Permutations(MCOperators)
=============================================================================
