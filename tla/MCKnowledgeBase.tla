-------------------------- MODULE MCKnowledgeBase ---------------------------
(* A finite instance of KnowledgeBase for TLC.                             *)
EXTENDS KnowledgeBase

CONSTANTS u1, c1, b1, b2, l1, MaxLength

MCTexts == {t \in UNION {[1..n -> Characters] : n \in 1..MaxLength} : Normal(t)}
(* Uploads next to everything else, and backfills next to each other.      *)
MCTogether == {{u1, c1, l1}, {u1, b1}, {b1, b2}}

=============================================================================
