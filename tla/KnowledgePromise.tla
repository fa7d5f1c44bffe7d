-------------------------- MODULE KnowledgePromise --------------------------
(* What readers of the knowledge base may count on: a document appears     *)
(* whole, with the vectors of all its chunks; chunks that were there       *)
(* without vectors get them, each its own and once; nothing disappears.    *)
EXTENDS Naturals

CONSTANTS
    Documents,  \* documents that may be published
    Old,        \* a document that has been there without vectors
    OldChunks,  \* how many chunks it has
    Sizes,      \* how many chunks a document may have that is published
    NoVector

VARIABLES
    published,  \* the documents
    vectors     \* of every chunk: the chunk its vector was computed from

ChunksOf(d, n) == {<<d, i>> : i \in 1..n}

Init ==
    /\ published = {Old}
    /\ vectors = [c \in ChunksOf(Old, OldChunks) |-> NoVector]

Publish(d) ==
    /\ d \notin published
    /\ published' = published \cup {d}
    /\ \E n \in Sizes :
          vectors' = [c \in DOMAIN vectors \cup ChunksOf(d, n) |->
                         IF c[1] = d THEN c ELSE vectors[c]]

Fill ==
    /\ \E some \in SUBSET {c \in DOMAIN vectors : vectors[c] = NoVector} :
          vectors' = [c \in DOMAIN vectors |-> IF c \in some THEN c ELSE vectors[c]]
    /\ UNCHANGED published

Next == Fill \/ \E d \in Documents : Publish(d)

vars == <<published, vectors>>

Spec == Init /\ [][Next]_vars
=============================================================================
