------------------------ MODULE KnowledgeBaseProofs ------------------------
(***************************************************************************)
(* Theorems about KnowledgeBase for any number of requests and any         *)
(* settings.                                                               *)
(***************************************************************************)
EXTENDS KnowledgeBase, TextSplitterProofs, FiniteSetTheorems

(* What kind of request one is.                                            *)
LEMMA Kinds ==
    ASSUME NEW r \in Requests
    PROVE  /\ r # Old
           /\ r \in Uploads => r \notin Creates /\ r \notin Backfills /\ r \notin Readers
           /\ r \in Creates => r \notin Backfills /\ r \notin Readers
           /\ r \in Backfills => r \notin Readers
  BY RequestsAssumption DEF Pairwise

(* The batches that n texts take: one more than have been answered, as     *)
(* long as there are texts left.                                           *)
LEMMA BatchesLeft ==
    ASSUME NEW n \in Nat
    PROVE  /\ Batches(n) \in Nat
           /\ \A k \in Nat : k * BatchSize < n => k + 1 <= Batches(n)
<1> DEFINE q == (n + BatchSize - 1) \div BatchSize
           m == n + BatchSize - 1
<1>1. BatchSize \in Nat \ {0} /\ m \in Nat
  BY EmbeddingAssumption
<1>2. q \in Nat /\ m < (q + 1) * BatchSize
  <2> HIDE DEF m
  <2>1. m \div BatchSize \in Nat /\ m < (m \div BatchSize + 1) * BatchSize
    BY <1>1
  <2>2. QED
    BY <2>1 DEF m
<1> HIDE DEF q
<1>3. ASSUME NEW k \in Nat, k * BatchSize < n PROVE k + 1 <= q
  <2> SUFFICES ASSUME q <= k PROVE FALSE
    BY <1>2
  <2>1. (q + 1) * BatchSize <= (k + 1) * BatchSize
    BY <1>1, <1>2
  <2>2. (k + 1) * BatchSize = k * BatchSize + BatchSize
    BY <1>1
  <2>3. k * BatchSize \in Nat /\ (q + 1) * BatchSize \in Nat
    BY <1>1, <1>2
  <2>4. QED
    BY <1>1, <1>2, <1>3, <2>1, <2>2, <2>3
<1>4. QED
  BY <1>2, <1>3 DEF Batches, q

(* An answer that is not malformed names every text of the batch once, so  *)
(* the vectors are in the order of the texts.                              *)
LEMMA ParsedInOrder ==
    ASSUME NEW n \in Nat \ {0}, NEW data \in Answers(n), ~Malformed(data, n)
    PROVE  \A i \in 1..n : Parsed(data, n)[i] = i
<1>1. data \in [1..n -> Items(n)]
  <2>1. PICK k \in {n - 1, n} : data \in [1..k -> Items(n)]
    BY DEF Answers
  <2>2. k \in Nat /\ Len(data) = k
    BY <2>1
  <2>3. QED
    BY <2>1, <2>2 DEF Malformed
<1> DEFINE index == [j \in 1..n |-> data[j].index]
<1>2. Len(data) = n /\ DOMAIN data = 1..n
  BY <1>1
<1>3. \A j \in 1..n : data[j].index \in 0..(n - 1)
  BY <1>2 DEF Malformed
<1>4. \A j, k \in 1..n : index[j] = index[k] => j = k
  BY <1>2 DEF Malformed
<1>5. index \in Injection(1..n, 0..(n - 1))
  <2>1. index \in [1..n -> 0..(n - 1)]
    BY <1>3
  <2>2. IsInjective(index)
    BY <1>4 DEF IsInjective
  <2>3. QED
    BY <2>1, <2>2 DEF Injection
<1>6. /\ IsFiniteSet(1..n) /\ Cardinality(1..n) = n
      /\ IsFiniteSet(0..(n - 1)) /\ Cardinality(0..(n - 1)) = n
  BY FS_Interval
<1>7. index \in Surjection(1..n, 0..(n - 1))
  BY <1>5, <1>6, FS_Injection
<1>8. \A i \in 1..n : \E j \in 1..n : data[j].index = i - 1
  <2>1. \A t \in 0..(n - 1) : \E j \in 1..n : index[j] = t
    BY <1>7 DEF Surjection
  <2>2. \A i \in 1..n : i - 1 \in 0..(n - 1)
    OBVIOUS
  <2>3. QED
    BY <2>1, <2>2
<1>9. ASSUME NEW i \in 1..n PROVE Parsed(data, n)[i] = i
  <2> DEFINE item == CHOOSE item \in {data[j] : j \in 1..n} : item.index = i - 1
  <2>1. \E x \in {data[j] : j \in 1..n} : x.index = i - 1
    BY <1>8
  <2>2. item.index = i - 1
    BY <2>1
  <2>3. Parsed(data, n)[i] = item.index + 1
    BY DEF Parsed
  <2> HIDE DEF item
  <2>4. QED
    BY <2>2, <2>3
<1>10. QED
  BY <1>9

(* The targets of a backfill are the blank chunks, each once.              *)
LEMMA TargetsEnumerate ==
    ASSUME KnowledgeTypeOK, NEW d \in DOMAIN documents, NEW t \in Targets(d)
    PROVE  /\ t \in Seq(Nat)
           /\ \A i, j \in DOMAIN t : i # j => t[i] # t[j]
           /\ \A i \in DOMAIN t : <<d, t[i]>> \in ChunksOf(d)
           /\ Blanks(d) \subseteq {<<d, t[i]>> : i \in DOMAIN t}
<1> DEFINE blank == {c[2] : c \in Blanks(d)}
           n == Cardinality(blank)
           N == documents[d].chunk_count
<1>1. N \in Nat
  BY DEF KnowledgeTypeOK
<1>2. blank \subseteq 1..N /\ \A i \in blank : <<d, i>> \in ChunksOf(d)
  BY DEF Blanks, ChunksOf
<1>3. IsFiniteSet(blank) /\ n \in Nat
  <2> HIDE DEF blank
  <2>1. IsFiniteSet(1..N)
    BY <1>1, FS_Interval
  <2>2. IsFiniteSet(blank)
    BY <1>2, <2>1, FS_Subset
  <2>3. QED
    BY <2>2, FS_CardinalityType
<1>4. t \in [1..n -> blank] /\ \A i, j \in 1..n : i < j => t[i] < t[j]
  BY DEF Targets
<1>5. \A c \in Blanks(d) : c = <<d, c[2]>> /\ c[2] \in blank
  BY DEF Blanks, ChunksOf
<1> HIDE DEF blank, n, N
<1>6. \A i \in 1..n : t[i] \in blank /\ t[i] \in Nat
  <2>1. \A i \in 1..n : t[i] \in blank
    BY <1>4
  <2>2. \A x \in blank : x \in Nat
    BY <1>1, <1>2
  <2>3. QED
    BY <2>1, <2>2
<1>7. \A i, j \in 1..n : t[i] = t[j] => i = j
  BY <1>3, <1>4, <1>6
<1>8. t \in Surjection(1..n, blank)
  <2>1. t \in Injection(1..n, blank)
    BY <1>4, <1>7 DEF Injection, IsInjective
  <2>2. Cardinality(1..n) = Cardinality(blank)
    BY <1>3, FS_Interval DEF n
  <2>3. QED
    BY <1>3, <2>1, <2>2, FS_Injection
<1>9. \A x \in blank : \E i \in 1..n : t[i] = x
  BY <1>8 DEF Surjection
<1>10. t \in Seq(Nat) /\ DOMAIN t = 1..n
  BY <1>3, <1>4, <1>6
<1>11. \A i \in DOMAIN t : <<d, t[i]>> \in ChunksOf(d)
  BY <1>2, <1>6, <1>10
<1>12. \A c \in Blanks(d) : \E i \in DOMAIN t : c = <<d, t[i]>>
  BY <1>5, <1>9, <1>10
<1>13. QED
  BY <1>7, <1>10, <1>11, <1>12

-----------------------------------------------------------------------------
(* What a step of r may change of what other requests depend on: only its  *)
(* own document, file and record; a vector only where there was none, and  *)
(* there only in rows it has locked, which are not those of others.        *)
Grows(r) ==
    /\ \A s \in Requests \ {r} : request'[s] = request[s]
    /\ \A c \in request'[r].locks : c \in request[r].locks \/ c \notin Locked(r)
    /\ DOMAIN documents \subseteq DOMAIN documents'
    /\ DOMAIN documents' \subseteq DOMAIN documents \cup {r}
    /\ IsFiniteSet(DOMAIN documents')
    /\ \A d \in DOMAIN documents : documents'[d] = documents[d]
    /\ DOMAIN chunks \subseteq DOMAIN chunks'
    /\ \A c \in DOMAIN chunks :
          chunks[c] # NoVector \/ c \notin request[r].locks => chunks'[c] = chunks[c]
    /\ \A c \in DOMAIN chunks' :
          chunks'[c] # NoVector =>
             chunks'[c].by = r \/ (c \in DOMAIN chunks /\ chunks'[c] = chunks[c])
    /\ \A s \in Requests \ {r} : /\ s \in files' <=> s \in files
                                 /\ s \in temporary' <=> s \in temporary
                                 /\ s \in ackLost => s \in ackLost'
                                 /\ s \in uncleaned' <=> s \in uncleaned

Frame == <<documents, chunks, files, temporary, ackLost, uncleaned>>

LEMMA GrowsWithout ==
    ASSUME KnowledgeTypeOK, NEW r \in Requests, NEW v, v \in RequestState,
           request' = [request EXCEPT ![r] = v],
           v.locks \subseteq request[r].locks,
           UNCHANGED Frame
    PROVE  Grows(r)
  BY DEF Grows, Frame, KnowledgeTypeOK

(* A document and its chunks are added: they are not there yet.            *)
LEMMA Added ==
    ASSUME KnowledgeTypeOK, ChunksInv, NEW r \in Uploads \cup Creates, r \notin DOMAIN documents,
           NEW stored \in BOOLEAN, NEW vectors \in Seq(Documents \X Nat),
           \A i \in DOMAIN vectors : vectors[i] = <<r, i>>,
           AddDocument(r, stored, vectors)
    PROVE  /\ DOMAIN documents' = DOMAIN documents \cup {r}
           /\ documents'[r] = [stored |-> stored, chunk_count |-> Len(vectors)]
           /\ \A d \in DOMAIN documents : documents'[d] = documents[d] /\ d # r
           /\ IsFiniteSet(DOMAIN documents')
           /\ DOMAIN chunks' = DOMAIN chunks \cup {<<r, i>> : i \in 1..Len(vectors)}
           /\ \A c \in DOMAIN chunks : chunks'[c] = chunks[c] /\ c[1] # r
           /\ \A i \in 1..Len(vectors) :
                 <<r, i>> \notin DOMAIN chunks /\ chunks'[<<r, i>>] = [of |-> <<r, i>>, by |-> r]
           /\ ChunksInv'
<1> DEFINE new == {<<r, i>> : i \in 1..Len(vectors)}
<1>1. DOMAIN vectors = 1..Len(vectors) /\ Len(vectors) \in Nat /\ r \in Requests
  BY DEF Requests
<1>2. /\ DOMAIN documents' = DOMAIN documents \cup {r}
      /\ documents'[r] = [stored |-> stored, chunk_count |-> Len(vectors)]
      /\ \A d \in DOMAIN documents : documents'[d] = documents[d] /\ d # r
  BY DEF AddDocument
<1>3. IsFiniteSet(DOMAIN documents')
  BY <1>2, FS_AddElement DEF KnowledgeTypeOK
<1>4. \A c \in DOMAIN chunks : c[1] # r /\ c[1] \in DOMAIN documents
  BY <1>2 DEF ChunksInv, ChunksOf
<1>5. \A c \in new : c[1] = r /\ c \notin DOMAIN chunks
  BY <1>4
<1>6. DOMAIN chunks' = DOMAIN chunks \cup new
  BY <1>1 DEF AddDocument
<1>7. /\ \A c \in DOMAIN chunks : chunks'[c] = chunks[c]
      /\ \A i \in 1..Len(vectors) : chunks'[<<r, i>>] = [of |-> <<r, i>>, by |-> r]
  BY <1>1, <1>4 DEF AddDocument
<1>8. ChunksInv'
  <2>1. \A d \in DOMAIN documents : ChunksOf(d)' = ChunksOf(d)
    BY <1>2 DEF ChunksOf
  <2>2. ChunksOf(r)' = new
    BY <1>2 DEF ChunksOf
  <2> HIDE DEF new
  <2>3. DOMAIN chunks' = UNION {ChunksOf(d)' : d \in DOMAIN documents'}
    BY <1>2, <1>6, <2>1, <2>2 DEF ChunksInv
  <2>4. ASSUME NEW c \in DOMAIN chunks'
        PROVE  chunks'[c] \in {NoVector} \cup [of : {c}, by : Requests]
    <3>1. CASE c \in DOMAIN chunks
      BY <1>7, <3>1 DEF ChunksInv
    <3>2. CASE c \in new
      <4>1. chunks'[c] = [of |-> c, by |-> r]
        BY <1>7, <3>2 DEF new
      <4>2. QED
        BY <1>1, <4>1
    <3>3. QED
      BY <1>6, <3>1, <3>2
  <2>5. QED
    BY <2>3, <2>4 DEF ChunksInv
<1>9. QED
  BY <1>2, <1>3, <1>4, <1>5, <1>6, <1>7, <1>8

(* A vector is no NoVector.                                                *)
LEMMA VectorIsNotBlank ==
    ASSUME NEW c \in Documents \X Nat, NEW r \in Requests
    PROVE  [of |-> c, by |-> r] # NoVector
<1>1. c \in ({Old} \cup Requests) \X Nat
  BY DEF Documents, Requests
<1>2. [of |-> c, by |-> r] \in [of : ({Old} \cup Requests) \X Nat, by : Requests]
  BY <1>1
<1>3. QED
  BY <1>2, VectorAssumption

(* The vectors of a backfill go where it has found blanks, each to its own *)
(* chunk.                                                                  *)
LEMMA Filled ==
    ASSUME KnowledgeTypeOK, ChunksInv, NEW r \in Requests, VectorsInv(r), LocksInv(r),
           r \in Backfills, At(r, "writing"), Fill(r)
    PROVE  /\ DOMAIN chunks' = DOMAIN chunks
           /\ \A c \in request[r].locks :
                 /\ c \in DOMAIN chunks /\ chunks[c] = NoVector
                 /\ chunks'[c] = [of |-> c, by |-> r] /\ chunks'[c] # NoVector
           /\ \A c \in DOMAIN chunks \ request[r].locks : chunks'[c] = chunks[c]
           /\ UNCHANGED documents => ChunksInv'
<1> DEFINE doc == request[r].doc
           targets == request[r].targets
<1>1. /\ doc \in DOMAIN documents /\ doc \in Documents
      /\ \A i, j \in DOMAIN targets : i # j => targets[i] # targets[j]
      /\ \A i \in DOMAIN targets : <<doc, targets[i]>> \in ChunksOf(doc)
      /\ Blanks(doc) \subseteq {<<doc, targets[i]>> : i \in DOMAIN targets}
      /\ request[r].locks \subseteq Blanks(doc)
  BY DEF LocksInv, KnowledgeTypeOK
<1>2. /\ targets \in Seq(Nat) /\ request[r].vectors \in Seq(Documents \X Nat)
  BY DEF KnowledgeTypeOK, RequestState
<1>3. /\ DOMAIN request[r].vectors = DOMAIN targets
      /\ \A i \in DOMAIN targets : request[r].vectors[i] = <<doc, targets[i]>>
  BY <1>2 DEF VectorsInv, Sending, At
<1> HIDE DEF doc, targets
<1>4. ASSUME NEW c \in Blanks(doc)
      PROVE  VectorOf(r, c) = c /\ c \in DOMAIN chunks /\ chunks[c] = NoVector
             /\ c \in Documents \X Nat
  <2>1. PICK i \in DOMAIN targets : c = <<doc, targets[i]>>
    BY <1>1
  <2>2. c[2] = targets[i]
    BY <2>1
  <2> DEFINE k == CHOOSE k \in DOMAIN targets : targets[k] = c[2]
  <2>3. k \in DOMAIN targets /\ targets[k] = c[2]
    BY <2>2
  <2>4. VectorOf(r, c) = request[r].vectors[k]
    BY DEF VectorOf, targets
  <2> HIDE DEF k
  <2>5. VectorOf(r, c) = c
    BY <1>3, <2>1, <2>2, <2>3, <2>4
  <2>6. c \in DOMAIN chunks /\ chunks[c] = NoVector
    BY <1>1 DEF Blanks, ChunksInv
  <2>7. c \in Documents \X Nat
    BY <1>1, <1>2, <2>1
  <2>8. QED
    BY <2>5, <2>6, <2>7
<1>5. DOMAIN chunks' = DOMAIN chunks
  BY DEF Fill
<1>6. ASSUME NEW c \in request[r].locks
      PROVE  /\ c \in DOMAIN chunks /\ chunks[c] = NoVector
             /\ chunks'[c] = [of |-> c, by |-> r] /\ chunks'[c] # NoVector
  <2>1. VectorOf(r, c) = c /\ c \in DOMAIN chunks /\ chunks[c] = NoVector
        /\ c \in Documents \X Nat
    BY <1>1, <1>4
  <2>2. chunks'[c] = [of |-> c, by |-> r]
    BY <2>1 DEF Fill
  <2>3. QED
    BY <2>1, <2>2, VectorIsNotBlank
<1>7. \A c \in DOMAIN chunks \ request[r].locks : chunks'[c] = chunks[c]
  BY DEF Fill
<1>8. ASSUME UNCHANGED documents PROVE ChunksInv'
  <2>1. DOMAIN chunks' = UNION {ChunksOf(d)' : d \in DOMAIN documents'}
    BY <1>5, <1>8 DEF ChunksInv, ChunksOf
  <2>2. ASSUME NEW c \in DOMAIN chunks'
        PROVE  chunks'[c] \in {NoVector} \cup [of : {c}, by : Requests]
    <3>1. CASE c \in request[r].locks
      <4>1. chunks'[c] = [of |-> c, by |-> r]
        BY <1>6, <3>1
      <4>2. QED
        BY <4>1
    <3>2. CASE c \notin request[r].locks
      BY <1>5, <1>7, <3>2 DEF ChunksInv
    <3>3. QED
      BY <3>1, <3>2
  <2>3. QED
    BY <2>1, <2>2 DEF ChunksInv
<1>9. QED
  BY <1>5, <1>6, <1>7, <1>8

-----------------------------------------------------------------------------
(* The record of a request after its own step.                             *)
Becomes(r, v) == v \in RequestState /\ request' = [request EXCEPT ![r] = v]

LEMMA BecomesValue ==
    ASSUME KnowledgeTypeOK, NEW r \in Requests, NEW v, Becomes(r, v)
    PROVE  /\ request'[r] = v
           /\ \A s \in Requests \ {r} : request'[s] = request[s]
           /\ request' \in [Requests -> RequestState]
  BY DEF Becomes, KnowledgeTypeOK

LEMMA IdleState == Idle \in RequestState
<1>1. /\ 0 \in 0..MaxRetries /\ Old \in Documents
      /\ {} \in SUBSET (Documents \X Nat)
  BY EmbeddingAssumption DEF Documents
<1>2. <<>> \in Seq([char_start : Nat, char_end : Nat])
  OBVIOUS
<1>3. <<>> \in Seq(Nat) /\ <<>> \in Seq(Documents \X Nat)
  OBVIOUS
<1>4. QED
  BY <1>1, <1>2, <1>3 DEF Idle, RequestState

(* A request that has done its work keeps its answer and nothing else.     *)
Done(v) ==
    /\ v.phase \in {"answered", "dead", "committed"}
    /\ v.targets = <<>> /\ v.vectors = <<>> /\ v.tries = 0 /\ v.calls = 0 /\ v.locks = {}

OwnInv(r) == PhaseInv(r) /\ VectorsInv(r) /\ CallsInv(r) /\ LocksInv(r)

NoCallsYet(v) == v.targets = <<>> /\ v.vectors = <<>> /\ v.calls = 0 /\ v.tries = 0

CallsFrom(n, l, tries, calls, k) ==
    k \in 0..Batches(n) /\ l = Min({k * BatchSize, n}) /\ calls <= tries * Batches(n) + k

LEMMA CallsValue ==
    ASSUME NEW r \in Requests
    PROVE  CallsInv(r) <=> \E k : CallsFrom(Len(request[r].targets), Len(request[r].vectors),
                                           request[r].tries, request[r].calls, k)
  BY DEF CallsInv, CallsFrom

LEMMA NoCallsSound ==
    ASSUME NEW r \in Requests, NoCallsYet(request[r])
    PROVE  CallsInv(r)
<1>1. Len(request[r].targets) = 0 /\ Len(request[r].vectors) = 0
  BY DEF NoCallsYet
<1>2. Batches(0) \in Nat /\ BatchSize \in Nat
  BY BatchesLeft, EmbeddingAssumption
<1>3. 0 \in 0..Batches(0) /\ 0 * BatchSize = 0 /\ 0 * Batches(0) + 0 = 0 /\ Min({0, 0}) = 0
  BY <1>2, SmallerOf
<1>4. CallsFrom(0, 0, 0, 0, 0)
  BY <1>2, <1>3 DEF CallsFrom
<1>5. QED
  BY <1>1, <1>4, CallsValue DEF NoCallsYet

LEMMA DoneSound ==
    ASSUME KnowledgeTypeOK, NEW r \in Requests, NEW v, Becomes(r, v), Done(v),
           v.phase = "committed" => r \in Backfills
    PROVE  OwnInv(r)'
<1>1. request'[r] = v
  BY BecomesValue
<1>2. CallsInv(r)'
  <2>1. NoCallsYet(request[r])'
    BY <1>1 DEF NoCallsYet, Done
  <2>2. QED
    BY <2>1, NoCallsSound, PTL
<1>3. PhaseInv(r)' /\ VectorsInv(r)' /\ LocksInv(r)'
  BY <1>1 DEF Done, PhaseInv, VectorsInv, LocksInv, Sending, At
<1>4. QED
  BY <1>2, <1>3 DEF OwnInv

(* Everything but the record of a request and the count of faults stays.   *)
StoredInv == \A d \in DOMAIN documents : documents[d].stored => d \in files \cup ackLost

KnowledgeSound == KnowledgeInv /\ UploadsAccounted /\ BackfillsCountOnce

Others(r) == Grows(r) /\ KnowledgeTypeOK' /\ ChunksInv' /\ StoredInv'

LEMMA QuietOthers ==
    ASSUME KnowledgeSound, NEW r \in Requests, NEW v, Becomes(r, v),
           v.locks \subseteq request[r].locks,
           UNCHANGED Frame, faults' \in 0..MaxFaults
    PROVE  Others(r)
<1>1. KnowledgeTypeOK /\ ChunksInv /\ StoredInv
  BY DEF KnowledgeSound, KnowledgeInv, UploadsAccounted, StoredInv
<1>2. Grows(r)
  BY <1>1, GrowsWithout DEF Becomes
<1>3. KnowledgeTypeOK'
  BY <1>1, BecomesValue DEF KnowledgeTypeOK, Frame
<1>4. ChunksInv'
  BY <1>1 DEF ChunksInv, ChunksOf, Frame
<1>5. StoredInv'
  BY <1>1 DEF StoredInv, Frame
<1>6. QED
  BY <1>2, <1>3, <1>4, <1>5 DEF Others

(* A reply is the record of a request that has ended.                      *)
LEMMA ReplyDone ==
    ASSUME KnowledgeTypeOK, NEW r \in Requests,
           NEW status \in Nat, NEW total \in Nat, NEW embedded \in Nat,
           Reply(r, status, total, embedded)
    PROVE  \E v : /\ Becomes(r, v) /\ Done(v) /\ v.phase = "answered" /\ v.doc = request[r].doc
                  /\ v.status = status /\ v.total = total /\ v.embedded = embedded
<1> DEFINE v == [Idle EXCEPT !.phase = "answered", !.doc = request[r].doc,
                             !.status = status, !.total = total, !.embedded = embedded]
<1>1. v \in RequestState
  <2>1. request[r].doc \in Documents
    BY DEF KnowledgeTypeOK, RequestState
  <2>2. QED
    BY <2>1, IdleState DEF RequestState
<1>2. request' = [request EXCEPT ![r] = v]
  BY DEF Reply
<1>3. /\ Done(v) /\ v.phase = "answered" /\ v.doc = request[r].doc
      /\ v.status = status /\ v.total = total /\ v.embedded = embedded
  BY DEF Done, Idle
<1>4. QED
  BY <1>1, <1>2, <1>3 DEF Becomes

LEMMA AnswerDone ==
    ASSUME KnowledgeTypeOK, NEW r \in Requests, NEW status \in Nat, Answer(r, status)
    PROVE  \E v : /\ Becomes(r, v) /\ Done(v) /\ v.phase = "answered" /\ v.doc = request[r].doc
                  /\ v.status = status /\ v.total = 0 /\ v.embedded = 0
  BY ReplyDone DEF Answer

-----------------------------------------------------------------------------
(* One step of r: what it leaves of the invariants of others (above), and  *)
(* of its own.                                                             *)
StepSound(r) ==
    /\ Others(r)
    /\ OwnInv(r)'
    /\ TotalsInv(r)'
    /\ r \in Uploads \cup Creates => TraceInv(r)'
    /\ r \in Backfills => WorkCounted(r)'

LEMMA SoundParts ==
    ASSUME KnowledgeSound, NEW r \in Requests
    PROVE  /\ KnowledgeTypeOK /\ ChunksInv /\ StoredInv
           /\ PhaseInv(r) /\ VectorsInv(r) /\ CallsInv(r) /\ LocksInv(r) /\ TotalsInv(r)
           /\ r \in Uploads \cup Creates => TraceInv(r)
           /\ r \in Backfills => WorkCounted(r)
           /\ faults \in 0..MaxFaults /\ request[r] \in RequestState
           /\ MaxFaults \in Nat /\ MaxRetries \in Nat
  BY EmbeddingAssumption
  DEF KnowledgeSound, KnowledgeInv, UploadsAccounted, BackfillsCountOnce, StoredInv,
      KnowledgeTypeOK

(* A backfill that has not committed has written nothing.                  *)
LEMMA QuietWork ==
    ASSUME KnowledgeSound, NEW r \in Backfills, NEW v, Becomes(r, v),
           ~At(r, "answered"), ~At(r, "dead"), ~At(r, "committed"),
           UNCHANGED <<documents, chunks>>, v.phase # "committed",
           v.phase = "answered" /\ v.status = 200 =>
               v.embedded = 0 /\ v.doc \in DOMAIN documents /\ Blanks(v.doc) = {}
    PROVE  WorkCounted(r)'
<1> DEFINE mine == {c \in DOMAIN chunks : chunks[c] # NoVector /\ chunks[c].by = r}
<1>1. r \in Requests
  BY DEF Requests
<1>2. mine = {} /\ Cardinality(mine) = 0
  <2>1. WorkCounted(r)
    BY <1>1, SoundParts
  <2>2. mine = {}
    BY <2>1 DEF WorkCounted
  <2>3. QED
    BY <2>2, FS_EmptySet
<1>3. request'[r] = v
  BY <1>1, SoundParts, BecomesValue
<1>4. mine' = mine
  OBVIOUS
<1>5. v.phase = "answered" /\ v.status = 200 => Blanks(v.doc)' = {}
  BY DEF Blanks, ChunksOf
<1>6. QED
  BY <1>2, <1>3, <1>4, <1>5 DEF WorkCounted, At

(* What one has written when it has committed it keeps, whether it answers *)
(* or dies.                                                                *)
LEMMA WorkStays ==
    ASSUME KnowledgeSound, NEW r \in Backfills, NEW v, Becomes(r, v), At(r, "committed"),
           UNCHANGED <<documents, chunks>>, v.doc = request[r].doc,
           \/ v.phase = "dead"
           \/ v.phase = "answered" /\ v.status = 200 /\ v.embedded = request[r].embedded
    PROVE  WorkCounted(r)'
<1> DEFINE mine == {c \in DOMAIN chunks : chunks[c] # NoVector /\ chunks[c].by = r}
<1>1. r \in Requests
  BY DEF Requests
<1>2. PICK doc : doc = request[r].doc
  OBVIOUS
<1>3. /\ request[r].embedded = Cardinality(mine)
      /\ doc \in DOMAIN documents /\ Blanks(doc) = {}
  BY <1>1, <1>2, SoundParts DEF WorkCounted
<1>4. request'[r] = v /\ request'[r].doc = doc
  BY <1>1, <1>2, SoundParts, BecomesValue
<1>5. mine' = mine
  OBVIOUS
<1>6. doc \in DOMAIN documents' /\ Blanks(doc)' = {}
  BY <1>3 DEF Blanks, ChunksOf
<1>7. QED
  BY <1>3, <1>4, <1>5, <1>6 DEF WorkCounted, At

(* A request that ends with an error before anything of it is stored, or   *)
(* after all of it is.                                                     *)
LEMMA Refuses ==
    ASSUME KnowledgeSound, NEW r \in Requests, NEW status \in Nat \ {200, 201},
           Answer(r, status), UNCHANGED Frame, faults' \in 0..MaxFaults,
           \/ At(r, "new") \/ At(r, "prepared") \/ At(r, "embedding")
           \/ At(r, "refreshing") /\ status = 500
    PROVE  StepSound(r)
<1>1. PICK v : /\ Becomes(r, v) /\ Done(v) /\ v.phase = "answered" /\ v.doc = request[r].doc
               /\ v.status = status /\ v.total = 0 /\ v.embedded = 0
  BY SoundParts, AnswerDone
<1>2. request'[r] = v
  BY <1>1, SoundParts, BecomesValue
<1>3. Others(r)
  BY <1>1, QuietOthers DEF Done
<1>4. OwnInv(r)'
  BY <1>1, SoundParts, DoneSound
<1>5. TotalsInv(r)'
  BY <1>1, <1>2 DEF TotalsInv, At
<1>6. r \in Uploads \cup Creates => TraceInv(r)'
  BY <1>1, <1>2, SoundParts DEF TraceInv, At, Sending, Committed, Refused, Frame
<1>7. r \in Backfills => WorkCounted(r)'
  BY <1>1, QuietWork DEF Frame, At
<1>8. QED
  BY <1>3, <1>4, <1>5, <1>6, <1>7 DEF StepSound

LEMMA StatusNumbers ==
    /\ \A error : HttpStatus(error) \in Nat \ {200, 201, 500}
    /\ \A problem \in DOMAIN Problems : Problems[problem] \in Nat \ {200, 201, 500}
  BY DEF HttpStatus, Problems

LEMMA RefuseUploadSound ==
    ASSUME KnowledgeSound, NEW r \in Requests, RefuseUpload(r)
    PROVE  StepSound(r)
<1>1. PICK problem \in DOMAIN Problems : Answer(r, Problems[problem])
  BY DEF RefuseUpload
<1>2. Problems[problem] \in Nat \ {200, 201}
  BY StatusNumbers
<1>3. At(r, "new") /\ UNCHANGED Frame /\ faults' \in 0..MaxFaults
  BY SoundParts DEF RefuseUpload, OnlyRequest, Frame
<1>4. QED
  BY <1>1, <1>2, <1>3, Refuses

LEMMA RefreshFailsSound ==
    ASSUME KnowledgeSound, NEW r \in Requests, RefreshFails(r)
    PROVE  StepSound(r)
<1>1. /\ At(r, "refreshing") /\ UNCHANGED Frame /\ faults' \in 0..MaxFaults
      /\ Answer(r, 500) /\ 500 \in Nat \ {200, 201}
  BY SoundParts DEF RefreshFails, Fault, Frame
<1>2. QED
  BY <1>1, Refuses

LEMMA CloseFailsSound ==
    ASSUME KnowledgeSound, NEW r \in Requests, CloseFails(r)
    PROVE  StepSound(r)
<1>1. /\ At(r, "embedding") /\ UNCHANGED Frame /\ faults' \in 0..MaxFaults
      /\ Answer(r, 500) /\ 500 \in Nat \ {200, 201}
  BY SoundParts DEF CloseFails, Fault, Frame
<1>2. QED
  BY <1>1, Refuses

(* The other answers.                                                      *)
LEMMA RefreshSound ==
    ASSUME KnowledgeSound, NEW r \in Requests, Refresh(r)
    PROVE  StepSound(r)
<1>1. At(r, "refreshing") /\ UNCHANGED Frame /\ faults' \in 0..MaxFaults /\ Answer(r, 201)
  BY SoundParts DEF Refresh, OnlyRequest, Frame
<1>2. PICK v : /\ Becomes(r, v) /\ Done(v) /\ v.phase = "answered" /\ v.doc = request[r].doc
               /\ v.status = 201 /\ v.total = 0 /\ v.embedded = 0
  <2>1. 201 \in Nat
    OBVIOUS
  <2>2. QED
    BY <1>1, <2>1, SoundParts, AnswerDone
<1>3. request'[r] = v
  BY <1>2, SoundParts, BecomesValue
<1>4. Others(r)
  BY <1>1, <1>2, QuietOthers DEF Done
<1>5. OwnInv(r)'
  BY <1>2, SoundParts, DoneSound
<1>6. TotalsInv(r)'
  BY <1>2, <1>3 DEF TotalsInv, At
<1>7. r \in Uploads \cup Creates => TraceInv(r)'
  BY <1>1, <1>2, <1>3, SoundParts DEF TraceInv, At, Sending, Committed, Refused, Frame
<1>8. r \in Backfills => WorkCounted(r)'
  BY <1>1, <1>2, QuietWork DEF Frame, At
<1>9. QED
  BY <1>4, <1>5, <1>6, <1>7, <1>8 DEF StepSound

LEMMA ReaderSound ==
    ASSUME KnowledgeSound, NEW r \in Readers, NEW v, Becomes(r, v), v.locks = {},
           UNCHANGED Frame, faults' \in 0..MaxFaults, OwnInv(r)', TotalsInv(r)'
    PROVE  StepSound(r)
<1>1. r \in Requests /\ r \notin Uploads \cup Creates /\ r \notin Backfills
  <2>1. r \in Requests
    BY DEF Requests
  <2>2. QED
    BY <2>1, Kinds
<1>2. Others(r)
  BY <1>1, QuietOthers
<1>3. QED
  BY <1>1, <1>2 DEF StepSound

LEMMA PageSound ==
    ASSUME KnowledgeSound, NEW r \in Readers, NEW embedded \in Nat,
           ~At(r, "new"), request[r].total <= embedded,
           Reply(r, 200, request[r].total, embedded), OnlyRequest
    PROVE  StepSound(r)
<1>1. UNCHANGED Frame /\ faults' \in 0..MaxFaults /\ r \in Requests
  <2>1. r \in Requests
    BY DEF Requests
  <2>2. QED
    BY <2>1, SoundParts DEF OnlyRequest, Frame
<1>2. request[r].total \in Nat /\ 200 \in Nat
  BY <1>1, SoundParts DEF RequestState
<1>3. PICK v : /\ Becomes(r, v) /\ Done(v) /\ v.phase = "answered"
               /\ v.total = request[r].total /\ v.embedded = embedded
  BY <1>1, <1>2, SoundParts, ReplyDone
<1>4. request'[r] = v
  BY <1>1, <1>3, SoundParts, BecomesValue
<1>5. OwnInv(r)'
  BY <1>1, <1>3, SoundParts, DoneSound
<1>6. TotalsInv(r)'
  BY <1>3, <1>4 DEF TotalsInv, At
<1>7. QED
  BY <1>1, <1>3, <1>5, <1>6, ReaderSound DEF Done

LEMMA PageDocumentsSound ==
    ASSUME KnowledgeSound, NEW r \in Requests, PageDocuments(r)
    PROVE  StepSound(r)
<1>1. r \in Readers /\ request[r].total <= Cardinality(DOMAIN documents)
  BY SoundParts DEF PageDocuments, PhaseInv, TotalsInv
<1>2. Cardinality(DOMAIN documents) \in Nat
  BY SoundParts, FS_CardinalityType DEF KnowledgeTypeOK
<1>3. QED
  BY <1>1, <1>2, PageSound DEF PageDocuments, At

(* The chunks that a list counts are those of the document.                *)
LEMMA ChunksOfDocument ==
    ASSUME KnowledgeTypeOK, ChunksInv, NEW d \in DOMAIN documents
    PROVE  /\ {c \in DOMAIN chunks : c[1] = d} = ChunksOf(d)
           /\ Cardinality(ChunksOf(d)) \in Nat
<1>1. {c \in DOMAIN chunks : c[1] = d} = ChunksOf(d)
  BY DEF ChunksInv, ChunksOf
<1>2. documents[d].chunk_count \in Nat
  BY DEF KnowledgeTypeOK
<1>3. IsFiniteSet(ChunksOf(d))
  <2> DEFINE N == documents[d].chunk_count
  <2>1. IsFiniteSet({d} \X (1..N))
    <3> HIDE DEF N
    <3>1. N \in Int
      BY <1>2 DEF N
    <3>2. IsFiniteSet(1..N)
      BY <3>1, FS_Interval
    <3>3. IsFiniteSet({d})
      BY FS_Singleton
    <3>4. QED
      BY <3>2, <3>3, FS_Product
  <2>2. ChunksOf(d) \in SUBSET ({d} \X (1..N))
    BY DEF ChunksOf
  <2> HIDE DEF N
  <2>3. QED
    BY <2>1, <2>2, FS_Subset
<1>4. QED
  BY <1>1, <1>3, FS_CardinalityType

LEMMA PageChunksSound ==
    ASSUME KnowledgeSound, NEW r \in Requests, PageChunks(r)
    PROVE  StepSound(r)
<1> DEFINE d == request[r].doc
<1>1. r \in Readers /\ d \in DOMAIN documents /\ request[r].total = Cardinality(ChunksOf(d))
  BY SoundParts DEF PageChunks, PhaseInv, TotalsInv
<1>2. /\ {c \in DOMAIN chunks : c[1] = d} = ChunksOf(d)
      /\ Cardinality(ChunksOf(d)) \in Nat
  BY <1>1, SoundParts, ChunksOfDocument
<1>3. Reply(r, 200, request[r].total, Cardinality(ChunksOf(d))) /\ OnlyRequest /\ ~At(r, "new")
  BY <1>2 DEF PageChunks, At
<1>4. request[r].total <= Cardinality(ChunksOf(d))
  BY <1>1, <1>2
<1>5. QED
  BY <1>1, <1>2, <1>3, <1>4, PageSound

LEMMA CountDocumentsSound ==
    ASSUME KnowledgeSound, NEW r \in Requests, CountDocuments(r)
    PROVE  StepSound(r)
<1> DEFINE n == Cardinality(DOMAIN documents)
           v == [request[r] EXCEPT !.phase = "paging", !.total = n]
<1>1. r \in Readers /\ UNCHANGED Frame /\ faults' \in 0..MaxFaults /\ request[r] = Idle
  BY SoundParts DEF CountDocuments, OnlyRequest, Frame, PhaseInv
<1>2. n \in Nat
  BY SoundParts, FS_CardinalityType DEF KnowledgeTypeOK
<1>3. Becomes(r, v)
  <2>1. v \in RequestState
    <3> HIDE DEF n
    <3>1. request[r] \in RequestState
      BY SoundParts
    <3>2. QED
      BY <1>2, <3>1 DEF RequestState
  <2>2. request' = [request EXCEPT ![r] = v]
    BY SoundParts DEF CountDocuments, KnowledgeTypeOK
  <2>3. QED
    BY <2>1, <2>2 DEF Becomes
<1>4. v.phase = "paging" /\ v.total = n /\ NoCallsYet(v) /\ v.locks = {}
  BY <1>1 DEF Idle, NoCallsYet
<1> HIDE DEF v
<1>5. request'[r] = v
  BY <1>3, SoundParts, BecomesValue
<1>6. CallsInv(r)'
  <2>1. NoCallsYet(request[r])'
    BY <1>4, <1>5 DEF NoCallsYet
  <2>2. QED
    BY <2>1, NoCallsSound, PTL
<1>7. OwnInv(r)'
  BY <1>1, <1>4, <1>5, <1>6 DEF OwnInv, PhaseInv, VectorsInv, LocksInv, Sending, At
<1>8. TotalsInv(r)'
  <2>1. n' = n
    BY <1>1 DEF Frame
  <2>2. n <= n
    BY <1>2
  <2>3. QED
    BY <1>4, <1>5, <2>1, <2>2 DEF TotalsInv, At
<1>9. QED
  BY <1>1, <1>3, <1>4, <1>7, <1>8, ReaderSound

LEMMA CountChunksSound ==
    ASSUME KnowledgeSound, NEW r \in Requests, CountChunks(r)
    PROVE  StepSound(r)
<1>1. r \in Readers /\ At(r, "new") /\ UNCHANGED Frame /\ faults' \in 0..MaxFaults
      /\ request[r] = Idle
  BY SoundParts DEF CountChunks, OnlyRequest, Frame, PhaseInv
<1>2. PICK d \in {Old} \cup Uploads :
          IF d \in DOMAIN documents
          THEN request' = [request EXCEPT
                  ![r].phase = "paging_chunks", ![r].doc = d,
                  ![r].total = Cardinality({c \in DOMAIN chunks : c[1] = d})]
          ELSE Answer(r, 404)
  BY DEF CountChunks
<1>3. CASE d \notin DOMAIN documents
  <2>1. Answer(r, 404) /\ 404 \in Nat \ {200, 201}
    BY <1>2, <1>3
  <2>2. QED
    BY <1>1, <2>1, Refuses
<1>4. CASE d \in DOMAIN documents
  <2> DEFINE n == Cardinality(ChunksOf(d))
             v == [request[r] EXCEPT !.phase = "paging_chunks", !.doc = d, !.total = n]
  <2>1. /\ {c \in DOMAIN chunks : c[1] = d} = ChunksOf(d)
        /\ n \in Nat
    BY <1>4, SoundParts, ChunksOfDocument
  <2>2. Becomes(r, v)
    <3>1. v \in RequestState
      <4> HIDE DEF n
      <4>1. request[r] \in RequestState /\ d \in Documents
        BY SoundParts DEF Documents
      <4>2. QED
        BY <2>1, <4>1 DEF RequestState
    <3>2. request' = [request EXCEPT ![r] = v]
      <4>1. request' = [request EXCEPT ![r].phase = "paging_chunks", ![r].doc = d,
                                       ![r].total = n]
        BY <1>2, <1>4, <2>1
      <4> HIDE DEF n
      <4>2. QED
        BY <4>1, SoundParts DEF KnowledgeTypeOK
    <3>3. QED
      BY <3>1, <3>2 DEF Becomes
  <2>3. v.phase = "paging_chunks" /\ v.doc = d /\ v.total = n /\ NoCallsYet(v) /\ v.locks = {}
    BY <1>1 DEF Idle, NoCallsYet
  <2> HIDE DEF v
  <2>4. request'[r] = v
    BY <2>2, SoundParts, BecomesValue
  <2>5. CallsInv(r)'
    <3>1. NoCallsYet(request[r])'
      BY <2>3, <2>4 DEF NoCallsYet
    <3>2. QED
      BY <3>1, NoCallsSound, PTL
  <2>6. OwnInv(r)'
    BY <1>1, <2>3, <2>4, <2>5 DEF OwnInv, PhaseInv, VectorsInv, LocksInv, Sending, At
  <2>7. TotalsInv(r)'
    <3>1. n' = n /\ d \in DOMAIN documents'
      BY <1>1, <1>4 DEF Frame, ChunksOf
    <3>2. QED
      BY <2>3, <2>4, <3>1 DEF TotalsInv, At
  <2>8. QED
    BY <1>1, <2>2, <2>3, <2>6, <2>7, ReaderSound
<1>5. QED
  BY <1>3, <1>4

LEMMA AnsweredState ==
    ASSUME NEW d \in Documents, NEW total \in Nat
    PROVE  [Idle EXCEPT !.phase = "answered", !.doc = d, !.status = 200, !.total = total]
               \in RequestState
<1>1. ASSUME NEW status \in Nat
      PROVE  [Idle EXCEPT !.phase = "answered", !.doc = d, !.status = status, !.total = total]
                 \in RequestState
  BY IdleState DEF RequestState
<1>2. 200 \in Nat
  OBVIOUS
<1>3. QED
  BY <1>1, <1>2

LEMMA BackfillNothingSound ==
    ASSUME KnowledgeSound, NEW r \in Requests, BackfillNothing(r)
    PROVE  StepSound(r)
<1>1. r \in Backfills /\ At(r, "new") /\ UNCHANGED Frame /\ faults' \in 0..MaxFaults
  BY SoundParts DEF BackfillNothing, OnlyRequest, Frame
<1>2. PICK d \in {Old} \cup Uploads :
          IF d \in DOMAIN documents
          THEN /\ Blanks(d) = {}
               /\ request' = [request EXCEPT ![r] =
                     [Idle EXCEPT !.phase = "answered", !.doc = d, !.status = 200,
                                  !.total = documents[d].chunk_count]]
          ELSE Answer(r, 404)
  BY DEF BackfillNothing
<1>3. CASE d \notin DOMAIN documents
  <2>1. Answer(r, 404) /\ 404 \in Nat \ {200, 201}
    BY <1>2, <1>3
  <2>2. QED
    BY <1>1, <2>1, Refuses
<1>4. CASE d \in DOMAIN documents
  <2> DEFINE n == documents[d].chunk_count
             v == [Idle EXCEPT !.phase = "answered", !.doc = d, !.status = 200, !.total = n]
  <2>1. Becomes(r, v)
    <3>1. n \in Nat /\ d \in Documents
      BY <1>4, SoundParts DEF KnowledgeTypeOK
    <3>2. v \in RequestState
      <4> HIDE DEF n
      <4>1. QED
        BY <3>1, AnsweredState
    <3>3. QED
      BY <1>2, <1>4, <3>2 DEF Becomes
  <2>2. /\ Done(v) /\ v.phase = "answered" /\ v.status = 200 /\ v.embedded = 0 /\ v.doc = d
    BY DEF Done, Idle
  <2> HIDE DEF v
  <2>3. request'[r] = v
    BY <2>1, SoundParts, BecomesValue
  <2>4. Others(r)
    BY <1>1, <2>1, <2>2, QuietOthers DEF Done
  <2>5. OwnInv(r)'
    BY <2>1, <2>2, SoundParts, DoneSound
  <2>6. r \notin Readers /\ r \notin Uploads \cup Creates
    BY <1>1, Kinds
  <2>7. TotalsInv(r)'
    BY <2>2, <2>3, <2>6 DEF TotalsInv, At
  <2>8. WorkCounted(r)'
    BY <1>1, <1>2, <1>4, <2>1, <2>2, QuietWork DEF Frame, At
  <2>9. QED
    BY <2>4, <2>5, <2>6, <2>7, <2>8 DEF StepSound
<1>5. QED
  BY <1>3, <1>4

LEMMA PrepareUploadSound ==
    ASSUME KnowledgeSound, NEW r \in Requests, PrepareUpload(r)
    PROVE  StepSound(r)
<1>1. r \in Uploads /\ At(r, "new") /\ UNCHANGED Frame /\ faults' \in 0..MaxFaults
      /\ request[r] = Idle
  BY SoundParts DEF PrepareUpload, OnlyRequest, Frame, PhaseInv
<1>2. PICK text \in Texts :
          request' = [request EXCEPT
              ![r] = [@ EXCEPT !.phase = "prepared", !.doc = r, !.text = text,
                               !.spans = SplitText(text)]]
  BY DEF PrepareUpload
<1> DEFINE v == [Idle EXCEPT !.phase = "prepared", !.doc = r, !.text = text,
                             !.spans = SplitText(text)]
<1>3. SplitText(text) \in Seq([char_start : Nat, char_end : Nat])
  BY TextsAssumption, SplitIsSound DEF Chunk
<1>4. Becomes(r, v)
  <2>1. r \in Documents
    BY <1>1 DEF Documents
  <2>2. v \in RequestState
    BY <1>3, <2>1, IdleState DEF RequestState
  <2>3. request' = [request EXCEPT ![r] = v]
    BY <1>1, <1>2
  <2>4. QED
    BY <2>2, <2>3 DEF Becomes
<1>5. v.phase = "prepared" /\ v.text = text /\ NoCallsYet(v) /\ v.locks = {}
  BY DEF Idle, NoCallsYet
<1>6. request'[r] = v
  BY <1>4, SoundParts, BecomesValue
<1>7. PhaseInv(r)'
  BY <1>1, <1>5, <1>6 DEF PhaseInv, At
<1> HIDE DEF v
<1>8. CallsInv(r)'
  <2>1. NoCallsYet(request[r])'
    BY <1>5, <1>6 DEF NoCallsYet
  <2>2. QED
    BY <2>1, NoCallsSound, PTL
<1>9. OwnInv(r)' /\ TotalsInv(r)'
  BY <1>5, <1>6, <1>7, <1>8 DEF OwnInv, VectorsInv, LocksInv, TotalsInv, Sending, At
<1>10. Others(r)
  BY <1>1, <1>4, <1>5, QuietOthers
<1>11. TraceInv(r)'
  BY <1>1, <1>5, <1>6, SoundParts DEF TraceInv, At, Sending, Committed, Refused, Frame
<1>12. r \notin Backfills
  BY <1>1, Kinds
<1>13. QED
  BY <1>9, <1>10, <1>11, <1>12 DEF StepSound

(* Embedding begins: with the blank chunks of a document, or all chunks of *)
(* an upload.                                                              *)
Begun(r, d, targets) ==
    [request[r] EXCEPT !.phase = "embedding", !.doc = d, !.text = <<>>, !.spans = <<>>,
                       !.targets = targets]

LEMMA BeginsWith ==
    ASSUME KnowledgeSound, NEW r \in Requests, NEW d \in Documents, NEW targets,
           StartEmbedding(r, d, targets), ~Answer(r, HttpStatus(ConfigurationError))
    PROVE  request' = [request EXCEPT ![r] = Begun(r, d, targets)]
<1>1. request' = [request EXCEPT ![r] =
            [@ EXCEPT !.phase = "embedding", !.doc = d, !.text = <<>>, !.spans = <<>>,
                      !.targets = targets]]
  BY DEF StartEmbedding
<1>2. QED
  BY <1>1, SoundParts DEF Begun, KnowledgeTypeOK

LEMMA EmbeddingBegins ==
    ASSUME KnowledgeSound, NEW r \in Requests,
           NEW d \in Documents, NEW targets \in Seq(Nat),
           request' = [request EXCEPT ![r] = Begun(r, d, targets)],
           OnlyRequest,
           \/ r \in Uploads /\ At(r, "prepared")
           \/ r \in Backfills /\ At(r, "new")
    PROVE  /\ Others(r) /\ CallsInv(r)' /\ TotalsInv(r)'
           /\ r \in Uploads \cup Creates => TraceInv(r)'
           /\ r \in Backfills => WorkCounted(r)'
           /\ PhaseInv(r)'
           /\ request'[r].phase = "embedding" /\ request'[r].doc = d
           /\ request'[r].targets = targets /\ request'[r].vectors = <<>>
           /\ request'[r].written = 0 /\ request'[r].embedded = 0 /\ request'[r].locks = {}
<1> DEFINE v == Begun(r, d, targets)
<1>1. UNCHANGED Frame /\ faults' \in 0..MaxFaults
  BY SoundParts DEF OnlyRequest, Frame
<1>2. Becomes(r, v)
  <2>1. v \in RequestState
    <3>1. request[r] \in RequestState /\ <<>> \in Seq([char_start : Nat, char_end : Nat])
      BY SoundParts
    <3>2. QED
      BY <3>1 DEF RequestState, Begun
  <2>2. QED
    BY <2>1 DEF Becomes
<1>3. /\ v.phase = "embedding" /\ v.doc = d /\ v.targets = targets /\ v.vectors = <<>>
      /\ v.tries = 0 /\ v.calls = 0 /\ v.locks = {} /\ v.written = 0 /\ v.embedded = 0
  <2>1. /\ request[r].vectors = <<>> /\ request[r].tries = 0 /\ request[r].calls = 0
        /\ request[r].locks = {} /\ request[r].written = 0 /\ request[r].embedded = 0
    <3>1. CASE At(r, "new")
      <4>1. request[r] = Idle
        BY <3>1, SoundParts DEF PhaseInv
      <4>2. QED
        BY <4>1 DEF Idle
    <3>2. CASE At(r, "prepared")
      <4>1. request[r] = [Idle EXCEPT !.phase = "prepared", !.doc = r,
                                      !.text = request[r].text,
                                      !.spans = SplitText(request[r].text)]
        BY <3>2, SoundParts DEF PhaseInv
      <4> DEFINE text == request[r].text
                 spans == SplitText(text)
      <4>2. request[r] = [Idle EXCEPT !.phase = "prepared", !.doc = r, !.text = text,
                                      !.spans = spans]
        BY <4>1
      <4> HIDE DEF text, spans
      <4>3. QED
        BY <4>2 DEF Idle
    <3>3. QED
      BY <3>1, <3>2
  <2>2. request[r] \in RequestState
    BY SoundParts
  <2>3. QED
    BY <2>1, <2>2 DEF RequestState, Begun
<1> HIDE DEF v
<1>4. request'[r] = v
  BY <1>2, SoundParts, BecomesValue
<1>5. CallsInv(r)'
  <2>1. Len(targets) \in Nat /\ Len(v.vectors) = 0
    BY <1>3
  <2>2. Batches(Len(targets)) \in Nat /\ BatchSize \in Nat
    BY <2>1, BatchesLeft, EmbeddingAssumption
  <2>3. /\ 0 \in 0..Batches(Len(targets)) /\ Min({0 * BatchSize, Len(targets)}) = 0
        /\ 0 <= 0 * Batches(Len(targets)) + 0
    <3> DEFINE B == Batches(Len(targets))
               N == Len(targets)
    <3>1. B \in Nat /\ N \in Nat
      BY <2>1, <2>2
    <3> HIDE DEF B, N
    <3>2. 0 \in 0..B /\ 0 * B + 0 = 0 /\ 0 * BatchSize = 0 /\ Min({0, N}) = 0
      BY <2>2, <3>1, SmallerOf
    <3>3. 0 * BatchSize = 0 /\ Min({0, N}) = 0
      BY <3>2
    <3>4. Min({0 * BatchSize, N}) = 0
      BY <3>3, Zenon
    <3>5. 0 <= 0 * B + 0
      BY <3>1
    <3>6. QED
      BY <3>2, <3>4, <3>5 DEF B, N
  <2>4. CallsFrom(Len(targets), 0, 0, 0, 0)
    BY <2>3 DEF CallsFrom
  <2>5. (\E k : CallsFrom(Len(request[r].targets), Len(request[r].vectors),
                          request[r].tries, request[r].calls, k))'
    BY <1>3, <1>4, <2>1, <2>4 DEF CallsFrom, Batches
  <2>6. QED
    BY <2>5, CallsValue, PTL
<1>6. PhaseInv(r)' /\ TotalsInv(r)'
  BY <1>3, <1>4 DEF PhaseInv, TotalsInv, At
<1>7. Others(r)
  BY <1>1, <1>2, <1>3, QuietOthers
<1>8. r \in Uploads \cup Creates => TraceInv(r)'
  BY <1>1, <1>3, <1>4, SoundParts DEF TraceInv, At, Sending, Committed, Refused, Frame
<1>9. r \in Backfills => WorkCounted(r)'
  BY <1>1, <1>2, <1>3, QuietWork DEF Frame, At
<1>10. QED
  BY <1>3, <1>4, <1>5, <1>6, <1>7, <1>8, <1>9

LEMMA EmbedUploadSound ==
    ASSUME KnowledgeSound, NEW r \in Requests, EmbedUpload(r)
    PROVE  StepSound(r)
<1> DEFINE targets == [i \in DOMAIN request[r].spans |-> i]
<1>1. r \in Uploads /\ At(r, "prepared") /\ OnlyRequest
      /\ request[r].text \in Texts /\ request[r].spans = SplitText(request[r].text)
  <2>1. r \in Uploads /\ At(r, "prepared") /\ OnlyRequest /\ request[r].text \in Texts
    BY SoundParts DEF EmbedUpload, PhaseInv
  <2>2. request[r] = [Idle EXCEPT !.phase = "prepared", !.doc = r, !.text = request[r].text,
                                  !.spans = SplitText(request[r].text)]
    BY <2>1, SoundParts DEF PhaseInv
  <2> DEFINE text == request[r].text
             spans == SplitText(text)
  <2>3. request[r] = [Idle EXCEPT !.phase = "prepared", !.doc = r, !.text = text,
                                  !.spans = spans]
    BY <2>2
  <2>4. request[r].spans = spans
    <3> HIDE DEF text, spans
    <3>1. QED
      BY <2>3 DEF Idle
  <2>5. QED
    BY <2>1, <2>4
<1>s. StartEmbedding(r, r, targets)
  BY DEF EmbedUpload
<1>2. CASE Answer(r, HttpStatus(ConfigurationError))
  <2>1. UNCHANGED Frame /\ faults' \in 0..MaxFaults
    BY <1>1, SoundParts DEF OnlyRequest, Frame
  <2>2. HttpStatus(ConfigurationError) \in Nat \ {200, 201}
    BY StatusNumbers
  <2>3. QED
    BY <1>1, <1>2, <2>1, <2>2, Refuses
<1>3. CASE ~Answer(r, HttpStatus(ConfigurationError))
  <2>1. targets \in Seq(Nat) /\ Len(targets) \in Sizes /\ \A i \in DOMAIN targets : targets[i] = i
    <3>1. request[r].spans \in Seq(Chunk)
      BY <1>1, TextsAssumption, SplitIsSound
    <3>2. targets \in Seq(Nat) /\ Len(targets) = Len(request[r].spans)
      BY <3>1
    <3>3. Len(request[r].spans) \in Sizes
      BY <1>1 DEF Sizes
    <3>4. QED
      BY <3>2, <3>3
  <2>2. r \in Documents
    BY <1>1 DEF Documents
  <2> HIDE DEF targets
  <2>b. request' = [request EXCEPT ![r] = Begun(r, r, targets)]
    BY <1>3, <1>s, <2>2, BeginsWith
  <2>3. /\ Others(r) /\ CallsInv(r)' /\ TotalsInv(r)' /\ PhaseInv(r)'
        /\ r \in Uploads \cup Creates => TraceInv(r)'
        /\ r \in Backfills => WorkCounted(r)'
        /\ request'[r].phase = "embedding" /\ request'[r].doc = r
        /\ request'[r].targets = targets /\ request'[r].vectors = <<>>
        /\ request'[r].written = 0 /\ request'[r].embedded = 0 /\ request'[r].locks = {}
    BY <1>1, <2>1, <2>2, <2>b, EmbeddingBegins
  <2>4. VectorsInv(r)'
    <3>1. Len(request'[r].vectors) = 0 /\ DOMAIN request'[r].vectors = {} /\ Len(targets) \in Nat
      BY <2>1, <2>3
    <3>2. QED
      BY <2>1, <2>3, <3>1 DEF VectorsInv, Sending, At
  <2>5. r \notin Backfills
    BY <1>1, Kinds
  <2>6. LocksInv(r)'
    BY <2>3, <2>5 DEF LocksInv, At
  <2>7. QED
    BY <2>3, <2>4, <2>6 DEF StepSound, OwnInv
<1>4. QED
  BY <1>2, <1>3

LEMMA StartBackfillSound ==
    ASSUME KnowledgeSound, NEW r \in Requests, StartBackfill(r)
    PROVE  StepSound(r)
<1>1. r \in Backfills /\ At(r, "new") /\ OnlyRequest
  BY DEF StartBackfill
<1>2. PICK d \in DOMAIN documents : \E targets \in Targets(d) : StartEmbedding(r, d, targets)
  BY DEF StartBackfill
<1>3. PICK targets \in Targets(d) : StartEmbedding(r, d, targets)
  BY <1>2
<1>4. CASE Answer(r, HttpStatus(ConfigurationError))
  <2>1. UNCHANGED Frame /\ faults' \in 0..MaxFaults
    BY <1>1, SoundParts DEF OnlyRequest, Frame
  <2>2. HttpStatus(ConfigurationError) \in Nat \ {200, 201}
    BY StatusNumbers
  <2>3. QED
    BY <1>1, <1>4, <2>1, <2>2, Refuses
<1>5. CASE ~Answer(r, HttpStatus(ConfigurationError))
  <2>1. /\ targets \in Seq(Nat)
        /\ \A i, j \in DOMAIN targets : i # j => targets[i] # targets[j]
        /\ \A i \in DOMAIN targets : <<d, targets[i]>> \in ChunksOf(d)
        /\ Blanks(d) \subseteq {<<d, targets[i]>> : i \in DOMAIN targets}
    BY SoundParts, TargetsEnumerate
  <2>2. d \in Documents
    BY SoundParts DEF KnowledgeTypeOK
  <2>b. request' = [request EXCEPT ![r] = Begun(r, d, targets)]
    BY <1>3, <1>5, <2>2, BeginsWith
  <2>3. /\ Others(r) /\ CallsInv(r)' /\ TotalsInv(r)' /\ PhaseInv(r)'
        /\ r \in Uploads \cup Creates => TraceInv(r)'
        /\ r \in Backfills => WorkCounted(r)'
        /\ request'[r].phase = "embedding" /\ request'[r].doc = d
        /\ request'[r].targets = targets /\ request'[r].vectors = <<>>
        /\ request'[r].written = 0 /\ request'[r].embedded = 0 /\ request'[r].locks = {}
    BY <1>1, <2>1, <2>2, <2>b, EmbeddingBegins
  <2>4. r \notin Uploads
    BY <1>1, Kinds
  <2>5. VectorsInv(r)'
    <3>1. Len(request'[r].vectors) = 0 /\ DOMAIN request'[r].vectors = {} /\ Len(targets) \in Nat
      BY <2>1, <2>3
    <3>2. QED
      BY <2>3, <2>4, <3>1 DEF VectorsInv, Sending, At
  <2>6. UNCHANGED <<documents, chunks>>
    BY <1>1 DEF OnlyRequest
  <2>7. LocksInv(r)'
    <3>1. ChunksOf(d)' = ChunksOf(d) /\ Blanks(d)' = Blanks(d) /\ d \in DOMAIN documents'
      BY <2>6 DEF ChunksOf, Blanks
    <3>2. QED
      BY <2>1, <2>3, <3>1 DEF LocksInv, At
  <2>8. QED
    BY <2>3, <2>5, <2>7 DEF StepSound, OwnInv
<1>6. QED
  BY <1>4, <1>5

-----------------------------------------------------------------------------
(* The calls of the service: a batch that is answered adds to the vectors, *)
(* an error starts over or ends the request.                               *)
LEMMA CallsOfBatch ==
    ASSUME NEW n \in Nat, NEW l \in Nat, NEW tries \in Nat, NEW calls \in Nat, NEW k,
           CallsFrom(n, l, tries, calls, k), l < n
    PROVE  /\ k \in Nat /\ l = k * BatchSize /\ k + 1 <= Batches(n)
           /\ CallsFrom(n, l + Min({BatchSize, n - l}), tries, calls + 1, k + 1)
           /\ CallsFrom(n, 0, tries + 1, calls + 1, 0)
<1> DEFINE B == Batches(n)
<1>1. B \in Nat /\ BatchSize \in Nat \ {0} /\ k \in 0..B /\ k \in Nat
  BY BatchesLeft, EmbeddingAssumption DEF CallsFrom
<1>2. k * BatchSize \in Nat /\ (k + 1) * BatchSize = k * BatchSize + BatchSize
  BY <1>1
<1> DEFINE p == k * BatchSize
<1>3. l = Min({p, n}) /\ calls <= tries * B + k
  BY DEF CallsFrom
<1>4. l = p /\ p < n
  <2> HIDE DEF p
  <2>1. p \in Nat
    BY <1>2 DEF p
  <2>2. QED
    BY <1>3, <2>1, SmallerOf
<1>5. k + 1 <= B
  BY <1>1, <1>4, BatchesLeft
<1>6. l + Min({BatchSize, n - l}) = Min({(k + 1) * BatchSize, n})
  <2> HIDE DEF p
  <2>1. p \in Nat /\ n - l \in Nat /\ p + BatchSize \in Nat
    BY <1>1, <1>2, <1>4 DEF p
  <2>2. Min({BatchSize, n - l}) = IF BatchSize <= n - l THEN BatchSize ELSE n - l
    BY <1>1, <2>1, SmallerOf
  <2>3. Min({p + BatchSize, n}) = IF p + BatchSize <= n THEN p + BatchSize ELSE n
    BY <2>1, SmallerOf
  <2>4. l + Min({BatchSize, n - l}) = Min({p + BatchSize, n})
    BY <1>1, <1>4, <2>1, <2>2, <2>3
  <2>5. (k + 1) * BatchSize = p + BatchSize
    BY <1>2 DEF p
  <2>6. QED
    BY <2>4, <2>5, Zenon
<1>7. calls + 1 <= tries * B + (k + 1)
  <2>1. tries * B \in Nat
    BY <1>1
  <2>2. QED
    BY <1>1, <1>3, <2>1
<1>8. calls + 1 <= (tries + 1) * B + 0
  <2>1. tries * B \in Nat /\ (tries + 1) * B = tries * B + B
    BY <1>1
  <2>2. QED
    BY <1>1, <1>3, <1>5, <2>1
<1>9. Min({0 * BatchSize, n}) = 0
  <2>1. 0 * BatchSize = 0 /\ Min({0, n}) = 0
    BY <1>1, SmallerOf
  <2>2. QED
    BY <2>1, Zenon
<1> HIDE DEF p
<1>10. CallsFrom(n, l + Min({BatchSize, n - l}), tries, calls + 1, k + 1)
  <2>1. k + 1 \in 0..B
    BY <1>1, <1>5
  <2>2. QED
    BY <1>6, <1>7, <2>1 DEF CallsFrom
<1>11. CallsFrom(n, 0, tries + 1, calls + 1, 0)
  <2>1. 0 \in 0..B
    BY <1>1
  <2>2. QED
    BY <1>8, <1>9, <2>1 DEF CallsFrom
<1>12. QED
  BY <1>1, <1>4, <1>5, <1>10, <1>11 DEF p

(* A step of a request that is embedding, and goes on with it.             *)
LEMMA GoesOnEmbedding ==
    ASSUME KnowledgeSound, NEW r \in Requests, At(r, "embedding"),
           NEW vectors \in Seq(Documents \X Nat), NEW tries \in 0..MaxRetries, NEW calls \in Nat,
           request' = [request EXCEPT ![r] = [request[r] EXCEPT
               !.vectors = vectors, !.tries = tries, !.calls = calls]],
           Len(vectors) <= Len(request[r].targets),
           \A i \in DOMAIN vectors : vectors[i] = <<request[r].doc, request[r].targets[i]>>,
           \E k : CallsFrom(Len(request[r].targets), Len(vectors), tries, calls, k),
           OnlyRequest
    PROVE  StepSound(r)
<1> DEFINE v == [request[r] EXCEPT !.vectors = vectors, !.tries = tries, !.calls = calls]
<1>1. UNCHANGED Frame /\ faults' \in 0..MaxFaults
  BY SoundParts DEF OnlyRequest, Frame
<1>2. request[r] \in RequestState
  BY SoundParts
<1>3. /\ v \in RequestState /\ v.phase = "embedding" /\ v.doc = request[r].doc
      /\ v.targets = request[r].targets /\ v.locks = request[r].locks
      /\ v.written = request[r].written /\ v.embedded = request[r].embedded
      /\ v.vectors = vectors /\ v.tries = tries /\ v.calls = calls
  BY <1>2 DEF RequestState, At
<1>4. Becomes(r, v)
  BY <1>3 DEF Becomes
<1> HIDE DEF v
<1>5. request'[r] = v
  BY <1>4, SoundParts, BecomesValue
<1>6. CallsInv(r)'
  <2>1. (\E k : CallsFrom(Len(request[r].targets), Len(request[r].vectors),
                          request[r].tries, request[r].calls, k))'
    BY <1>3, <1>5 DEF CallsFrom, Batches
  <2>2. QED
    BY <2>1, CallsValue, PTL
<1>7. PhaseInv(r)' /\ TotalsInv(r)'
  BY <1>3, <1>5, SoundParts DEF PhaseInv, TotalsInv, At
<1>8. VectorsInv(r)'
  BY <1>3, <1>5, SoundParts, SMTT(30) DEF VectorsInv, Sending, At
<1>9. LocksInv(r)'
  <2>1. /\ \A d : ChunksOf(d)' = ChunksOf(d) /\ Blanks(d)' = Blanks(d)
        /\ documents' = documents
    BY <1>1 DEF ChunksOf, Blanks, Frame
  <2>2. v.locks = {} /\ request[r].locks = {}
    BY <1>3, SoundParts DEF LocksInv, At
  <2>p. PICK doc, targets : doc = request[r].doc /\ targets = request[r].targets
    OBVIOUS
  <2>3. /\ request[r].written = 0 /\ request[r].embedded = 0
        /\ r \in Backfills =>
              /\ doc \in DOMAIN documents
              /\ \A i, j \in DOMAIN targets : i # j => targets[i] # targets[j]
              /\ \A i \in DOMAIN targets : <<doc, targets[i]>> \in ChunksOf(doc)
              /\ Blanks(doc) \subseteq {<<doc, targets[i]>> : i \in DOMAIN targets}
    <3>1. LocksInv(r)
      BY SoundParts
    <3>2. QED
      BY <2>p, <3>1 DEF LocksInv
  <2>4. /\ request'[r].doc = doc /\ request'[r].targets = targets
        /\ request'[r].written = 0 /\ request'[r].embedded = 0 /\ request'[r].locks = {}
        /\ request'[r].phase = "embedding"
    BY <1>3, <1>5, <2>2, <2>3, <2>p
  <2>5. r \in Backfills =>
              /\ doc \in DOMAIN documents'
              /\ \A i \in DOMAIN targets : <<doc, targets[i]>> \in ChunksOf(doc)'
              /\ Blanks(doc)' \subseteq {<<doc, targets[i]>> : i \in DOMAIN targets}
    BY <2>1, <2>3
  <2>6. QED
    BY <2>3, <2>4, <2>5 DEF LocksInv, At
<1>10. Others(r)
  BY <1>1, <1>3, <1>4, QuietOthers
<1>11. r \in Uploads \cup Creates => TraceInv(r)'
  BY <1>1, <1>3, <1>5, SoundParts DEF TraceInv, At, Sending, Committed, Refused, Frame
<1>12. r \in Backfills => WorkCounted(r)'
  BY <1>1, <1>3, <1>4, QuietWork DEF Frame, At
<1>13. QED
  BY <1>6, <1>7, <1>8, <1>9, <1>10, <1>11, <1>12 DEF StepSound, OwnInv

LEMMA RequestFields ==
    ASSUME KnowledgeTypeOK, NEW r \in Requests
    PROVE  /\ request[r].doc \in Documents /\ request[r].targets \in Seq(Nat)
           /\ request[r].vectors \in Seq(Documents \X Nat)
           /\ request[r].tries \in 0..MaxRetries /\ request[r].calls \in Nat
           /\ Len(request[r].targets) \in Nat /\ Len(request[r].vectors) \in Nat
           /\ MaxRetries \in Nat /\ request[r].tries \in Nat
<1>1. request[r] \in RequestState /\ MaxRetries \in Nat
  BY EmbeddingAssumption DEF KnowledgeTypeOK
<1>2. /\ request[r].doc \in Documents /\ request[r].targets \in Seq(Nat)
      /\ request[r].vectors \in Seq(Documents \X Nat)
      /\ request[r].tries \in 0..MaxRetries /\ request[r].calls \in Nat
  BY <1>1 DEF RequestState
<1>3. QED
  BY <1>1, <1>2

(* An error of the service.                                                *)
LEMMA RaiseSound ==
    ASSUME KnowledgeSound, NEW r \in Requests, NEW error, Embedding(r), Raise(r, error),
           OnlyRequest
    PROVE  StepSound(r)
<1>1. /\ At(r, "embedding") /\ Len(request[r].vectors) < Len(request[r].targets)
      /\ UNCHANGED Frame /\ faults' \in 0..MaxFaults
  BY SoundParts DEF Embedding, OnlyRequest, Frame
<1>2. CASE Retryable(error) /\ request[r].tries < MaxRetries
  <2>1. request[r] \in RequestState /\ request \in [Requests -> RequestState]
    BY SoundParts DEF KnowledgeTypeOK
  <2>2. PICK tries, calls, n, l :
            /\ tries = request[r].tries /\ calls = request[r].calls
            /\ n = Len(request[r].targets) /\ l = Len(request[r].vectors)
    OBVIOUS
  <2>3. /\ tries \in Nat /\ tries + 1 \in 0..MaxRetries /\ calls \in Nat /\ calls + 1 \in Nat
        /\ n \in Nat /\ l \in Nat /\ l < n
    <3>1. /\ tries \in Nat /\ calls \in Nat /\ n \in Nat /\ l \in Nat /\ MaxRetries \in Nat
      BY <2>2, SoundParts, RequestFields
    <3>2. QED
      BY <1>1, <1>2, <2>2, <3>1
  <2>4. request' = [request EXCEPT ![r] = [request[r] EXCEPT
            !.vectors = <<>>, !.tries = tries + 1, !.calls = calls + 1]]
    <3>1. request' = [request EXCEPT ![r].vectors = <<>>,
                                     ![r].tries = @ + 1, ![r].calls = @ + 1]
      BY <1>2 DEF Raise
    <3>2. QED
      BY <2>1, <2>2, <3>1 DEF RequestState
  <2>5. \E k : CallsFrom(n, 0, tries + 1, calls + 1, k)
    <3>1. \E k : CallsFrom(n, l, tries, calls, k)
      BY <2>2, SoundParts, CallsValue
    <3>2. QED
      BY <2>3, <3>1, CallsOfBatch
  <2>6. <<>> \in Seq(Documents \X Nat) /\ Len(<<>>) = 0 /\ DOMAIN <<>> = {}
    OBVIOUS
  <2>7. \E k : CallsFrom(Len(request[r].targets), Len(<<>>), tries + 1, calls + 1, k)
    BY <2>2, <2>5, <2>6
  <2>8. Len(<<>>) <= Len(request[r].targets)
    BY <2>2, <2>3, <2>6
  <2>9. \A i \in DOMAIN <<>> : <<>>[i] = <<request[r].doc, request[r].targets[i]>>
    OBVIOUS
  <2>10. QED
    BY <1>1, <2>3, <2>4, <2>6, <2>7, <2>8, <2>9, GoesOnEmbedding
<1>3. CASE ~(Retryable(error) /\ request[r].tries < MaxRetries)
  <2>1. Answer(r, HttpStatus(error))
    BY <1>3 DEF Raise
  <2>2. HttpStatus(error) \in Nat \ {200, 201}
    BY StatusNumbers
  <2>3. QED
    BY <1>1, <2>1, <2>2, Refuses
<1>4. QED
  BY <1>2, <1>3

LEMMA EmbedFailsSound ==
    ASSUME KnowledgeSound, NEW r \in Requests, EmbedFails(r)
    PROVE  StepSound(r)
  BY RaiseSound DEF EmbedFails

LEMMA Joined ==
    ASSUME NEW T, NEW s \in Seq(T), NEW t \in Seq(T)
    PROVE  /\ s \o t \in Seq(T) /\ Len(s \o t) = Len(s) + Len(t)
           /\ DOMAIN (s \o t) = 1..(Len(s) + Len(t))
           /\ \A i \in 1..Len(s) : (s \o t)[i] = s[i]
           /\ \A i \in 1..Len(t) : (s \o t)[Len(s) + i] = t[i]
           /\ DOMAIN s = 1..Len(s) /\ Len(s) \in Nat /\ Len(t) \in Nat
  OBVIOUS

(* The vectors that come are those of the next targets.                    *)
Follow(vectors, doc, targets) ==
    \A i \in DOMAIN vectors : vectors[i] = <<doc, targets[i]>>

Come(more, n, l, doc, targets) ==
    more = [i \in 1..n |-> more[i]] /\ \A i \in 1..n : more[i] = <<doc, targets[l + i]>>

LEMMA Appended ==
    ASSUME NEW doc \in Documents, NEW targets \in Seq(Nat), NEW old \in Seq(Documents \X Nat),
           NEW n \in Nat, n <= Len(targets) - Len(old),
           Follow(old, doc, targets), NEW more, Come(more, n, Len(old), doc, targets)
    PROVE  /\ old \o more \in Seq(Documents \X Nat) /\ Len(old \o more) = Len(old) + n
           /\ Len(old \o more) <= Len(targets)
           /\ Follow(old \o more, doc, targets)
<1> DEFINE vectors == old \o more
           D == Documents
<1>0. /\ \A i \in DOMAIN old : old[i] = <<doc, targets[i]>>
      /\ more = [i \in 1..n |-> more[i]]
      /\ \A i \in 1..n : more[i] = <<doc, targets[Len(old) + i]>>
  BY DEF Follow, Come
<1>1. Len(old) \in Nat /\ Len(targets) \in Nat /\ DOMAIN old = 1..Len(old)
  OBVIOUS
<1>2. ASSUME NEW i \in 1..n
      PROVE  more[i] \in D \X Nat
  <2>1. Len(old) + i \in 1..Len(targets)
    BY <1>1
  <2>2. targets[Len(old) + i] \in Nat
    BY <2>1
  <2>3. more[i] = <<doc, targets[Len(old) + i]>>
    BY <1>0
  <2>4. <<doc, targets[Len(old) + i]>> \in D \X Nat
    BY <2>2
  <2>5. QED
    BY <2>3, <2>4, Zenon
<1>3. more \in Seq(D \X Nat) /\ Len(more) = n
  <2>1. more \in [1..n -> D \X Nat]
    BY <1>0, <1>2
  <2>2. QED
    BY <2>1
<1>4. /\ vectors \in Seq(D \X Nat) /\ Len(vectors) = Len(old) + n
      /\ DOMAIN vectors = 1..(Len(old) + n)
      /\ \A i \in 1..Len(old) : vectors[i] = old[i]
      /\ \A i \in 1..n : vectors[Len(old) + i] = more[i]
  <2> DEFINE T == D \X Nat
  <2>1. old \in Seq(T) /\ more \in Seq(T)
    BY <1>3
  <2> HIDE DEF T
  <2>2. /\ vectors \in Seq(T) /\ Len(vectors) = Len(old) + Len(more)
        /\ DOMAIN vectors = 1..(Len(old) + Len(more))
        /\ \A i \in 1..Len(old) : vectors[i] = old[i]
        /\ \A i \in 1..Len(more) : vectors[Len(old) + i] = more[i]
    BY <2>1, Joined
  <2>3. Len(more) = n
    BY <1>3
  <2> HIDE DEF vectors
  <2>4. QED
    BY <2>2, <2>3, Zenon DEF T
<1> HIDE DEF vectors
<1>5. ASSUME NEW i \in DOMAIN vectors PROVE vectors[i] = <<doc, targets[i]>>
  <2>1. CASE i \in 1..Len(old)
    <3>1. vectors[i] = old[i] /\ i \in DOMAIN old
      BY <1>1, <1>4, <2>1
    <3>2. QED
      BY <1>0, <3>1
  <2>2. CASE i \notin 1..Len(old)
    <3>0. i \in 1..(Len(old) + n)
      BY <1>4
    <3>1. i - Len(old) \in 1..n /\ Len(old) + (i - Len(old)) = i
      BY <1>1, <2>2, <3>0
    <3>2. vectors[i] = more[i - Len(old)]
      BY <1>4, <3>1
    <3>3. more[i - Len(old)] = <<doc, targets[i]>>
      BY <1>0, <3>1
    <3>4. QED
      BY <3>2, <3>3
  <2>3. QED
    BY <2>1, <2>2
<1>6. Len(vectors) <= Len(targets)
  BY <1>1, <1>4
<1>7. QED
  BY <1>4, <1>5, <1>6 DEF vectors, Follow

LEMMA EmbedBatchSound ==
    ASSUME KnowledgeSound, NEW r \in Requests, EmbedBatch(r)
    PROVE  StepSound(r)
<1> DEFINE size == Min({BatchSize, Len(request[r].targets) - Len(request[r].vectors)})
<1>1. /\ Embedding(r) /\ OnlyRequest /\ At(r, "embedding")
  BY DEF EmbedBatch, Embedding
<1>2. PICK data \in Answers(size) :
          IF Malformed(data, size) THEN Raise(r, "malformed")
          ELSE request' = [request EXCEPT
                  ![r].vectors = @ \o [i \in 1..size |->
                             <<request[r].doc,
                               request[r].targets[Len(request[r].vectors) +
                                                  Parsed(data, size)[i]]>>],
                  ![r].calls = @ + 1]
  BY DEF EmbedBatch
<1>3. CASE Malformed(data, size)
  <2>1. Raise(r, "malformed")
    BY <1>2, <1>3
  <2>2. QED
    BY <1>1, <2>1, RaiseSound
<1>4. CASE ~Malformed(data, size)
  <2>1. PICK more : more = [i \in 1..size |->
                             <<request[r].doc,
                               request[r].targets[Len(request[r].vectors) +
                                                  Parsed(data, size)[i]]>>]
    OBVIOUS
  <2>2. request' = [request EXCEPT ![r].vectors = @ \o more, ![r].calls = @ + 1]
    BY <1>2, <1>4, <2>1, Zenon
  <2>3. PICK old, targets, doc, tries, calls, n :
            /\ old = request[r].vectors /\ targets = request[r].targets /\ doc = request[r].doc
            /\ tries = request[r].tries /\ calls = request[r].calls
            /\ n = size
    OBVIOUS
  <2>4. n = Min({BatchSize, Len(targets) - Len(old)})
    BY <2>3, Zenon
  <2>5. more = [i \in 1..n |-> <<doc, targets[Len(old) + Parsed(data, n)[i]]>>]
    BY <2>1, <2>3, Zenon
  <2>6. ~Malformed(data, n) /\ data \in Answers(n)
    BY <1>4, <2>3, Zenon
  <2> HIDE DEF size
  <2>7. request[r] \in RequestState /\ request \in [Requests -> RequestState]
    BY SoundParts DEF KnowledgeTypeOK
  <2>8. /\ old \in Seq(Documents \X Nat) /\ targets \in Seq(Nat) /\ doc \in Documents
        /\ Len(old) \in Nat /\ Len(targets) \in Nat
        /\ tries \in 0..MaxRetries /\ tries \in Nat /\ calls \in Nat
    BY <2>3, SoundParts, RequestFields
  <2>9. \A i \in DOMAIN old : old[i] = <<doc, targets[i]>>
    BY <1>1, <2>3, SoundParts DEF VectorsInv, Sending
  <2>10. Len(old) < Len(targets)
    BY <1>1, <2>3 DEF Embedding
  <2>11. n \in Nat \ {0} /\ n <= Len(targets) - Len(old)
    <3>1. BatchSize \in Nat \ {0} /\ Len(targets) - Len(old) \in Nat \ {0}
      BY <2>8, <2>10, EmbeddingAssumption
    <3>2. n = IF BatchSize <= Len(targets) - Len(old) THEN BatchSize
              ELSE Len(targets) - Len(old)
      BY <2>4, <3>1, SmallerOf
    <3>3. QED
      BY <3>1, <3>2
  <2> DEFINE vectors == old \o more
  <2>12. /\ vectors \in Seq(Documents \X Nat) /\ Len(vectors) = Len(old) + n
         /\ Len(vectors) <= Len(targets)
         /\ \A i \in DOMAIN vectors : vectors[i] = <<doc, targets[i]>>
    <3>1. \A i \in 1..n : Parsed(data, n)[i] = i
      BY <2>6, <2>11, ParsedInOrder
    <3>2. more = [i \in 1..n |-> more[i]]
      BY <2>5, Zenon
    <3>3. \A i \in 1..n : more[i] = <<doc, targets[Len(old) + i]>>
      BY <2>5, <3>1, Zenon
    <3>4. n \in Nat /\ n <= Len(targets) - Len(old)
      BY <2>11
    <3>5. Come(more, n, Len(old), doc, targets) /\ Follow(old, doc, targets)
      BY <2>9, <3>2, <3>3, Zenon DEF Come, Follow
    <3>6. /\ vectors \in Seq(Documents \X Nat) /\ Len(vectors) = Len(old) + n
          /\ Len(vectors) <= Len(targets) /\ Follow(vectors, doc, targets)
      BY <2>8, <3>4, <3>5, Appended, Zenon
    <3>7. QED
      BY <3>6, Zenon DEF Follow
  <2>13. request' = [request EXCEPT ![r] = [request[r] EXCEPT
            !.vectors = vectors, !.tries = tries, !.calls = calls + 1]]
    <3> HIDE DEF vectors
    <3>1. request' = [request EXCEPT ![r].vectors = vectors, ![r].calls = calls + 1]
      BY <2>2, <2>3, <2>7 DEF vectors, RequestState
    <3>2. QED
      BY <2>3, <2>7, <3>1 DEF RequestState
  <2> HIDE DEF vectors
  <2>14. \E k : CallsFrom(Len(targets), Len(vectors), tries, calls + 1, k)
    <3>1. PICK k : CallsFrom(Len(targets), Len(old), tries, calls, k)
      BY <2>3, SoundParts, CallsValue
    <3>2. PICK N, L : N = Len(targets) /\ L = Len(old)
      OBVIOUS
    <3>3. /\ N \in Nat /\ L \in Nat /\ L < N /\ CallsFrom(N, L, tries, calls, k)
      BY <2>8, <2>10, <3>1, <3>2, Zenon
    <3>4. CallsFrom(N, L + Min({BatchSize, N - L}), tries, calls + 1, k + 1)
      <4>1. tries \in Nat /\ calls \in Nat
        BY <2>8
      <4>2. QED
        BY <3>3, <4>1, CallsOfBatch
    <3>5. Len(vectors) = L + Min({BatchSize, N - L})
      BY <2>4, <2>12, <3>2, Zenon
    <3>6. QED
      BY <3>2, <3>4, <3>5, Zenon
  <2>15. calls + 1 \in Nat
    BY <2>8
  <2>16. QED
    BY <1>1, <2>3, <2>8, <2>12, <2>13, <2>14, <2>15, GoesOnEmbedding
<1>5. QED
  BY <1>3, <1>4

-----------------------------------------------------------------------------
(* A request goes on to its next phase with what it has.                   *)
Kept(v, w) ==
    /\ v.doc = w.doc /\ v.targets = w.targets /\ v.vectors = w.vectors
    /\ v.tries = w.tries /\ v.calls = w.calls /\ v.locks = w.locks
    /\ v.written = w.written /\ v.embedded = w.embedded

LEMMA GotoKeeps ==
    ASSUME KnowledgeTypeOK, NEW r \in Requests,
           NEW phase \in {"storing", "replacing", "committing", "removing", "refreshing",
                          "writing"},
           Goto(r, phase)
    PROVE  \E v : Becomes(r, v) /\ v.phase = phase /\ Kept(v, request[r])
<1> DEFINE v == [request[r] EXCEPT !.phase = phase]
<1>1. request[r] \in RequestState /\ request \in [Requests -> RequestState]
  BY DEF KnowledgeTypeOK
<1>2. v \in RequestState /\ v.phase = phase /\ Kept(v, request[r])
  <2>1. v \in RequestState
    BY <1>1 DEF RequestState
  <2>2. v.phase = phase /\ Kept(v, request[r])
    BY <1>1 DEF RequestState, Kept
  <2>3. QED
    BY <2>1, <2>2
<1>3. request' = [request EXCEPT ![r] = v]
  BY <1>1 DEF Goto
<1>4. QED
  BY <1>2, <1>3 DEF Becomes

LEMMA CallsKept ==
    ASSUME NEW r \in Requests, CallsInv(r),
           request'[r].targets = request[r].targets, request'[r].vectors = request[r].vectors,
           request'[r].tries = request[r].tries, request'[r].calls = request[r].calls
    PROVE  CallsInv(r)'
  BY DEF CallsInv, Batches

(* An upload that has all of its vectors.                                  *)
LEMMA UploadGoesOn ==
    ASSUME KnowledgeSound, NEW r \in Uploads, Sending(r) \/ At(r, "removing"),
           Sending(r) => Len(request[r].vectors) = Len(request[r].targets),
           NEW v, Becomes(r, v), Kept(v, request[r]),
           v.phase \in {"storing", "replacing", "committing", "removing", "refreshing"},
           v.phase \in {"storing", "replacing", "committing"} => Sending(r)
    PROVE  OwnInv(r)' /\ TotalsInv(r)' /\ v.locks = {}
<1>1. r \in Requests /\ r \notin Readers /\ r \notin Backfills
  <2>1. r \in Requests
    BY DEF Requests
  <2>2. QED
    BY <2>1, Kinds
<1>2. request'[r] = v
  BY <1>1, SoundParts, BecomesValue
<1>3. v.locks = {}
  <2>1. LocksInv(r) /\ PhaseInv(r)
    BY <1>1, SoundParts
  <2>2. ~At(r, "writing")
    BY <1>1, <2>1 DEF PhaseInv
  <2>3. QED
    BY <2>1, <2>2 DEF LocksInv, Kept
<1>4. PhaseInv(r)'
  BY <1>1, <1>2 DEF PhaseInv, At
<1>5. VectorsInv(r)'
  <2>1. VectorsInv(r)
    BY <1>1, SoundParts
  <2>2. CASE Sending(r)
    BY <1>2, <2>1, <2>2 DEF VectorsInv, Sending, At, Kept
  <2>3. CASE ~Sending(r)
    BY <1>2, <2>3 DEF VectorsInv, Sending, At
  <2>4. QED
    BY <2>2, <2>3
<1>6. CallsInv(r)'
  BY <1>1, <1>2, SoundParts, CallsKept DEF Kept
<1>7. LocksInv(r)'
  BY <1>1, <1>2, <1>3 DEF LocksInv, At
<1>8. TotalsInv(r)'
  BY <1>1, <1>2 DEF TotalsInv, At
<1>9. QED
  BY <1>3, <1>4, <1>5, <1>6, <1>7, <1>8 DEF OwnInv

(* What an upload does in the upload directory.                            *)
LEMMA FileOthers ==
    ASSUME KnowledgeSound, NEW r \in Uploads, NEW v, Becomes(r, v), v.locks = {},
           UNCHANGED <<documents, chunks, ackLost>>, faults' \in 0..MaxFaults,
           files' \in {files, files \cup {r}, files \ {r}},
           temporary' \in {temporary, temporary \cup {r}, temporary \ {r}},
           uncleaned' \in {uncleaned, uncleaned \cup {r}},
           Committed(r) /\ r \notin ackLost => r \in files'
    PROVE  Others(r)
<1>1. r \in Requests /\ KnowledgeTypeOK /\ ChunksInv /\ StoredInv
  <2>1. r \in Requests
    BY DEF Requests
  <2>2. QED
    BY <2>1, SoundParts
<1>2. Grows(r)
  <2>1. \A s \in Requests \ {r} : request'[s] = request[s]
    BY <1>1, BecomesValue
  <2>2. request'[r].locks = {}
    BY <1>1, BecomesValue
  <2>3. QED
    BY <1>1, <2>1, <2>2 DEF Grows, KnowledgeTypeOK
<1>3. KnowledgeTypeOK'
  <2>1. files' \cup temporary' \cup ackLost' \cup uncleaned' \subseteq Uploads
    BY <1>1 DEF KnowledgeTypeOK
  <2>2. request' \in [Requests -> RequestState]
    BY <1>1, BecomesValue
  <2>3. QED
    BY <1>1, <2>1, <2>2 DEF KnowledgeTypeOK
<1>4. ChunksInv'
  BY <1>1 DEF ChunksInv, ChunksOf
<1>5. StoredInv'
  BY <1>1 DEF StoredInv, Committed
<1>6. QED
  BY <1>2, <1>3, <1>4, <1>5 DEF Others

LEMMA NotItsWork ==
    ASSUME NEW r \in Uploads \cup Creates
    PROVE  r \in Requests /\ r \notin Backfills /\ r \notin Readers
<1>1. r \in Requests
  BY DEF Requests
<1>2. QED
  BY <1>1, Kinds

LEMMA StoreTemporarySound ==
    ASSUME KnowledgeSound, NEW r \in Requests, StoreTemporary(r)
    PROVE  StepSound(r)
<1>1. /\ At(r, "storing") /\ r \in Uploads /\ r \notin Backfills
      /\ Len(request[r].vectors) = Len(request[r].targets)
  BY SoundParts, NotItsWork DEF StoreTemporary, PhaseInv, VectorsInv, Sending, At
<1>2. PICK v : Becomes(r, v) /\ v.phase = "replacing" /\ Kept(v, request[r])
  BY SoundParts, GotoKeeps DEF StoreTemporary
<1>3. OwnInv(r)' /\ TotalsInv(r)' /\ v.locks = {}
  BY <1>1, <1>2, UploadGoesOn DEF Sending, At
<1>4. TraceInv(r)
  BY <1>1, SoundParts
<1>5. Others(r)
  <2>1. ~Committed(r) /\ faults' \in 0..MaxFaults
    BY <1>1, <1>4, SoundParts DEF TraceInv, Sending, StoreTemporary
  <2>2. QED
    BY <1>1, <1>2, <1>3, <2>1, FileOthers DEF StoreTemporary
<1>6. request'[r] = v
  BY <1>2, SoundParts, BecomesValue
<1>7. TraceInv(r)'
  BY <1>1, <1>2, <1>4, <1>6
  DEF StoreTemporary, TraceInv, At, Sending, Committed, Refused
<1>8. QED
  BY <1>1, <1>3, <1>5, <1>7 DEF StepSound

LEMMA StoreReplaceSound ==
    ASSUME KnowledgeSound, NEW r \in Requests, StoreReplace(r)
    PROVE  StepSound(r)
<1>1. /\ At(r, "replacing") /\ r \in Uploads /\ r \notin Backfills
      /\ Len(request[r].vectors) = Len(request[r].targets)
  BY SoundParts, NotItsWork DEF StoreReplace, PhaseInv, VectorsInv, Sending, At
<1>2. PICK v : Becomes(r, v) /\ v.phase = "committing" /\ Kept(v, request[r])
  BY SoundParts, GotoKeeps DEF StoreReplace
<1>3. OwnInv(r)' /\ TotalsInv(r)' /\ v.locks = {}
  BY <1>1, <1>2, UploadGoesOn DEF Sending, At
<1>4. TraceInv(r)
  BY <1>1, SoundParts
<1>5. Others(r)
  <2>1. ~Committed(r) /\ faults' \in 0..MaxFaults
    BY <1>1, <1>4, SoundParts DEF TraceInv, Sending, StoreReplace
  <2>2. QED
    BY <1>1, <1>2, <1>3, <2>1, FileOthers DEF StoreReplace
<1>6. request'[r] = v
  BY <1>2, SoundParts, BecomesValue
<1>7. TraceInv(r)'
  BY <1>1, <1>2, <1>4, <1>6
  DEF StoreReplace, TraceInv, At, Sending, Committed, Refused
<1>8. QED
  BY <1>1, <1>3, <1>5, <1>7 DEF StepSound

LEMMA StoreFailsSound ==
    ASSUME KnowledgeSound, NEW r \in Requests, StoreFails(r)
    PROVE  StepSound(r)
<1>1. /\ At(r, "storing") \/ At(r, "replacing")
      /\ r \in Uploads /\ r \notin Backfills
  BY SoundParts, NotItsWork DEF StoreFails, PhaseInv
<1>2. PICK v : /\ Becomes(r, v) /\ Done(v) /\ v.phase = "answered" /\ v.status = 500
               /\ v.total = 0
  <2>1. 500 \in Nat
    OBVIOUS
  <2>2. QED
    BY <2>1, SoundParts, AnswerDone DEF StoreFails
<1>3. OwnInv(r)'
  BY <1>2, SoundParts, DoneSound
<1>4. TraceInv(r)
  BY <1>1, SoundParts
<1>5. Others(r)
  <2>1. ~Committed(r) /\ faults' \in 0..MaxFaults
    BY <1>1, <1>4, SoundParts DEF TraceInv, Sending, StoreFails, Fault
  <2>2. QED
    BY <1>1, <1>2, <2>1, FileOthers DEF StoreFails, Done
<1>6. request'[r] = v
  BY <1>2, SoundParts, BecomesValue
<1>7. TraceInv(r)' /\ TotalsInv(r)'
  <2>1. r \notin Readers
    BY <1>1, NotItsWork
  <2>2. TotalsInv(r)'
    BY <1>2, <1>6, <2>1 DEF TotalsInv, At
  <2>3. TraceInv(r)'
    BY <1>1, <1>2, <1>4, <1>6
    DEF StoreFails, TraceInv, At, Sending, Committed, Refused
  <2>4. QED
    BY <2>2, <2>3
<1>8. QED
  BY <1>1, <1>3, <1>5, <1>7 DEF StepSound

LEMMA RemoveFileSound ==
    ASSUME KnowledgeSound, NEW r \in Requests, RemoveFile(r)
    PROVE  StepSound(r)
<1>1. At(r, "removing") /\ r \in Uploads /\ r \notin Backfills /\ r \notin Readers
  BY SoundParts, NotItsWork DEF RemoveFile, PhaseInv
<1>2. PICK v : /\ Becomes(r, v) /\ Done(v) /\ v.phase = "answered" /\ v.status = 500
               /\ v.total = 0
  <2>1. 500 \in Nat
    OBVIOUS
  <2>2. QED
    BY <2>1, SoundParts, AnswerDone DEF RemoveFile
<1>3. OwnInv(r)'
  BY <1>2, SoundParts, DoneSound
<1>4. TraceInv(r)
  BY <1>1, SoundParts
<1>5. Others(r)
  <2>1. (Committed(r) => r \in ackLost) /\ faults' \in 0..MaxFaults
    BY <1>1, <1>4, SoundParts DEF TraceInv, RemoveFile
  <2>2. QED
    BY <1>1, <1>2, <2>1, FileOthers DEF RemoveFile, Done
<1>6. request'[r] = v
  BY <1>2, SoundParts, BecomesValue
<1>7. TotalsInv(r)'
  BY <1>1, <1>2, <1>6 DEF TotalsInv, At
<1>8. TraceInv(r)'
  BY <1>1, <1>2, <1>4, <1>6
  DEF RemoveFile, TraceInv, At, Sending, Committed, Refused
<1>9. QED
  BY <1>1, <1>3, <1>5, <1>7, <1>8 DEF StepSound

LEMMA RemoveFileFailsSound ==
    ASSUME KnowledgeSound, NEW r \in Requests, RemoveFileFails(r)
    PROVE  StepSound(r)
<1>1. At(r, "removing") /\ r \in Uploads /\ r \notin Backfills /\ r \notin Readers
  BY SoundParts, NotItsWork DEF RemoveFileFails, PhaseInv
<1>2. PICK v : /\ Becomes(r, v) /\ Done(v) /\ v.phase = "answered" /\ v.status = 500
               /\ v.total = 0
  <2>1. 500 \in Nat
    OBVIOUS
  <2>2. QED
    BY <2>1, SoundParts, AnswerDone DEF RemoveFileFails
<1>3. OwnInv(r)'
  BY <1>2, SoundParts, DoneSound
<1>4. TraceInv(r)
  BY <1>1, SoundParts
<1>5. Others(r)
  <2>1. (Committed(r) => r \in ackLost) /\ faults' \in 0..MaxFaults
    BY <1>1, <1>4, SoundParts DEF TraceInv, RemoveFileFails, Fault
  <2>2. QED
    BY <1>1, <1>2, <2>1, FileOthers DEF RemoveFileFails, Done
<1>6. request'[r] = v
  BY <1>2, SoundParts, BecomesValue
<1>7. TotalsInv(r)'
  BY <1>1, <1>2, <1>6 DEF TotalsInv, At
<1>8. TraceInv(r)'
  BY <1>1, <1>2, <1>4, <1>6
  DEF RemoveFileFails, TraceInv, At, Sending, Committed, Refused
<1>9. QED
  BY <1>1, <1>3, <1>5, <1>7, <1>8 DEF StepSound

(* A request dies: its thread may come to its end, and what it has         *)
(* committed stays.                                                        *)
LEMMA DiesSound ==
    ASSUME KnowledgeSound, NEW r \in Requests, Dies(r)
    PROVE  StepSound(r)
<1> DEFINE v == [Idle EXCEPT !.phase = "dead", !.doc = request[r].doc]
<1>1. /\ UnderWay(r) /\ faults' \in 0..MaxFaults
      /\ UNCHANGED <<documents, chunks, ackLost, uncleaned>>
      /\ UNCHANGED <<files, temporary>> \/ ThreadEnds(r)
  BY SoundParts DEF Dies, Fault
<1>2. Becomes(r, v)
  <2>1. request[r].doc \in Documents
    BY SoundParts DEF RequestState
  <2>2. v \in RequestState
    BY <2>1, IdleState DEF RequestState
  <2>3. QED
    BY <2>2 DEF Dies, Becomes
<1>3. v.phase = "dead" /\ Done(v) /\ v.doc = request[r].doc
  BY DEF Done, Idle
<1> HIDE DEF v
<1>4. request'[r] = v
  BY <1>2, SoundParts, BecomesValue
<1>5. OwnInv(r)'
  BY <1>2, <1>3, SoundParts, DoneSound
<1>6. TotalsInv(r)'
  BY <1>3, <1>4 DEF TotalsInv, At
<1>7. Others(r)
  <2>1. CASE UNCHANGED <<files, temporary>>
    BY <1>1, <1>2, <1>3, <2>1, QuietOthers DEF Done, Frame
  <2>2. CASE ThreadEnds(r)
    <3>1. r \in Uploads
      BY <2>2, SoundParts DEF ThreadEnds, PhaseInv
    <3>2. Committed(r) /\ r \notin ackLost => r \in files'
      BY <2>2, <3>1, SoundParts DEF ThreadEnds, TraceInv
    <3>3. /\ files' \in {files, files \cup {r}, files \ {r}}
          /\ temporary' \in {temporary, temporary \cup {r}, temporary \ {r}}
      BY <2>2 DEF ThreadEnds
    <3>4. QED
      BY <1>1, <1>2, <1>3, <3>1, <3>2, <3>3, FileOthers DEF Done
  <2>3. QED
    BY <1>1, <2>1, <2>2
<1>8. ASSUME r \in Uploads \cup Creates PROVE TraceInv(r)'
  <2>1. TraceInv(r)
    BY <1>8, SoundParts
  <2>2. r \notin uncleaned
    BY <1>1, <2>1 DEF TraceInv, UnderWay, At
  <2>3. QED
    BY <1>1, <1>3, <1>4, <2>2 DEF TraceInv, At, Sending, Committed, Refused
<1>9. ASSUME r \in Backfills PROVE WorkCounted(r)'
  <2>1. CASE At(r, "committed")
    BY <1>1, <1>2, <1>3, <1>9, <2>1, WorkStays
  <2>2. CASE ~At(r, "committed")
    BY <1>1, <1>2, <1>3, <1>9, <2>2, QuietWork DEF At, UnderWay
  <2>3. QED
    BY <2>1, <2>2
<1>10. QED
  BY <1>5, <1>6, <1>7, <1>8, <1>9 DEF StepSound

-----------------------------------------------------------------------------
(* The rows of a document are committed, with all of its vectors.          *)
LEMMA RowsOthers ==
    ASSUME KnowledgeSound, NEW r \in Uploads \cup Creates, ~Committed(r),
           NEW v, Becomes(r, v), v.locks = {}, NEW stored \in BOOLEAN,
           NEW vectors \in Seq(Documents \X Nat), \A i \in DOMAIN vectors : vectors[i] = <<r, i>>,
           AddDocument(r, stored, vectors),
           UNCHANGED <<files, temporary, uncleaned>>, faults' \in 0..MaxFaults,
           ackLost' \in {ackLost, ackLost \cup {r}}, ackLost' \subseteq Uploads,
           stored => r \in files \cup ackLost'
    PROVE  Others(r) /\ Committed(r)'
<1>1. r \in Requests /\ KnowledgeTypeOK /\ ChunksInv /\ StoredInv /\ r \in Documents
  <2>1. r \in Documents
    BY DEF Documents
  <2>2. QED
    BY <2>1, NotItsWork, SoundParts
<1>2. /\ DOMAIN documents' = DOMAIN documents \cup {r}
      /\ documents'[r] = [stored |-> stored, chunk_count |-> Len(vectors)]
      /\ \A d \in DOMAIN documents : documents'[d] = documents[d] /\ d # r
      /\ IsFiniteSet(DOMAIN documents')
      /\ DOMAIN chunks' = DOMAIN chunks \cup {<<r, i>> : i \in 1..Len(vectors)}
      /\ \A c \in DOMAIN chunks : chunks'[c] = chunks[c] /\ c[1] # r
      /\ \A i \in 1..Len(vectors) :
            <<r, i>> \notin DOMAIN chunks /\ chunks'[<<r, i>>] = [of |-> <<r, i>>, by |-> r]
      /\ ChunksInv'
  BY <1>1, Added DEF Committed
<1>3. /\ request' \in [Requests -> RequestState] /\ request'[r].locks = {}
      /\ \A s \in Requests \ {r} : request'[s] = request[s]
  BY <1>1, BecomesValue
<1>4. Grows(r)
  <2>1. \A c \in DOMAIN chunks' :
            chunks'[c] # NoVector =>
               chunks'[c].by = r \/ (c \in DOMAIN chunks /\ chunks'[c] = chunks[c])
    <3>1. SUFFICES ASSUME NEW c \in DOMAIN chunks'
                   PROVE  chunks'[c].by = r \/ (c \in DOMAIN chunks /\ chunks'[c] = chunks[c])
      OBVIOUS
    <3>2. CASE c \in DOMAIN chunks
      BY <1>2, <3>2
    <3>3. CASE c \notin DOMAIN chunks
      <4>1. PICK i \in 1..Len(vectors) : c = <<r, i>>
        BY <1>2, <3>3
      <4>2. chunks'[c] = [of |-> <<r, i>>, by |-> r]
        BY <1>2, <4>1
      <4>3. QED
        BY <4>2
    <3>4. QED
      BY <3>2, <3>3
  <2>2. \A c \in DOMAIN chunks : chunks'[c] = chunks[c]
    BY <1>2
  <2>3. /\ DOMAIN documents \subseteq DOMAIN documents'
        /\ DOMAIN documents' \subseteq DOMAIN documents \cup {r}
        /\ IsFiniteSet(DOMAIN documents')
        /\ \A d \in DOMAIN documents : documents'[d] = documents[d]
        /\ DOMAIN chunks \subseteq DOMAIN chunks'
    BY <1>2
  <2>4. QED
    BY <1>3, <2>1, <2>2, <2>3 DEF Grows
<1>5. KnowledgeTypeOK'
  <2>1. Len(vectors) \in Nat
    OBVIOUS
  <2>2. \A d \in DOMAIN documents' : documents'[d] \in [stored : BOOLEAN, chunk_count : Nat]
    BY <1>1, <1>2, <2>1 DEF KnowledgeTypeOK
  <2>3. files' \cup temporary' \cup ackLost' \cup uncleaned' \subseteq Uploads
    BY <1>1 DEF KnowledgeTypeOK
  <2>4. DOMAIN documents' \subseteq Documents /\ IsFiniteSet(DOMAIN documents')
    BY <1>1, <1>2 DEF KnowledgeTypeOK
  <2>5. QED
    BY <1>3, <2>2, <2>3, <2>4 DEF KnowledgeTypeOK
<1>6. StoredInv'
  <2>1. SUFFICES ASSUME NEW d \in DOMAIN documents', documents'[d].stored
                 PROVE  d \in files' \cup ackLost'
    BY DEF StoredInv
  <2>2. CASE d = r
    <3>1. stored
      BY <1>2, <2>1, <2>2
    <3>2. QED
      BY <2>2, <3>1
  <2>3. CASE d # r
    BY <1>1, <1>2, <2>1, <2>3 DEF StoredInv
  <2>4. QED
    BY <2>2, <2>3
<1>7. QED
  BY <1>2, <1>4, <1>5, <1>6 DEF Others, Committed

LEMMA UploadVectors ==
    ASSUME KnowledgeSound, NEW r \in Uploads, At(r, "committing")
    PROVE  /\ request[r].vectors \in Seq(Documents \X Nat)
           /\ \A i \in DOMAIN request[r].vectors : request[r].vectors[i] = <<r, i>>
           /\ Len(request[r].vectors) \in Sizes
           /\ Len(request[r].vectors) = Len(request[r].targets)
           /\ ~Committed(r) /\ r \in files /\ r \notin temporary /\ r \notin uncleaned
<1>1. r \in Requests
  BY DEF Requests
<1>2. VectorsInv(r) /\ TraceInv(r)
  BY <1>1, SoundParts
<1>3. request[r].vectors \in Seq(Documents \X Nat) /\ request[r].targets \in Seq(Nat)
  BY <1>1, SoundParts, RequestFields
<1>4. /\ Len(request[r].vectors) = Len(request[r].targets)
      /\ \A i \in DOMAIN request[r].vectors :
            request[r].vectors[i] = <<request[r].doc, request[r].targets[i]>>
      /\ request[r].doc = r /\ Len(request[r].targets) \in Sizes
      /\ \A i \in DOMAIN request[r].targets : request[r].targets[i] = i
  BY <1>2 DEF VectorsInv, Sending, At
<1>5. DOMAIN request[r].vectors = DOMAIN request[r].targets
  BY <1>3, <1>4
<1>6. ~Committed(r) /\ r \in files /\ r \notin temporary /\ r \notin uncleaned
  BY <1>2 DEF TraceInv, Sending, At
<1>7. QED
  BY <1>3, <1>4, <1>5, <1>6

LEMMA CommitUploadSound ==
    ASSUME KnowledgeSound, NEW r \in Requests, CommitUpload(r)
    PROVE  StepSound(r)
<1>1. At(r, "committing") /\ r \in Uploads /\ r \notin Backfills
  BY SoundParts, NotItsWork DEF CommitUpload, PhaseInv
<1>2. PICK v : Becomes(r, v) /\ v.phase = "refreshing" /\ Kept(v, request[r])
  BY SoundParts, GotoKeeps DEF CommitUpload
<1>3. OwnInv(r)' /\ TotalsInv(r)' /\ v.locks = {}
  BY <1>1, <1>2, UploadVectors, UploadGoesOn DEF Sending, At
<1>4. Others(r) /\ Committed(r)'
  <2>1. /\ AddDocument(r, TRUE, request[r].vectors)
        /\ UNCHANGED <<files, temporary, ackLost, uncleaned>>
        /\ faults' \in 0..MaxFaults /\ ackLost' \subseteq Uploads
    BY SoundParts DEF CommitUpload, KnowledgeTypeOK
  <2>2. TRUE \in BOOLEAN /\ r \in Uploads \cup Creates
    BY <1>1
  <2>3. QED
    BY <1>1, <1>2, <1>3, <2>1, <2>2, UploadVectors, RowsOthers
<1>5. request'[r] = v
  BY <1>2, SoundParts, BecomesValue
<1>6. TraceInv(r)'
  <2>1. r \in files' /\ r \notin temporary' /\ r \notin uncleaned'
    BY <1>1, UploadVectors DEF CommitUpload
  <2>2. QED
    BY <1>2, <1>4, <1>5, <2>1 DEF TraceInv, At, Sending, Committed, Refused
<1>7. QED
  BY <1>1, <1>3, <1>4, <1>6 DEF StepSound

LEMMA CommitUploadFailsSound ==
    ASSUME KnowledgeSound, NEW r \in Requests, CommitUploadFails(r)
    PROVE  StepSound(r)
<1>1. At(r, "committing") /\ r \in Uploads /\ r \notin Backfills /\ faults' \in 0..MaxFaults
  <2>1. At(r, "committing") /\ r \in Uploads
    BY SoundParts DEF CommitUploadFails, PhaseInv
  <2>2. faults' \in 0..MaxFaults
    BY SoundParts DEF CommitUploadFails, Fault
  <2>3. QED
    BY <2>1, <2>2, NotItsWork
<1>2. PICK v : Becomes(r, v) /\ v.phase = "removing" /\ Kept(v, request[r])
  BY SoundParts, GotoKeeps DEF CommitUploadFails
<1>3. OwnInv(r)' /\ TotalsInv(r)' /\ v.locks = {}
  BY <1>1, <1>2, UploadVectors, UploadGoesOn DEF Sending, At
<1>4. request'[r] = v
  BY <1>2, SoundParts, BecomesValue
<1>5. /\ UNCHANGED <<files, temporary, uncleaned>> /\ ~Committed(r)
      /\ r \in files /\ r \notin temporary /\ r \notin uncleaned
  BY <1>1, UploadVectors DEF CommitUploadFails
<1>6. CASE UNCHANGED <<documents, chunks, ackLost>>
  <2>1. UNCHANGED Frame
    BY <1>5, <1>6 DEF Frame
  <2>2. Others(r)
    BY <1>1, <1>2, <1>3, <2>1, QuietOthers
  <2>3. TraceInv(r)'
    BY <1>2, <1>4, <1>5, <1>6 DEF TraceInv, At, Sending, Committed, Refused
  <2>4. QED
    BY <1>1, <1>3, <2>2, <2>3 DEF StepSound
<1>7. CASE AddDocument(r, TRUE, request[r].vectors) /\ ackLost' = ackLost \cup {r}
  <2>1. ackLost' \subseteq Uploads /\ TRUE \in BOOLEAN /\ r \in Uploads \cup Creates
        /\ r \in files \cup ackLost'
    BY <1>1, <1>7, SoundParts DEF KnowledgeTypeOK
  <2>2. Others(r) /\ Committed(r)'
    BY <1>1, <1>2, <1>3, <1>5, <1>7, <2>1, UploadVectors, RowsOthers
  <2>3. TraceInv(r)'
    BY <1>2, <1>4, <1>5, <1>7, <2>2 DEF TraceInv, At, Sending, Committed, Refused
  <2>4. QED
    BY <1>1, <1>3, <2>2, <2>3 DEF StepSound
<1>8. QED
  BY <1>6, <1>7 DEF CommitUploadFails

LEMMA CreateDocumentSound ==
    ASSUME KnowledgeSound, NEW r \in Requests, CreateDocument(r)
    PROVE  StepSound(r)
<1>1. /\ At(r, "new") /\ r \in Creates /\ r \notin Backfills /\ r \notin Readers /\ r \notin Uploads
      /\ request[r] = Idle /\ r \in Documents
  <2>1. At(r, "new") /\ r \in Creates /\ request[r] = Idle
    BY SoundParts DEF CreateDocument, PhaseInv
  <2>2. QED
    BY <2>1, Kinds DEF Documents
<1> DEFINE v == [Idle EXCEPT !.phase = "refreshing", !.doc = r]
<1>2. Becomes(r, v)
  <2>1. v \in RequestState
    BY <1>1, IdleState DEF RequestState
  <2>2. request' = [request EXCEPT ![r] = v]
    BY <1>1, SoundParts, IdleState DEF CreateDocument, KnowledgeTypeOK, RequestState
  <2>3. QED
    BY <2>1, <2>2 DEF Becomes
<1>3. v.phase = "refreshing" /\ NoCallsYet(v) /\ v.locks = {}
  BY DEF Idle, NoCallsYet
<1> HIDE DEF v
<1>4. request'[r] = v
  BY <1>2, SoundParts, BecomesValue
<1>5. CallsInv(r)'
  <2>1. NoCallsYet(request[r])'
    BY <1>3, <1>4 DEF NoCallsYet
  <2>2. QED
    BY <2>1, NoCallsSound, PTL
<1>6. OwnInv(r)' /\ TotalsInv(r)'
  BY <1>1, <1>3, <1>4, <1>5
  DEF OwnInv, PhaseInv, VectorsInv, LocksInv, TotalsInv, Sending, At
<1>7. TraceInv(r)
  BY <1>1, SoundParts
<1>8. Others(r) /\ Committed(r)'
  <2>1. /\ ~Committed(r) /\ r \in Uploads \cup Creates /\ FALSE \in BOOLEAN
        /\ <<>> \in Seq(Documents \X Nat) /\ \A i \in DOMAIN <<>> : <<>>[i] = <<r, i>>
    BY <1>1, <1>7 DEF TraceInv
  <2>2. /\ AddDocument(r, FALSE, <<>>) /\ UNCHANGED <<files, temporary, ackLost, uncleaned>>
        /\ faults' \in 0..MaxFaults /\ ackLost' \subseteq Uploads
    BY SoundParts DEF CreateDocument, KnowledgeTypeOK
  <2>3. QED
    BY <1>2, <1>3, <2>1, <2>2, RowsOthers
<1>9. TraceInv(r)'
  <2>1. r \notin temporary' /\ r \notin uncleaned'
    BY <1>1, SoundParts DEF CreateDocument, KnowledgeTypeOK
  <2>2. QED
    BY <1>1, <1>3, <1>4, <1>8, <2>1 DEF TraceInv, At, Sending, Committed, Refused
<1>10. QED
  BY <1>1, <1>6, <1>8, <1>9 DEF StepSound

-----------------------------------------------------------------------------
(* embed_texts returns: an upload goes on to its file, a backfill writes.  *)
LEMMA EmbeddedSound ==
    ASSUME KnowledgeSound, NEW r \in Requests, Embedded(r)
    PROVE  StepSound(r)
<1>1. /\ At(r, "embedding") /\ UNCHANGED Frame /\ faults' \in 0..MaxFaults
      /\ Len(request[r].vectors) = Len(request[r].targets)
  BY SoundParts DEF Embedded, OnlyRequest, Frame
<1>2. CASE r \in Uploads
  <2>1. Goto(r, "storing") /\ r \notin Backfills
    BY <1>2, NotItsWork DEF Embedded
  <2>2. PICK v : Becomes(r, v) /\ v.phase = "storing" /\ Kept(v, request[r])
    BY <2>1, SoundParts, GotoKeeps
  <2>3. OwnInv(r)' /\ TotalsInv(r)' /\ v.locks = {}
    BY <1>1, <1>2, <2>2, UploadGoesOn DEF Sending, At
  <2>4. Others(r)
    BY <1>1, <2>2, <2>3, QuietOthers
  <2>5. request'[r] = v
    BY <2>2, SoundParts, BecomesValue
  <2>6. TraceInv(r)'
    BY <1>1, <1>2, <2>2, <2>5, SoundParts DEF TraceInv, At, Sending, Committed, Refused, Frame
  <2>7. QED
    BY <2>1, <2>3, <2>4, <2>6 DEF StepSound
<1>3. CASE r \notin Uploads
  <2>1. Goto(r, "writing") /\ r \in Backfills /\ r \notin Readers /\ r \notin Uploads \cup Creates
    <3>1. Goto(r, "writing") /\ r \in Backfills
      BY <1>1, <1>3, SoundParts DEF Embedded, PhaseInv
    <3>2. QED
      BY <3>1, Kinds
  <2>2. PICK v : Becomes(r, v) /\ v.phase = "writing" /\ Kept(v, request[r])
    BY <2>1, SoundParts, GotoKeeps
  <2>3. request'[r] = v
    BY <2>2, SoundParts, BecomesValue
  <2>4. PhaseInv(r)' /\ TotalsInv(r)'
    BY <2>1, <2>2, <2>3 DEF PhaseInv, TotalsInv, At
  <2>5. CallsInv(r)'
    BY <2>2, <2>3, SoundParts, CallsKept DEF Kept
  <2>6. VectorsInv(r)'
    <3>1. VectorsInv(r)
      BY SoundParts
    <3>2. QED
      BY <1>1, <1>3, <2>2, <2>3, <3>1 DEF VectorsInv, Sending, At, Kept
  <2>7. request[r].locks = {} /\ request[r].written = 0 /\ request[r].embedded = 0
    BY <1>1, SoundParts DEF LocksInv, At
  <2>8. LocksInv(r)'
    <3>1. PICK doc, targets : doc = request[r].doc /\ targets = request[r].targets
      OBVIOUS
    <3>2. /\ doc \in DOMAIN documents
          /\ \A i, j \in DOMAIN targets : i # j => targets[i] # targets[j]
          /\ \A i \in DOMAIN targets : <<doc, targets[i]>> \in ChunksOf(doc)
          /\ Blanks(doc) \subseteq {<<doc, targets[i]>> : i \in DOMAIN targets}
          /\ targets \in Seq(Nat)
      <4>1. LocksInv(r) /\ targets \in Seq(Nat)
        BY <3>1, SoundParts, RequestFields
      <4>2. QED
        BY <1>1, <2>1, <3>1, <4>1 DEF LocksInv
    <3>3. /\ doc \in DOMAIN documents'
          /\ \A i \in DOMAIN targets : <<doc, targets[i]>> \in ChunksOf(doc)'
          /\ Blanks(doc)' \subseteq {<<doc, targets[i]>> : i \in DOMAIN targets}
      BY <1>1, <3>2 DEF Blanks, ChunksOf, Frame
    <3>4. /\ request'[r].doc = doc /\ request'[r].targets = targets /\ request'[r].locks = {}
          /\ request'[r].written = 0 /\ request'[r].embedded = 0
          /\ request'[r].phase = "writing"
      BY <2>2, <2>3, <2>7, <3>1 DEF Kept
    <3>5. Cardinality({}) = 0 /\ IsFiniteSet({}) /\ {<<doc, targets[i]>> : i \in 1..0} = {}
          /\ 0 <= Len(targets)
      BY <3>2, FS_EmptySet
    <3>6. QED
      BY <2>1, <3>2, <3>3, <3>4, <3>5 DEF LocksInv, At
  <2>9. Others(r)
    BY <1>1, <2>2, <2>7, QuietOthers DEF Kept
  <2>10. WorkCounted(r)'
    BY <1>1, <2>1, <2>2, QuietWork DEF Frame, At
  <2>11. QED
    BY <2>1, <2>4, <2>5, <2>6, <2>8, <2>9, <2>10 DEF StepSound, OwnInv
<1>4. QED
  BY <1>2, <1>3

LEMMA MarkedState ==
    ASSUME NEW w \in RequestState, NEW written \in Nat,
           NEW locks \in SUBSET (Documents \X Nat), NEW embedded \in Nat
    PROVE  [w EXCEPT !.written = written, !.locks = locks, !.embedded = embedded] \in RequestState
  BY DEF RequestState

(* The next row is locked, if it is still blank.                           *)
LEMMA WriteVectorSound ==
    ASSUME KnowledgeSound, NEW r \in Requests, WriteVector(r)
    PROVE  StepSound(r)
<1>1. PICK doc, targets, done, locks, count :
          /\ doc = request[r].doc /\ targets = request[r].targets /\ done = request[r].written
          /\ locks = request[r].locks /\ count = request[r].embedded
  OBVIOUS
<1> DEFINE c == <<doc, targets[done + 1]>>
           blank == chunks[c] = NoVector
           more == IF blank THEN locks \cup {c} ELSE locks
           sum == IF blank THEN count + 1 ELSE count
           passed == {<<doc, targets[i]>> : i \in 1..done}
<1>2. /\ At(r, "writing") /\ UNCHANGED Frame /\ faults' \in 0..MaxFaults
      /\ done < Len(targets) /\ c \notin Locked(r)
  BY <1>1, SoundParts DEF WriteVector, OnlyRequest, Frame
<1>3. r \in Backfills /\ r \notin Readers /\ r \notin Uploads \cup Creates
  <2>1. r \in Backfills
    BY <1>2, SoundParts DEF PhaseInv
  <2>2. QED
    BY <2>1, Kinds
<1>4. /\ targets \in Seq(Nat) /\ doc \in Documents /\ done \in Nat /\ count \in Nat
      /\ locks \in SUBSET (Documents \X Nat) /\ request[r] \in RequestState
      /\ request \in [Requests -> RequestState]
  <2>1. request[r] \in RequestState /\ request \in [Requests -> RequestState]
    BY SoundParts DEF KnowledgeTypeOK
  <2>2. QED
    BY <1>1, <2>1 DEF RequestState
<1>5. /\ doc \in DOMAIN documents
      /\ \A i, j \in DOMAIN targets : i # j => targets[i] # targets[j]
      /\ \A i \in DOMAIN targets : <<doc, targets[i]>> \in ChunksOf(doc)
      /\ Blanks(doc) \subseteq {<<doc, targets[i]>> : i \in DOMAIN targets}
      /\ locks = passed \cap Blanks(doc) /\ IsFiniteSet(locks) /\ count = Cardinality(locks)
      /\ \A s \in Requests \ {r} : locks \cap request[s].locks = {}
  <2>1. LocksInv(r)
    BY SoundParts
  <2>2. QED
    BY <1>1, <1>2, <1>3, <2>1 DEF LocksInv
<1>6. done + 1 \in 1..Len(targets) /\ DOMAIN targets = 1..Len(targets) /\ targets[done + 1] \in Nat
  BY <1>2, <1>4
<1>7. c \in Documents \X Nat /\ c \in ChunksOf(doc) /\ (blank <=> c \in Blanks(doc))
  BY <1>4, <1>5, <1>6 DEF Blanks
<1>8. c \notin passed
  BY <1>4, <1>5, <1>6
<1>9. /\ more = (passed \cup {c}) \cap Blanks(doc) /\ more \in SUBSET (Documents \X Nat)
      /\ IsFiniteSet(more) /\ sum = Cardinality(more) /\ sum \in Nat
  <2> HIDE DEF c, passed
  <2>1. CASE blank
    <3>1. more = locks \cup {c} /\ sum = count + 1 /\ c \notin locks
      BY <1>5, <1>8, <2>1
    <3>2. more = (passed \cup {c}) \cap Blanks(doc) /\ more \in SUBSET (Documents \X Nat)
      BY <1>4, <1>5, <1>7, <2>1, <3>1
    <3>3. IsFiniteSet(more) /\ Cardinality(more) = count + 1
      <4> HIDE DEF more, sum
      <4>1. QED
        BY <1>5, <3>1, FS_AddElement
    <3>4. QED
      BY <1>4, <3>1, <3>2, <3>3
  <2>2. CASE ~blank
    <3>1. more = locks /\ sum = count
      BY <2>2
    <3>2. QED
      BY <1>4, <1>5, <1>7, <2>2, <3>1
  <2>3. QED
    BY <2>1, <2>2
<1>10. passed \cup {c} = {<<doc, targets[i]>> : i \in 1..(done + 1)}
  BY <1>4
<1> DEFINE v == [request[r] EXCEPT !.written = done + 1, !.locks = more, !.embedded = sum]
<1>11. Becomes(r, v)
  <2>1. request' = [request EXCEPT ![r].written = done + 1, ![r].locks = more,
                                   ![r].embedded = sum]
    BY <1>1, <1>4 DEF WriteVector, RequestState
  <2> HIDE DEF more, sum
  <2>2. v \in RequestState
    <3>1. done + 1 \in Nat /\ more \in SUBSET (Documents \X Nat) /\ sum \in Nat
      BY <1>4, <1>9
    <3>2. QED
      BY <1>4, <3>1, MarkedState
  <2>3. request' = [request EXCEPT ![r] = v]
    BY <1>4, <2>1 DEF RequestState
  <2>4. QED
    BY <2>2, <2>3 DEF Becomes
<1>12. /\ v.phase = "writing" /\ v.doc = doc /\ v.targets = targets /\ v.vectors = request[r].vectors
       /\ v.tries = request[r].tries /\ v.calls = request[r].calls
       /\ v.written = done + 1 /\ v.locks = more /\ v.embedded = sum
  <2> HIDE DEF more, sum
  <2>1. QED
    BY <1>1, <1>2, <1>4 DEF RequestState, At
<1>13. more \subseteq locks \cup {c}
  OBVIOUS
<1> HIDE DEF v, more, sum, c, passed
<1>14. /\ request'[r] = v /\ request' \in [Requests -> RequestState]
       /\ \A s \in Requests \ {r} : request'[s] = request[s]
  BY <1>11, SoundParts, BecomesValue
<1>15. Others(r)
  <2>1. KnowledgeTypeOK /\ ChunksInv /\ StoredInv
    BY SoundParts
  <2>2. \A l \in request'[r].locks : l \in request[r].locks \/ l \notin Locked(r)
    BY <1>1, <1>2, <1>12, <1>13, <1>14
  <2>3. Grows(r)
    BY <1>2, <1>14, <2>1, <2>2 DEF Grows, KnowledgeTypeOK, Frame
  <2>4. KnowledgeTypeOK'
    BY <1>2, <1>14, <2>1 DEF KnowledgeTypeOK, Frame
  <2>5. ChunksInv' /\ StoredInv'
    BY <1>2, <2>1 DEF ChunksInv, ChunksOf, StoredInv, Frame
  <2>6. QED
    BY <2>3, <2>4, <2>5 DEF Others
<1>16. PhaseInv(r)' /\ TotalsInv(r)'
  BY <1>3, <1>12, <1>14 DEF PhaseInv, TotalsInv, At
<1>17. CallsInv(r)'
  BY <1>1, <1>12, <1>14, SoundParts, CallsKept
<1>18. VectorsInv(r)'
  <2>1. VectorsInv(r)
    BY SoundParts
  <2>2. QED
    BY <1>1, <1>2, <1>12, <1>14, <2>1 DEF VectorsInv, Sending, At
<1>19. LocksInv(r)'
  <2>1. \A s \in Requests \ {r} : request'[r].locks \cap request'[s].locks = {}
    BY <1>2, <1>5, <1>12, <1>13, <1>14 DEF Locked
  <2>2. /\ doc \in DOMAIN documents' /\ Blanks(doc)' = Blanks(doc)
        /\ ChunksOf(doc)' = ChunksOf(doc)
    BY <1>2, <1>5 DEF Blanks, ChunksOf, Frame
  <2>3. /\ request'[r].doc = doc /\ request'[r].targets = targets /\ request'[r].locks = more
        /\ request'[r].written = done + 1 /\ request'[r].embedded = sum
        /\ request'[r].phase = "writing"
    BY <1>12, <1>14
  <2>4. more = {<<doc, targets[i]>> : i \in 1..(done + 1)} \cap Blanks(doc)'
    BY <1>9, <1>10, <2>2
  <2>5. done + 1 <= Len(targets)
    BY <1>6
  <2>6. QED
    BY <1>5, <1>9, <2>1, <2>2, <2>3, <2>4, <2>5 DEF LocksInv, At
<1>20. WorkCounted(r)'
  BY <1>2, <1>3, <1>11, <1>12, QuietWork DEF Frame, At
<1>21. QED
  BY <1>3, <1>15, <1>16, <1>17, <1>18, <1>19, <1>20 DEF StepSound, OwnInv

-----------------------------------------------------------------------------
(* What a backfill has locked is filled when it commits.                   *)
LEMMA FilledOthers ==
    ASSUME KnowledgeSound, NEW r \in Requests, Written(r), Fill(r),
           NEW v, Becomes(r, v), v.locks = {},
           UNCHANGED <<documents, files, temporary, ackLost, uncleaned>>, faults' \in 0..MaxFaults
    PROVE  Others(r)
<1>1. KnowledgeTypeOK /\ ChunksInv /\ StoredInv /\ VectorsInv(r) /\ LocksInv(r)
      /\ r \in Backfills /\ At(r, "writing")
  BY SoundParts DEF Written, PhaseInv
<1>2. /\ DOMAIN chunks' = DOMAIN chunks
      /\ \A c \in request[r].locks :
            /\ c \in DOMAIN chunks /\ chunks[c] = NoVector
            /\ chunks'[c] = [of |-> c, by |-> r] /\ chunks'[c] # NoVector
      /\ \A c \in DOMAIN chunks \ request[r].locks : chunks'[c] = chunks[c]
      /\ ChunksInv'
  BY <1>1, Filled
<1>3. /\ request'[r].locks = {} /\ request' \in [Requests -> RequestState]
      /\ \A s \in Requests \ {r} : request'[s] = request[s]
  BY <1>1, BecomesValue
<1>4. Grows(r)
  <2>1. \A c \in DOMAIN chunks :
            chunks[c] # NoVector \/ c \notin request[r].locks => chunks'[c] = chunks[c]
    BY <1>2
  <2>2. \A c \in DOMAIN chunks' :
            chunks'[c].by = r \/ (c \in DOMAIN chunks /\ chunks'[c] = chunks[c])
    <3>1. SUFFICES ASSUME NEW c \in DOMAIN chunks'
                   PROVE  chunks'[c].by = r \/ (c \in DOMAIN chunks /\ chunks'[c] = chunks[c])
      OBVIOUS
    <3>2. CASE c \in request[r].locks
      <4>1. chunks'[c] = [of |-> c, by |-> r]
        BY <1>2, <3>2
      <4>2. QED
        BY <4>1
    <3>3. CASE c \notin request[r].locks
      BY <1>2, <3>3
    <3>4. QED
      BY <3>2, <3>3
  <2>3. QED
    BY <1>1, <1>2, <1>3, <2>1, <2>2 DEF Grows, KnowledgeTypeOK
<1>5. KnowledgeTypeOK'
  BY <1>1, <1>3 DEF KnowledgeTypeOK
<1>6. StoredInv'
  BY <1>1 DEF StoredInv
<1>7. QED
  BY <1>2, <1>4, <1>5, <1>6 DEF Others

(* What it has counted is what it has filled, and nothing stays blank.     *)
LEMMA FilledAll ==
    ASSUME KnowledgeSound, NEW r \in Requests, Written(r), Fill(r), UNCHANGED documents
    PROVE  /\ request[r].doc \in DOMAIN documents'
           /\ \A c \in DOMAIN chunks' : chunks'[c] = NoVector => c \notin ChunksOf(request[r].doc)
           /\ request[r].embedded =
                 Cardinality({c \in DOMAIN chunks' : chunks'[c] # NoVector /\ chunks'[c].by = r})
           /\ documents[request[r].doc].chunk_count \in Nat
<1>1. PICK doc, targets, locks :
          doc = request[r].doc /\ targets = request[r].targets /\ locks = request[r].locks
  OBVIOUS
<1>2. KnowledgeTypeOK /\ ChunksInv /\ VectorsInv(r) /\ LocksInv(r)
      /\ r \in Backfills /\ At(r, "writing")
  BY SoundParts DEF Written, PhaseInv
<1>3. /\ DOMAIN chunks' = DOMAIN chunks
      /\ \A c \in locks :
            /\ c \in DOMAIN chunks /\ chunks[c] = NoVector
            /\ chunks'[c] = [of |-> c, by |-> r] /\ chunks'[c] # NoVector
      /\ \A c \in DOMAIN chunks \ locks : chunks'[c] = chunks[c]
  BY <1>1, <1>2, Filled
<1>4. /\ doc \in DOMAIN documents /\ request[r].embedded = Cardinality(locks)
      /\ Blanks(doc) \subseteq {<<doc, targets[i]>> : i \in DOMAIN targets}
      /\ locks = {<<doc, targets[i]>> : i \in 1..request[r].written} \cap Blanks(doc)
  BY <1>1, <1>2 DEF LocksInv
<1>5. request[r].written = Len(targets) /\ targets \in Seq(Nat)
  BY <1>1, SoundParts, RequestFields DEF Written
<1>6. locks = Blanks(doc)
  <2>1. DOMAIN targets = 1..request[r].written
    BY <1>5
  <2>2. QED
    BY <1>4, <2>1
<1>7. {c \in DOMAIN chunks : chunks[c] # NoVector /\ chunks[c].by = r} = {}
  <2>1. WorkCounted(r)
    BY <1>2, SoundParts
  <2>2. QED
    BY <1>2, <2>1 DEF WorkCounted, At
<1>8. {c \in DOMAIN chunks' : chunks'[c] # NoVector /\ chunks'[c].by = r} = locks
  <2>1. ASSUME NEW c \in locks
        PROVE  c \in DOMAIN chunks' /\ chunks'[c] # NoVector /\ chunks'[c].by = r
    <3>1. chunks'[c] = [of |-> c, by |-> r]
      BY <1>3
    <3>2. chunks'[c].by = r
      BY <3>1
    <3>3. QED
      BY <1>3, <3>2
  <2>2. ASSUME NEW c \in DOMAIN chunks', chunks'[c] # NoVector, chunks'[c].by = r
        PROVE  c \in locks
    BY <1>3, <1>7, <2>2
  <2>3. QED
    BY <2>1, <2>2
<1>9. \A c \in DOMAIN chunks' : chunks'[c] = NoVector => c \notin ChunksOf(doc)
  <2>1. SUFFICES ASSUME NEW c \in DOMAIN chunks', chunks'[c] = NoVector, c \in ChunksOf(doc)
                 PROVE  FALSE
    OBVIOUS
  <2>2. c \notin locks
    BY <1>3, <2>1
  <2>3. chunks[c] = NoVector
    BY <1>3, <2>1, <2>2
  <2>4. QED
    BY <1>6, <2>1, <2>2, <2>3 DEF Blanks
<1>10. documents[doc].chunk_count \in Nat
  BY <1>2, <1>4 DEF KnowledgeTypeOK
<1>11. QED
  BY <1>1, <1>4, <1>8, <1>9, <1>10

(* The same of its document, for what has filled.                          *)
LEMMA FilledWhole ==
    ASSUME KnowledgeSound, NEW r \in Requests, Written(r), Fill(r), UNCHANGED documents,
           ChunksInv', NEW doc, doc = request[r].doc
    PROVE  doc \in DOMAIN documents' /\ Blanks(doc)' = {}
<1>1. /\ doc \in DOMAIN documents'
      /\ \A c \in DOMAIN chunks' : chunks'[c] = NoVector => c \notin ChunksOf(doc)
  BY FilledAll
<1>2. ChunksOf(doc)' = ChunksOf(doc)
  BY DEF ChunksOf
<1>3. ChunksOf(doc)' \subseteq DOMAIN chunks'
  BY <1>1 DEF ChunksInv
<1>4. QED
  BY <1>1, <1>2, <1>3 DEF Blanks

LEMMA CommitBackfillSound ==
    ASSUME KnowledgeSound, NEW r \in Requests, CommitBackfill(r)
    PROVE  StepSound(r)
<1>1. /\ Written(r) /\ Fill(r) /\ UNCHANGED <<documents, files, temporary, ackLost, uncleaned>>
      /\ faults' \in 0..MaxFaults
  BY SoundParts DEF CommitBackfill
<1>2. r \in Backfills /\ r \notin Readers /\ r \notin Uploads \cup Creates
  <2>1. r \in Backfills
    BY SoundParts DEF CommitBackfill, Written, PhaseInv
  <2>2. QED
    BY <2>1, Kinds
<1> DEFINE v == [Idle EXCEPT !.phase = "committed", !.doc = request[r].doc,
                             !.total = documents[request[r].doc].chunk_count,
                             !.embedded = request[r].embedded]
<1>3. Becomes(r, v) /\ v.phase = "committed" /\ v.doc = request[r].doc
      /\ v.embedded = request[r].embedded /\ Done(v)
  <2>1. documents[request[r].doc].chunk_count \in Nat
    BY <1>1, FilledAll, ZenonT(30)
  <2>2. request[r].embedded \in Nat /\ request[r].doc \in Documents
    BY SoundParts DEF RequestState
  <2>3. v \in RequestState
    BY <2>1, <2>2, IdleState DEF RequestState
  <2>4. request' = [request EXCEPT ![r] = v]
    BY DEF CommitBackfill
  <2>5. QED
    BY <2>3, <2>4 DEF Becomes, Done, Idle
<1> HIDE DEF v
<1>4. request'[r] = v
  BY <1>3, SoundParts, BecomesValue
<1>5. Others(r)
  BY <1>1, <1>3, FilledOthers DEF Done
<1>6. OwnInv(r)' /\ TotalsInv(r)'
  <2>1. OwnInv(r)'
    BY <1>2, <1>3, SoundParts, DoneSound
  <2>2. TotalsInv(r)'
    BY <1>2, <1>3, <1>4 DEF TotalsInv, At
  <2>3. QED
    BY <2>1, <2>2
<1>7. WorkCounted(r)'
  <2>1. PICK doc, embedded : doc = request[r].doc /\ embedded = request[r].embedded
    OBVIOUS
  <2>2. embedded = Cardinality({c \in DOMAIN chunks' : chunks'[c] # NoVector /\ chunks'[c].by = r})
    BY <1>1, <2>1, FilledAll
  <2>3. doc \in DOMAIN documents' /\ Blanks(doc)' = {}
    BY <1>1, <1>5, <2>1, FilledWhole DEF Others
  <2>4. /\ request'[r].phase = "committed"
        /\ request'[r].doc = doc /\ request'[r].embedded = embedded
    BY <1>3, <1>4, <2>1
  <2>5. QED
    BY <2>2, <2>3, <2>4 DEF WorkCounted, At
<1>8. QED
  BY <1>2, <1>5, <1>6, <1>7 DEF StepSound

LEMMA AnswerBackfillSound ==
    ASSUME KnowledgeSound, NEW r \in Requests, AnswerBackfill(r)
    PROVE  StepSound(r)
<1>1. At(r, "committed") /\ UNCHANGED Frame /\ faults' \in 0..MaxFaults
  BY SoundParts DEF AnswerBackfill, OnlyRequest, Frame
<1>2. r \in Backfills /\ r \notin Readers /\ r \notin Uploads \cup Creates
  <2>1. r \in Backfills
    BY <1>1, SoundParts DEF PhaseInv
  <2>2. QED
    BY <2>1, Kinds
<1>3. PICK v : /\ Becomes(r, v) /\ Done(v) /\ v.phase = "answered" /\ v.doc = request[r].doc
               /\ v.status = 200 /\ v.embedded = request[r].embedded
  <2>1. 200 \in Nat /\ request[r].total \in Nat /\ request[r].embedded \in Nat
    BY SoundParts DEF RequestState
  <2>2. QED
    BY <2>1, SoundParts, ReplyDone DEF AnswerBackfill
<1>4. request'[r] = v
  BY <1>3, SoundParts, BecomesValue
<1>5. Others(r)
  BY <1>1, <1>3, QuietOthers DEF Done
<1>6. OwnInv(r)'
  BY <1>3, SoundParts, DoneSound
<1>7. TotalsInv(r)'
  BY <1>2, <1>3, <1>4 DEF TotalsInv, At
<1>8. WorkCounted(r)'
  BY <1>1, <1>2, <1>3, WorkStays DEF Frame
<1>9. QED
  BY <1>2, <1>5, <1>6, <1>7, <1>8 DEF StepSound

LEMMA CommitBackfillFailsSound ==
    ASSUME KnowledgeSound, NEW r \in Requests, CommitBackfillFails(r)
    PROVE  StepSound(r)
<1>1. /\ At(r, "writing") /\ UNCHANGED <<documents, files, temporary, ackLost, uncleaned>>
      /\ faults' \in 0..MaxFaults
      /\ UNCHANGED chunks \/ (Written(r) /\ Fill(r))
  BY SoundParts DEF CommitBackfillFails, Fault
<1>2. r \in Backfills /\ r \notin Readers /\ r \notin Uploads \cup Creates
  <2>1. r \in Backfills
    BY <1>1, SoundParts DEF PhaseInv
  <2>2. QED
    BY <2>1, Kinds
<1>3. PICK v : /\ Becomes(r, v) /\ Done(v) /\ v.phase = "answered" /\ v.status = 500
               /\ v.doc = request[r].doc
  <2>1. 500 \in Nat
    OBVIOUS
  <2>2. QED
    BY <2>1, SoundParts, AnswerDone DEF CommitBackfillFails
<1>4. request'[r] = v
  BY <1>3, SoundParts, BecomesValue
<1>5. Others(r)
  <2>1. CASE Written(r) /\ Fill(r)
    BY <1>1, <1>3, <2>1, FilledOthers DEF Done
  <2>2. CASE UNCHANGED chunks
    BY <1>1, <1>3, <2>2, QuietOthers DEF Frame, Done
  <2>3. QED
    BY <1>1, <2>1, <2>2
<1>6. OwnInv(r)' /\ TotalsInv(r)'
  <2>1. OwnInv(r)'
    BY <1>3, SoundParts, DoneSound
  <2>2. TotalsInv(r)'
    BY <1>2, <1>3, <1>4 DEF TotalsInv, At
  <2>3. QED
    BY <2>1, <2>2
<1>7. WorkCounted(r)'
  <2>1. CASE Written(r) /\ Fill(r)
    <3>1. PICK doc : doc = request[r].doc
      OBVIOUS
    <3>2. doc \in DOMAIN documents' /\ Blanks(doc)' = {}
      BY <1>1, <1>5, <2>1, <3>1, FilledWhole DEF Others
    <3>3. /\ request'[r].phase = "answered" /\ request'[r].status = 500
          /\ request'[r].doc = doc
      BY <1>3, <1>4, <3>1
    <3>4. QED
      BY <3>2, <3>3 DEF WorkCounted, At
  <2>2. CASE UNCHANGED chunks
    BY <1>1, <1>2, <1>3, <2>2, QuietWork DEF At
  <2>3. QED
    BY <1>1, <2>1, <2>2
<1>8. QED
  BY <1>2, <1>5, <1>6, <1>7 DEF StepSound

-----------------------------------------------------------------------------
(* The parts of WorkCounted by name.                                       *)
Mine(r) == {c \in DOMAIN chunks : chunks[c] # NoVector /\ chunks[c].by = r}

Complete(r) == At(r, "committed") \/ (At(r, "answered") /\ request[r].status = 200)

Counted(r) ==
    /\ Mine(r) # {} =>
          Complete(r) \/ At(r, "dead") \/ (At(r, "answered") /\ request[r].status = 500)
    /\ Complete(r) => request[r].embedded = Cardinality(Mine(r))
    /\ Complete(r) \/ Mine(r) # {} =>
          request[r].doc \in DOMAIN documents /\ Blanks(request[r].doc) = {}

LEMMA WorkValue ==
    ASSUME NEW r \in Requests
    PROVE  WorkCounted(r) <=> Counted(r)
  BY DEF WorkCounted, Counted, Mine, Complete

(* What a step of r leaves to the others.                                  *)
LEMMA OthersKeep ==
    ASSUME KnowledgeSound, NEW r \in Requests, Others(r), NEW s \in Requests, s # r
    PROVE  /\ OwnInv(s)' /\ TotalsInv(s)'
           /\ s \in Uploads \cup Creates => TraceInv(s)'
           /\ s \in Backfills => WorkCounted(s)'
<1>1. /\ request'[s] = request[s]
      /\ \A t \in Requests \ {r} : request'[t] = request[t]
      /\ \A c \in request'[r].locks : c \in request[r].locks \/ c \notin Locked(r)
      /\ DOMAIN documents \subseteq DOMAIN documents'
      /\ DOMAIN documents' \subseteq DOMAIN documents \cup {r}
      /\ IsFiniteSet(DOMAIN documents')
      /\ \A d \in DOMAIN documents : documents'[d] = documents[d]
      /\ DOMAIN chunks \subseteq DOMAIN chunks'
      /\ \A c \in DOMAIN chunks :
            chunks[c] # NoVector \/ c \notin request[r].locks => chunks'[c] = chunks[c]
      /\ \A c \in DOMAIN chunks' :
            chunks'[c] # NoVector =>
               chunks'[c].by = r \/ (c \in DOMAIN chunks /\ chunks'[c] = chunks[c])
      /\ s \in files' <=> s \in files
      /\ s \in temporary' <=> s \in temporary
      /\ s \in ackLost => s \in ackLost'
      /\ s \in uncleaned' <=> s \in uncleaned
  BY DEF Others, Grows
<1>2. /\ KnowledgeTypeOK /\ ChunksInv /\ PhaseInv(s) /\ VectorsInv(s) /\ CallsInv(s)
      /\ LocksInv(s) /\ TotalsInv(s)
  BY SoundParts
<1>3. PhaseInv(s)'
  BY <1>1, <1>2 DEF PhaseInv, At
<1>4. VectorsInv(s)'
  BY <1>1, <1>2 DEF VectorsInv, Sending, At
<1>5. CallsInv(s)'
  BY <1>1, <1>2, CallsKept
<1>6. ASSUME NEW d \in DOMAIN documents
      PROVE  ChunksOf(d)' = ChunksOf(d) /\ Blanks(d)' \subseteq Blanks(d)
  <2>1. ChunksOf(d)' = ChunksOf(d)
    BY <1>1 DEF ChunksOf
  <2>2. ChunksOf(d) \subseteq DOMAIN chunks
    BY <1>2 DEF ChunksInv
  <2>3. QED
    BY <1>1, <2>1, <2>2 DEF Blanks
<1>7. ASSUME NEW d \in DOMAIN documents, NEW c \in Blanks(d), c \notin request[r].locks
      PROVE  c \in Blanks(d)'
  <2>1. c \in ChunksOf(d) /\ chunks[c] = NoVector /\ c \in DOMAIN chunks
    BY <1>2 DEF Blanks, ChunksInv
  <2>2. QED
    BY <1>1, <1>6, <1>7, <2>1 DEF Blanks
<1>8. LocksInv(s)'
  <2>1. PICK doc, targets, locks, written :
            /\ doc = request[s].doc /\ targets = request[s].targets
            /\ locks = request[s].locks /\ written = request[s].written
    OBVIOUS
  <2>2. locks \cap request[r].locks = {}
    BY <1>2, <2>1 DEF LocksInv
  <2>3. \A t \in Requests \ {s} : locks \cap request'[t].locks = {}
    <3>1. SUFFICES ASSUME NEW t \in Requests \ {s} PROVE locks \cap request'[t].locks = {}
      OBVIOUS
    <3>2. CASE t = r
      <4>1. locks \subseteq Locked(r)
        BY <2>1 DEF Locked
      <4>2. QED
        BY <1>1, <2>2, <3>2, <4>1
    <3>3. CASE t # r
      <4>1. locks \cap request[t].locks = {}
        BY <1>2, <2>1 DEF LocksInv
      <4>2. QED
        BY <1>1, <3>3, <4>1
    <3>4. QED
      BY <3>2, <3>3
  <2>4. /\ ~At(s, "writing") => locks = {}
        /\ At(s, "embedding") => written = 0 /\ request[s].embedded = 0
        /\ s \in Backfills /\ (At(s, "embedding") \/ At(s, "writing")) =>
              /\ doc \in DOMAIN documents
              /\ \A i, j \in DOMAIN targets : i # j => targets[i] # targets[j]
              /\ \A i \in DOMAIN targets : <<doc, targets[i]>> \in ChunksOf(doc)
              /\ Blanks(doc) \subseteq {<<doc, targets[i]>> : i \in DOMAIN targets}
        /\ At(s, "writing") =>
              /\ written <= Len(targets)
              /\ locks = {<<doc, targets[i]>> : i \in 1..written} \cap Blanks(doc)
              /\ IsFiniteSet(locks)
              /\ request[s].embedded = Cardinality(locks)
    BY <1>2, <2>1 DEF LocksInv
  <2>5. s \in Backfills /\ (At(s, "embedding") \/ At(s, "writing")) =>
              /\ doc \in DOMAIN documents'
              /\ \A i \in DOMAIN targets : <<doc, targets[i]>> \in ChunksOf(doc)'
              /\ Blanks(doc)' \subseteq {<<doc, targets[i]>> : i \in DOMAIN targets}
    BY <1>1, <1>6, <2>4
  <2>6. At(s, "writing") => locks = {<<doc, targets[i]>> : i \in 1..written} \cap Blanks(doc)'
    <3>1. SUFFICES ASSUME At(s, "writing")
                   PROVE  locks = {<<doc, targets[i]>> : i \in 1..written} \cap Blanks(doc)'
      OBVIOUS
    <3>2. s \in Backfills
      BY <1>2, <3>1 DEF PhaseInv
    <3>3. /\ doc \in DOMAIN documents
          /\ locks = {<<doc, targets[i]>> : i \in 1..written} \cap Blanks(doc)
      BY <2>4, <3>1, <3>2
    <3>4. Blanks(doc)' \subseteq Blanks(doc)
      BY <1>6, <3>3
    <3>5. \A c \in locks : c \in Blanks(doc)'
      BY <1>7, <2>2, <3>3
    <3>6. QED
      BY <3>3, <3>4, <3>5
  <2>7. /\ request'[s].doc = doc /\ request'[s].targets = targets
        /\ request'[s].locks = locks /\ request'[s].written = written
        /\ request'[s].embedded = request[s].embedded
        /\ request'[s].phase = request[s].phase
    BY <1>1, <2>1
  <2>8. QED
    BY <2>3, <2>4, <2>5, <2>6, <2>7 DEF LocksInv, At
<1>9. TotalsInv(s)'
  <2>1. Cardinality(DOMAIN documents) <= Cardinality(DOMAIN documents')
        /\ Cardinality(DOMAIN documents) \in Nat /\ Cardinality(DOMAIN documents') \in Nat
    BY <1>1, <1>2, FS_Subset, FS_CardinalityType DEF KnowledgeTypeOK
  <2>2. request[s].total \in Nat
    BY SoundParts DEF RequestState
  <2>3. At(s, "paging")' => request'[s].total <= Cardinality(DOMAIN documents')
    BY <1>1, <1>2, <2>1, <2>2 DEF TotalsInv, At
  <2>4. PICK doc : doc = request[s].doc
    OBVIOUS
  <2>5. At(s, "paging_chunks")' =>
            doc \in DOMAIN documents' /\ request'[s].total = Cardinality(ChunksOf(doc)')
    BY <1>1, <1>2, <1>6, <2>4 DEF TotalsInv, At
  <2>6. request'[s].doc = doc
    BY <1>1, <2>4
  <2>7. s \in Readers /\ At(s, "answered")' => request'[s].total <= request'[s].embedded
    BY <1>1, <1>2 DEF TotalsInv, At
  <2>8. QED
    BY <2>3, <2>5, <2>6, <2>7 DEF TotalsInv, At
<1>10. ASSUME s \in Uploads \cup Creates PROVE TraceInv(s)'
  <2>1. TraceInv(s)
    BY <1>10, SoundParts
  <2>2. s \in DOMAIN documents' <=> s \in DOMAIN documents
    BY <1>1
  <2>3. QED
    BY <1>1, <2>1, <2>2 DEF TraceInv, At, Sending, Committed, Refused
<1>11. ASSUME s \in Backfills PROVE WorkCounted(s)'
  <2>1. WorkCounted(s)
    BY <1>11, SoundParts
  <2>2. Mine(s)' = Mine(s)
    BY <1>1 DEF Mine
  <2>3. PICK doc : doc = request[s].doc
    OBVIOUS
  <2>4. Complete(s)' <=> Complete(s)
    BY <1>1 DEF Complete, At
  <2>5. Complete(s) \/ Mine(s) # {} => doc \in DOMAIN documents' /\ Blanks(doc)' = {}
    BY <1>1, <1>6, <2>1, <2>3, WorkValue DEF Counted
  <2>6. Counted(s)'
    <3>1. /\ Mine(s) # {} =>
                Complete(s) \/ At(s, "dead") \/ (At(s, "answered") /\ request[s].status = 500)
          /\ Complete(s) => request[s].embedded = Cardinality(Mine(s))
      BY <2>1, WorkValue DEF Counted
    <3>2. request'[s].doc = doc
      BY <1>1, <2>3
    <3>3. /\ At(s, "dead")' <=> At(s, "dead")
          /\ (At(s, "answered") /\ request[s].status = 500)'
                <=> At(s, "answered") /\ request[s].status = 500
          /\ request'[s].embedded = request[s].embedded
      BY <1>1 DEF At
    <3>4. Complete(s)' => (request[s].embedded = Cardinality(Mine(s)))'
      BY <2>2, <2>4, <3>1, <3>3
    <3>5. (Complete(s) \/ Mine(s) # {} =>
              request[s].doc \in DOMAIN documents /\ Blanks(request[s].doc) = {})'
      <4>1. (Blanks(request[s].doc) = {})' <=> Blanks(doc)' = {}
        BY <3>2 DEF Blanks, ChunksOf
      <4>2. QED
        BY <2>2, <2>4, <2>5, <3>2, <4>1
    <3>6. (Mine(s) # {} =>
              Complete(s) \/ At(s, "dead") \/ (At(s, "answered") /\ request[s].status = 500))'
      BY <2>2, <2>4, <3>1, <3>3
    <3>7. QED
      BY <3>4, <3>5, <3>6 DEF Counted
  <2>7. QED
    BY <2>6 DEF WorkCounted, Counted, Mine, Complete
<1>12. QED
  BY <1>3, <1>4, <1>5, <1>8, <1>9, <1>10, <1>11 DEF OwnInv

(* The service is asked at most MaxRetries + 1 times for each batch.       *)
CallsLimited(r) ==
    request[r].calls <= (MaxRetries + 1) * Batches(Len(request[r].targets))

LEMMA CallsBounded ==
    ASSUME KnowledgeTypeOK, NEW r \in Requests, CallsInv(r)
    PROVE  CallsLimited(r)
<1>1. PICK n, l, tries, calls :
          /\ n = Len(request[r].targets) /\ l = Len(request[r].vectors)
          /\ tries = request[r].tries /\ calls = request[r].calls
  OBVIOUS
<1>2. n \in Nat /\ tries \in 0..MaxRetries /\ calls \in Nat /\ MaxRetries \in Nat
  BY <1>1, RequestFields
<1>3. PICK k : CallsFrom(n, l, tries, calls, k)
  BY <1>1, CallsValue
<1>4. PICK B : B = Batches(n) /\ B \in Nat
  BY <1>2, BatchesLeft
<1>5. k \in 0..B /\ calls <= tries * B + k
  BY <1>3, <1>4 DEF CallsFrom
<1>6. tries * B <= MaxRetries * B /\ tries * B \in Nat /\ MaxRetries * B \in Nat
  BY <1>2, <1>4
<1>7. (MaxRetries + 1) * B = MaxRetries * B + B
  BY <1>2, <1>4
<1>8. calls <= (MaxRetries + 1) * B
  BY <1>2, <1>4, <1>5, <1>6, <1>7
<1>9. QED
  BY <1>1, <1>4, <1>8 DEF CallsLimited

AllCalls == \A r \in Requests : CallsInv(r)
AllLimited == \A r \in Requests : CallsLimited(r)

LEMMA AllCallsBounded == KnowledgeTypeOK /\ AllCalls => AllLimited
  BY CallsBounded DEF AllCalls, AllLimited

LEMMA StepKeeps ==
    ASSUME KnowledgeSound, NEW r \in Requests, StepSound(r)
    PROVE  KnowledgeSound'
<1>1. KnowledgeTypeOK' /\ ChunksInv' /\ StoredInv' /\ Others(r)
  BY DEF StepSound, Others
<1>2. ASSUME NEW s \in Requests
      PROVE  /\ OwnInv(s)' /\ TotalsInv(s)'
             /\ s \in Uploads \cup Creates => TraceInv(s)'
             /\ s \in Backfills => WorkCounted(s)'
  <2>1. CASE s = r
    BY <2>1 DEF StepSound
  <2>2. CASE s # r
    BY <1>1, <2>2, OthersKeep
  <2>3. QED
    BY <2>1, <2>2
<1>3. AllLimited'
  <2>1. AllCalls'
    BY <1>2 DEF OwnInv, AllCalls
  <2>2. QED
    BY <1>1, <2>1, AllCallsBounded, PTL
<1>4. KnowledgeInv'
  BY <1>1, <1>2, <1>3 DEF KnowledgeInv, OwnInv, AllLimited, CallsLimited
<1>5. UploadsAccounted'
  <2>1. \A s \in Uploads \cup Creates : s \in Requests
    BY DEF Requests
  <2>2. QED
    BY <1>1, <1>2, <2>1 DEF UploadsAccounted, StoredInv
<1>6. BackfillsCountOnce'
  <2>1. \A s \in Backfills : s \in Requests
    BY DEF Requests
  <2>2. QED
    BY <1>2, <2>1 DEF BackfillsCountOnce
<1>7. QED
  BY <1>4, <1>5, <1>6 DEF KnowledgeSound

-----------------------------------------------------------------------------
LEMMA InitSound == Init => KnowledgeSound
<1> SUFFICES ASSUME Init PROVE KnowledgeSound
  OBVIOUS
<1> DEFINE absent == [Idle EXCEPT !.phase = "never"]
<1>1. /\ documents = [d \in {Old} |-> [stored |-> FALSE, chunk_count |-> OldChunks]]
      /\ chunks = [c \in {Old} \X (1..OldChunks) |-> NoVector]
      /\ files = {} /\ temporary = {} /\ ackLost = {} /\ uncleaned = {} /\ faults = 0
  BY DEF Init
<1>2. PICK coming \in Together :
          request = [r \in Requests |-> IF r \in coming THEN Idle ELSE absent]
  BY DEF Init
<1>3. absent \in RequestState /\ absent.phase = "never" /\ NoCallsYet(absent)
      /\ absent.locks = {}
  BY IdleState DEF RequestState, Idle, NoCallsYet
<1>4. Idle.phase = "new" /\ NoCallsYet(Idle) /\ Idle.locks = {}
  BY DEF Idle, NoCallsYet
<1> HIDE DEF absent
<1>5. KnowledgeTypeOK
  <2>1. request \in [Requests -> RequestState]
    BY <1>2, <1>3, IdleState
  <2>2. /\ DOMAIN documents \subseteq Documents /\ IsFiniteSet(DOMAIN documents)
        /\ \A d \in DOMAIN documents : documents[d] \in [stored : BOOLEAN, chunk_count : Nat]
    BY <1>1, FS_Singleton, EmbeddingAssumption DEF Documents
  <2>3. faults \in 0..MaxFaults
    BY <1>1, EmbeddingAssumption
  <2>4. QED
    BY <1>1, <2>1, <2>2, <2>3 DEF KnowledgeTypeOK
<1>6. ChunksInv
  <2>1. documents[Old].chunk_count = OldChunks /\ DOMAIN documents = {Old}
    BY <1>1
  <2>2. ChunksOf(Old) = {Old} \X (1..OldChunks)
    BY <2>1 DEF ChunksOf
  <2>3. UNION {ChunksOf(d) : d \in DOMAIN documents} = {Old} \X (1..OldChunks)
    BY <2>1, <2>2
  <2>4. DOMAIN chunks = {Old} \X (1..OldChunks) /\ \A c \in DOMAIN chunks : chunks[c] = NoVector
    BY <1>1
  <2>5. QED
    BY <2>3, <2>4 DEF ChunksInv
<1>7. StoredInv
  BY <1>1 DEF StoredInv
<1>8. ASSUME NEW r \in Requests
      PROVE  /\ OwnInv(r) /\ TotalsInv(r) /\ CallsLimited(r)
             /\ TraceInv(r) /\ WorkCounted(r)
  <2>1. request[r] = Idle \/ request[r] = absent
    BY <1>2
  <2>2. /\ request[r].phase \in {"new", "never"} /\ NoCallsYet(request[r])
        /\ At(r, "new") => request[r] = Idle
    BY <1>3, <1>4, <2>1 DEF At
  <2>3. \A s \in Requests : request[s].locks = {}
    BY <1>2, <1>3, <1>4
  <2>4. CallsInv(r)
    BY <2>2, NoCallsSound
  <2>5. PhaseInv(r) /\ VectorsInv(r) /\ TotalsInv(r) /\ LocksInv(r)
    BY <2>2, <2>3 DEF PhaseInv, VectorsInv, TotalsInv, LocksInv, Sending, At
  <2>6. TraceInv(r)
    <3>1. r \notin DOMAIN documents
      BY <1>1, RequestsAssumption
    <3>2. QED
      BY <1>1, <2>2, <3>1 DEF TraceInv, Committed, Sending, Refused, At
  <2>7. WorkCounted(r)
    BY <1>1, <2>2 DEF WorkCounted, Refused, At
  <2>8. CallsLimited(r)
    BY <1>5, <2>4, CallsBounded
  <2>9. QED
    BY <2>4, <2>5, <2>6, <2>7, <2>8 DEF OwnInv
<1>9. KnowledgeInv
  BY <1>5, <1>6, <1>8 DEF KnowledgeInv, OwnInv, CallsLimited
<1>10. UploadsAccounted
  <2>1. \A r \in Uploads \cup Creates : r \in Requests
    BY DEF Requests
  <2>2. QED
    BY <1>7, <1>8, <2>1 DEF UploadsAccounted, StoredInv
<1>11. BackfillsCountOnce
  <2>1. \A r \in Backfills : r \in Requests
    BY DEF Requests
  <2>2. QED
    BY <1>8, <2>1 DEF BackfillsCountOnce
<1>12. QED
  BY <1>9, <1>10, <1>11 DEF KnowledgeSound

LEMMA NextSound ==
    ASSUME KnowledgeSound, Next
    PROVE  \E r \in Requests : StepSound(r)
<1>1. PICK r \in Requests : Begins(r) \/ Goes(r) \/ Fails(r) \/ Dies(r)
  BY DEF Next
<1>2. CASE Begins(r)
  <2>1. CASE RefuseUpload(r)
    BY <2>1, RefuseUploadSound
  <2>2. CASE PrepareUpload(r)
    BY <2>2, PrepareUploadSound
  <2>3. CASE CreateDocument(r)
    BY <2>3, CreateDocumentSound
  <2>4. CASE BackfillNothing(r)
    BY <2>4, BackfillNothingSound
  <2>5. CASE StartBackfill(r)
    BY <2>5, StartBackfillSound
  <2>6. CASE CountDocuments(r)
    BY <2>6, CountDocumentsSound
  <2>7. CASE CountChunks(r)
    BY <2>7, CountChunksSound
  <2>8. QED
    BY <1>2, <2>1, <2>2, <2>3, <2>4, <2>5, <2>6, <2>7 DEF Begins
<1>3. CASE Goes(r)
  <2>1. CASE EmbedUpload(r)
    BY <2>1, EmbedUploadSound
  <2>2. CASE EmbedFails(r)
    BY <2>2, EmbedFailsSound
  <2>3. CASE EmbedBatch(r)
    BY <2>3, EmbedBatchSound
  <2>4. CASE Embedded(r)
    BY <2>4, EmbeddedSound
  <2>5. CASE StoreTemporary(r)
    BY <2>5, StoreTemporarySound
  <2>6. CASE StoreReplace(r)
    BY <2>6, StoreReplaceSound
  <2>7. CASE CommitUpload(r)
    BY <2>7, CommitUploadSound
  <2>8. CASE RemoveFile(r)
    BY <2>8, RemoveFileSound
  <2>9. CASE Refresh(r)
    BY <2>9, RefreshSound
  <2>10. CASE WriteVector(r)
    BY <2>10, WriteVectorSound
  <2>11. CASE CommitBackfill(r)
    BY <2>11, CommitBackfillSound
  <2>12. CASE AnswerBackfill(r)
    BY <2>12, AnswerBackfillSound
  <2>13. CASE PageDocuments(r)
    BY <2>13, PageDocumentsSound
  <2>14. CASE PageChunks(r)
    BY <2>14, PageChunksSound
  <2>15. QED
    BY <1>3, <2>1, <2>2, <2>3, <2>4, <2>5, <2>6, <2>7, <2>8, <2>9, <2>10, <2>11, <2>12, <2>13,
       <2>14
    DEF Goes
<1>4. CASE Fails(r)
  <2>1. CASE StoreFails(r)
    BY <2>1, StoreFailsSound
  <2>2. CASE CommitUploadFails(r)
    BY <2>2, CommitUploadFailsSound
  <2>3. CASE RefreshFails(r)
    BY <2>3, RefreshFailsSound
  <2>4. CASE CommitBackfillFails(r)
    BY <2>4, CommitBackfillFailsSound
  <2>5. CASE CloseFails(r)
    BY <2>5, CloseFailsSound
  <2>6. CASE RemoveFileFails(r)
    BY <2>6, RemoveFileFailsSound
  <2>7. QED
    BY <1>4, <2>1, <2>2, <2>3, <2>4, <2>5, <2>6 DEF Fails
<1>5. CASE Dies(r)
  BY <1>5, DiesSound
<1>6. QED
  BY <1>1, <1>2, <1>3, <1>4, <1>5

LEMMA StutterSound ==
    ASSUME KnowledgeSound, UNCHANGED vars
    PROVE  KnowledgeSound'
<1>1. KnowledgeInv'
  <2>1. KnowledgeTypeOK' /\ ChunksInv'
    BY DEF KnowledgeSound, vars, KnowledgeInv, KnowledgeTypeOK, ChunksInv, ChunksOf
  <2>2. ASSUME NEW r \in Requests
        PROVE  /\ PhaseInv(r)' /\ VectorsInv(r)' /\ TotalsInv(r)' /\ CallsInv(r)'
               /\ LocksInv(r)' /\ CallsLimited(r)'
    <3>1. /\ PhaseInv(r) /\ VectorsInv(r) /\ TotalsInv(r) /\ CallsInv(r)
          /\ LocksInv(r) /\ CallsLimited(r)
      BY DEF KnowledgeSound, KnowledgeInv, CallsLimited
    <3>2. PhaseInv(r)' /\ VectorsInv(r)' /\ TotalsInv(r)'
      BY <3>1 DEF vars, PhaseInv, VectorsInv, TotalsInv, Sending, At, ChunksOf
    <3>3. CallsInv(r)' /\ CallsLimited(r)'
      BY <3>1 DEF vars, CallsInv, CallsLimited, Batches
    <3>4. LocksInv(r)'
      BY <3>1 DEF vars, LocksInv, At, Blanks, ChunksOf
    <3>5. QED
      BY <3>2, <3>3, <3>4
  <2>3. QED
    BY <2>1, <2>2 DEF KnowledgeInv, CallsLimited
<1>2. UploadsAccounted'
  BY DEF KnowledgeSound, vars, UploadsAccounted, TraceInv, Sending, At, Committed, Refused
<1>3. BackfillsCountOnce'
  BY DEF KnowledgeSound, vars, BackfillsCountOnce, WorkCounted, Blanks, ChunksOf, At, Refused
<1>4. QED
  BY <1>1, <1>2, <1>3 DEF KnowledgeSound

(* The joint invariant: each of its three parts is used to show the others.*)
THEOREM KnowledgeInvariance == Spec => []KnowledgeSound
<1>1. KnowledgeSound /\ [Next]_vars => KnowledgeSound'
  BY NextSound, StepKeeps, StutterSound
<1>2. QED
  BY InitSound, <1>1, PTL DEF Spec

(* Types; a document has all of its chunks, each with its own vector; the  *)
(* service is asked at most MaxRetries + 1 times for each batch; backfills *)
(* lock different rows; a list has at least the total it is sent with.     *)
THEOREM KnowledgeAgrees == Spec => []KnowledgeInv
<1>1. KnowledgeSound => KnowledgeInv
  BY DEF KnowledgeSound
<1>2. QED
  BY <1>1, KnowledgeInvariance, PTL

(* The file and the rows of an upload agree, over all its errors, also     *)
(* those of the clean-up, and an answer says what is there.                *)
THEOREM UploadsAgree == Spec => []UploadsAccounted
<1>1. KnowledgeSound => UploadsAccounted
  BY DEF KnowledgeSound
<1>2. QED
  BY <1>1, KnowledgeInvariance, PTL

(* What a backfill reports as embedded is what it wrote; whoever has       *)
(* written anything, answered or not, has left no chunk of the document.   *)
THEOREM BackfillsShareWork == Spec => []BackfillsCountOnce
<1>1. KnowledgeSound => BackfillsCountOnce
  BY DEF KnowledgeSound
<1>2. QED
  BY <1>1, KnowledgeInvariance, PTL

(* The chunks of every upload cover its text and keep to their size.       *)
THEOREM UploadsAreCovered == Spec => []ChunksCoverText
<1>1. ASSUME KnowledgeInv, NEW r \in Uploads, At(r, "prepared")
      PROVE  SplitSound(request[r].text, request[r].spans)
  <2>1. PhaseInv(r)
    BY <1>1 DEF KnowledgeInv, Requests
  <2>2. PICK text : text = request[r].text
    OBVIOUS
  <2>3. /\ text \in Texts
        /\ request[r] = [Idle EXCEPT !.phase = "prepared", !.doc = r, !.text = text,
                                     !.spans = SplitText(text)]
    BY <1>1, <2>1, <2>2 DEF PhaseInv
  <2>4. request[r].spans = SplitText(text)
    BY <2>3 DEF Idle
  <2>5. SplitSound(text, SplitText(text))
    BY <2>3, TextsAssumption, SplitIsSound
  <2>6. QED
    BY <2>2, <2>4, <2>5
<1>2. KnowledgeInv => ChunksCoverText
  BY <1>1 DEF ChunksCoverText
<1>3. QED
  BY <1>2, KnowledgeAgrees, PTL

-----------------------------------------------------------------------------
(* What one step does to the documents and the vectors.                    *)
Adds(r) ==
    /\ r \in Uploads \cup Creates /\ ~Committed(r)
    /\ \E stored \in BOOLEAN, vectors \in Seq(Documents \X Nat) :
          /\ AddDocument(r, stored, vectors) /\ Len(vectors) \in Sizes
          /\ \A i \in DOMAIN vectors : vectors[i] = <<r, i>>

LEMMA CommitAdds ==
    ASSUME KnowledgeSound, NEW r \in Requests, At(r, "committing"),
           AddDocument(r, TRUE, request[r].vectors)
    PROVE  Adds(r)
<1>1. r \in Uploads
  BY SoundParts DEF PhaseInv
<1>2. /\ request[r].vectors \in Seq(Documents \X Nat) /\ Len(request[r].vectors) \in Sizes
      /\ \A i \in DOMAIN request[r].vectors : request[r].vectors[i] = <<r, i>>
      /\ ~Committed(r) /\ TRUE \in BOOLEAN
  BY <1>1, UploadVectors
<1>3. QED
  BY <1>1, <1>2 DEF Adds

LEMMA StepKinds ==
    ASSUME KnowledgeSound, [Next]_vars
    PROVE  \/ UNCHANGED <<documents, chunks>>
           \/ \E r \in Requests : Adds(r)
           \/ \E r \in Requests : Written(r) /\ Fill(r) /\ UNCHANGED documents
<1>1. CASE UNCHANGED vars
  BY <1>1 DEF vars
<1>2. CASE Next
  <2>1. PICK r \in Requests : Begins(r) \/ Goes(r) \/ Fails(r) \/ Dies(r)
    BY <1>2 DEF Next
  <2>2. CASE CreateDocument(r)
    <3>1. /\ AddDocument(r, FALSE, <<>>) /\ FALSE \in BOOLEAN /\ <<>> \in Seq(Documents \X Nat)
          /\ Len(<<>>) \in Sizes /\ \A i \in DOMAIN <<>> : <<>>[i] = <<r, i>>
          /\ r \in Uploads \cup Creates
      <4>1. AddDocument(r, FALSE, <<>>) /\ r \in Uploads \cup Creates
        BY <2>2 DEF CreateDocument
      <4>2. <<>> \in Seq(Documents \X Nat) /\ Len(<<>>) = 0 /\ \A i \in DOMAIN <<>> : <<>>[i] = <<r, i>>
        OBVIOUS
      <4>3. 0 \in Sizes
        BY DEF Sizes
      <4>4. QED
        BY <4>1, <4>2, <4>3
    <3>2. ~Committed(r)
      BY <2>2, <3>1, SoundParts DEF CreateDocument, TraceInv
    <3>3. Adds(r)
      BY <3>1, <3>2 DEF Adds
    <3>4. QED
      BY <3>3
  <2>3. CASE CommitUpload(r)
    BY <2>3, CommitAdds DEF CommitUpload
  <2>4. CASE CommitUploadFails(r)
    BY <2>4, CommitAdds DEF CommitUploadFails
  <2>5. CASE CommitBackfill(r)
    BY <2>5 DEF CommitBackfill
  <2>6. CASE CommitBackfillFails(r)
    BY <2>6 DEF CommitBackfillFails
  <2>7. CASE /\ ~CreateDocument(r) /\ ~CommitUpload(r) /\ ~CommitUploadFails(r)
             /\ ~CommitBackfill(r) /\ ~CommitBackfillFails(r)
    <3>1. CASE Begins(r)
      BY <2>7, <3>1 DEF Begins, RefuseUpload, PrepareUpload, BackfillNothing, StartBackfill,
                        CountDocuments, CountChunks, OnlyRequest
    <3>2. CASE Goes(r)
      BY <2>7, <3>2 DEF Goes, EmbedUpload, EmbedFails, EmbedBatch, Embedded, StoreTemporary,
                        StoreReplace, RemoveFile, Refresh, WriteVector, AnswerBackfill,
                        PageDocuments, PageChunks, OnlyRequest
    <3>3. CASE Fails(r) \/ Dies(r)
      BY <2>7, <3>3 DEF Fails, CloseFails, StoreFails, RemoveFileFails, RefreshFails,
                              Dies
    <3>4. QED
      BY <2>1, <3>1, <3>2, <3>3
  <2>8. QED
    BY <2>2, <2>3, <2>4, <2>5, <2>6, <2>7
<1>3. QED
  BY <1>1, <1>2

(* The vectors as KnowledgePromise sees them.                              *)
Seen == [c \in DOMAIN chunks |-> IF chunks[c] = NoVector THEN NoVector ELSE chunks[c].of]

LEMMA AddsPublishes ==
    ASSUME KnowledgeSound, NEW r \in Requests, Adds(r)
    PROVE  Promise!Publish(r)
<1>1. PICK stored \in BOOLEAN, vectors \in Seq(Documents \X Nat) :
          /\ AddDocument(r, stored, vectors) /\ Len(vectors) \in Sizes
          /\ \A i \in DOMAIN vectors : vectors[i] = <<r, i>>
  BY DEF Adds
<1>2. r \in Uploads \cup Creates /\ r \notin DOMAIN documents /\ r \in Documents
  BY DEF Adds, Committed, Documents
<1>3. /\ DOMAIN documents' = DOMAIN documents \cup {r}
      /\ DOMAIN chunks' = DOMAIN chunks \cup {<<r, i>> : i \in 1..Len(vectors)}
      /\ \A c \in DOMAIN chunks : chunks'[c] = chunks[c] /\ c[1] # r
      /\ \A i \in 1..Len(vectors) :
            <<r, i>> \notin DOMAIN chunks /\ chunks'[<<r, i>>] = [of |-> <<r, i>>, by |-> r]
  <2>1. KnowledgeTypeOK /\ ChunksInv
    BY SoundParts
  <2>2. r \in Uploads \cup Creates /\ r \notin DOMAIN documents
    BY <1>2
  <2>3. AddDocument(r, stored, vectors) /\ \A i \in DOMAIN vectors : vectors[i] = <<r, i>>
    BY <1>1
  <2>4. /\ DOMAIN documents' = DOMAIN documents \cup {r}
        /\ documents'[r] = [stored |-> stored, chunk_count |-> Len(vectors)]
        /\ \A d \in DOMAIN documents : documents'[d] = documents[d] /\ d # r
        /\ IsFiniteSet(DOMAIN documents')
        /\ DOMAIN chunks' = DOMAIN chunks \cup {<<r, i>> : i \in 1..Len(vectors)}
        /\ \A c \in DOMAIN chunks : chunks'[c] = chunks[c] /\ c[1] # r
        /\ \A i \in 1..Len(vectors) :
              <<r, i>> \notin DOMAIN chunks /\ chunks'[<<r, i>>] = [of |-> <<r, i>>, by |-> r]
        /\ ChunksInv'
    BY <2>1, <2>2, <2>3, Added
  <2>5. QED
    BY <2>4
<1>4. PICK n : n = Len(vectors) /\ n \in Nat
  OBVIOUS
<1> DEFINE new == {<<r, i>> : i \in 1..n}
           result == [c \in DOMAIN Seen \cup new |-> IF c[1] = r THEN c ELSE Seen[c]]
<1>5. Seen' = result
  <2>1. DOMAIN Seen' = DOMAIN result
    BY <1>3, <1>4 DEF Seen
  <2>2. ASSUME NEW c \in DOMAIN chunks PROVE Seen'[c] = result[c]
    <3>1. Seen'[c] = Seen[c] /\ c \in DOMAIN Seen /\ c[1] # r
      BY <1>3, <2>2 DEF Seen
    <3>2. QED
      BY <3>1
  <2>3. ASSUME NEW c \in new PROVE Seen'[c] = result[c]
    <3>1. PICK i \in 1..n : c = <<r, i>>
      OBVIOUS
    <3>2. c \in Documents \X Nat /\ c[1] = r
      BY <1>2, <1>4, <3>1
    <3>3. chunks'[c] = [of |-> c, by |-> r] /\ c \in DOMAIN chunks'
      BY <1>3, <1>4, <3>1
    <3>4. chunks'[c] # NoVector
      BY <3>2, <3>3, VectorIsNotBlank
    <3>5. chunks'[c].of = c
      BY <3>3
    <3>6. Seen'[c] = c
      BY <3>3, <3>4, <3>5 DEF Seen
    <3>7. QED
      BY <3>2, <3>6
  <2>4. Seen' = [c \in DOMAIN Seen' |-> Seen'[c]]
    BY DEF Seen
  <2>5. DOMAIN Seen' = DOMAIN chunks \cup new
    BY <1>3, <1>4 DEF Seen
  <2> HIDE DEF new
  <2>6. result = [c \in DOMAIN result |-> result[c]]
    OBVIOUS
  <2> HIDE DEF result
  <2>7. QED
    BY <2>1, <2>2, <2>3, <2>4, <2>5, <2>6
<1>6. n \in Sizes /\ Promise!ChunksOf(r, n) = new
  BY <1>1, <1>4 DEF Promise!ChunksOf
<1>7. QED
  BY <1>2, <1>3, <1>5, <1>6 DEF Promise!Publish, Seen

LEMMA FillFills ==
    ASSUME KnowledgeSound, NEW r \in Requests, Written(r), Fill(r), UNCHANGED documents
    PROVE  Promise!Fill
<1>1. KnowledgeTypeOK /\ ChunksInv /\ VectorsInv(r) /\ LocksInv(r)
      /\ r \in Backfills /\ At(r, "writing")
  BY SoundParts DEF Written, PhaseInv
<1>2. PICK locks : locks = request[r].locks
  OBVIOUS
<1>3. /\ DOMAIN chunks' = DOMAIN chunks
      /\ \A c \in locks :
            /\ c \in DOMAIN chunks /\ chunks[c] = NoVector
            /\ chunks'[c] = [of |-> c, by |-> r] /\ chunks'[c] # NoVector
      /\ \A c \in DOMAIN chunks \ locks : chunks'[c] = chunks[c]
  BY <1>1, <1>2, Filled
<1> DEFINE result == [c \in DOMAIN Seen |-> IF c \in locks THEN c ELSE Seen[c]]
<1>4. Seen' = result
  <2>1. DOMAIN Seen' = DOMAIN result /\ DOMAIN Seen' = DOMAIN chunks
    BY <1>3 DEF Seen
  <2>2. ASSUME NEW c \in DOMAIN chunks PROVE Seen'[c] = result[c]
    <3>1. CASE c \in locks
      <4>1. chunks'[c] = [of |-> c, by |-> r] /\ chunks'[c] # NoVector
        BY <1>3, <3>1
      <4>2. chunks'[c].of = c
        BY <4>1
      <4>3. Seen'[c] = c
        BY <1>3, <4>1, <4>2 DEF Seen
      <4>4. QED
        BY <2>1, <3>1, <4>3
    <3>2. CASE c \notin locks
      <4>1. Seen'[c] = Seen[c]
        BY <1>3, <3>2 DEF Seen
      <4>2. QED
        BY <2>1, <3>2, <4>1
    <3>3. QED
      BY <3>1, <3>2
  <2>3. Seen' = [c \in DOMAIN Seen' |-> Seen'[c]] /\ result = [c \in DOMAIN result |-> result[c]]
    BY DEF Seen
  <2> HIDE DEF result
  <2>4. QED
    BY <2>1, <2>2, <2>3
<1>5. locks \in SUBSET {c \in DOMAIN Seen : Seen[c] = NoVector}
  BY <1>3 DEF Seen
<1>6. QED
  BY <1>4, <1>5 DEF Promise!Fill, Seen

(* Documents appear whole and vectors belong to their chunks, whatever     *)
(* fails: the requests do what KnowledgePromise says.                      *)
THEOREM RequestsKeepPromise == Spec => KeepsPromise
<1>1. Init => Promise!Init
  <2>1. SUFFICES ASSUME Init PROVE Promise!Init
    OBVIOUS
  <2>2. /\ documents = [d \in {Old} |-> [stored |-> FALSE, chunk_count |-> OldChunks]]
        /\ chunks = [c \in {Old} \X (1..OldChunks) |-> NoVector]
    BY <2>1 DEF Init
  <2>3. Promise!ChunksOf(Old, OldChunks) = {Old} \X (1..OldChunks)
    BY DEF Promise!ChunksOf
  <2>4. QED
    BY <2>2, <2>3 DEF Promise!Init
<1>2. KnowledgeSound /\ [Next]_vars => [Promise!Next]_(Promise!vars)
  <2>1. SUFFICES ASSUME KnowledgeSound, [Next]_vars
                 PROVE  [Promise!Next]_(Promise!vars)
    OBVIOUS
  <2>2. CASE UNCHANGED <<documents, chunks>>
    BY <2>2 DEF Promise!vars
  <2>3. ASSUME NEW r \in Requests, Adds(r)
        PROVE  Promise!Next
    BY <2>1, <2>3, AddsPublishes DEF Promise!Next, Adds
  <2>4. ASSUME NEW r \in Requests, Written(r), Fill(r), UNCHANGED documents
        PROVE  Promise!Next
    BY <2>1, <2>4, FillFills DEF Promise!Next
  <2>5. QED
    BY <2>1, <2>2, <2>3, <2>4, StepKinds
<1>3. QED
  BY <1>1, <1>2, KnowledgeInvariance, PTL DEF Spec, KeepsPromise, Promise!Spec
=============================================================================
