--------------------------- MODULE KnowledgeBase ----------------------------
(***************************************************************************)
(* Documents, their files, their chunks and the vectors of the chunks:     *)
(* upload, backfill and listing (backend/app/api/routes/knowledge.py,      *)
(* services/document_ingestion.py, services/file_storage.py,               *)
(* services/embedding).                                                    *)
(*                                                                         *)
(* No transaction spans the upload directory and the database, and none is *)
(* open while the embedding service is asked.  A request may end at any    *)
(* await: its task is cancelled or its process dies.                       *)
(***************************************************************************)
EXTENDS TextSplitter, ServiceErrors, FiniteSets

CONSTANTS
    Uploads,      \* requests that upload a file; a request names its document
    Creates,      \* requests that create a document without a file
    Backfills,    \* requests that embed what has no vector
    Readers,      \* requests that list
    Old,          \* a document from before there were vectors
    OldChunks,    \* how many chunks it has
    Together,     \* bound: sets of requests that come while the others do not
    Texts,        \* what can be read from an uploaded file
    BatchSize,    \* embedding_batch_size
    MaxRetries,   \* embedding_max_retries
    MaxFaults,    \* bound: statements that fail, requests that die
    NoVector

Requests == Uploads \cup Creates \cup Backfills \cup Readers

Pairwise(A, B, C, D) ==
    A \cap (B \cup C \cup D) = {} /\ B \cap (C \cup D) = {} /\ C \cap D = {}

ASSUME RequestsAssumption == Pairwise(Uploads, Creates, Backfills, Readers) /\ Old \notin Requests
ASSUME VectorAssumption ==
    NoVector \notin [of : ({Old} \cup Requests) \X Nat, by : Requests]
ASSUME TextsAssumption ==
    Texts \subseteq Seq(Characters) /\ \A t \in Texts : Normal(t) /\ t # <<>>
ASSUME TogetherAssumption == Together \subseteq SUBSET Requests
ASSUME EmbeddingAssumption ==
    BatchSize \in Nat \ {0} /\ {OldChunks, MaxRetries, MaxFaults} \subseteq Nat

VARIABLES
    documents,  \* knowledge_documents: whether it has a file, chunk_count
    chunks,     \* knowledge_document_chunks: the vector and who computed it
    files,      \* the upload directory
    temporary,  \* the files in it under a name that ends in .tmp
    request,    \* what each request is in the middle of
    ackLost,    \* history: uploads whose COMMIT was not acknowledged
    uncleaned,  \* history: uploads that failed, and failed to remove their file
    faults

vars == <<documents, chunks, files, temporary, request, ackLost, uncleaned, faults>>

ChunksOf(d) == {<<d, i>> : i \in 1..documents[d].chunk_count}

Blanks(d) == {c \in ChunksOf(d) : chunks[c] = NoVector}

Idle == [phase |-> "new", doc |-> Old, text |-> <<>>, spans |-> <<>>, targets |-> <<>>,
         vectors |-> <<>>, tries |-> 0, calls |-> 0, locks |-> {}, written |-> 0,
         status |-> 0, total |-> 0, embedded |-> 0]

Init ==
    /\ documents = [d \in {Old} |-> [stored |-> FALSE, chunk_count |-> OldChunks]]
    /\ chunks = [c \in {Old} \X (1..OldChunks) |-> NoVector]
    /\ files = {}
    /\ temporary = {}
    /\ \E coming \in Together :
          request = [r \in Requests |->
              IF r \in coming THEN Idle ELSE [Idle EXCEPT !.phase = "never"]]
    /\ ackLost = {}
    /\ uncleaned = {}
    /\ faults = 0

-----------------------------------------------------------------------------
(* Steps of a request.                                                     *)

At(r, phase) == request[r].phase = phase

Goto(r, phase) == request' = [request EXCEPT ![r].phase = phase]

Reply(r, status, total, embedded) ==
    request' = [request EXCEPT ![r] =
        [Idle EXCEPT !.phase = "answered", !.doc = request[r].doc,
                     !.status = status, !.total = total, !.embedded = embedded]]

Answer(r, status) == Reply(r, status, 0, 0)

Fault == faults < MaxFaults /\ faults' = faults + 1

OnlyRequest == UNCHANGED <<documents, chunks, files, temporary, ackLost, uncleaned, faults>>

UnderWay(r) == request[r].phase \notin {"never", "new", "answered", "dead"}

(* Files are written, moved and removed by threads: one that has begun     *)
(* comes to its end when only its request has been cancelled.              *)
ThreadEnds(r) ==
    \/ /\ At(r, "storing") \/ At(r, "replacing")
       /\ files' = files \cup {r}
       /\ temporary' = temporary \ {r}
    \/ At(r, "removing") /\ files' = files \ {r} /\ UNCHANGED temporary

Dies(r) ==
    /\ UnderWay(r)
    /\ Fault
    /\ request' = [request EXCEPT ![r] =
            [Idle EXCEPT !.phase = "dead", !.doc = request[r].doc]]
    /\ UNCHANGED <<files, temporary>> \/ ThreadEnds(r)
    /\ UNCHANGED <<documents, chunks, ackLost, uncleaned>>

-----------------------------------------------------------------------------
(* prepare_document and the title: what each problem of a file is answered *)
(* with.                                                                   *)

Problems == [filename |-> 422, extension |-> 415, size |-> 413, empty |-> 422,
             unreadable |-> 422, title |-> 422]

RefuseUpload(r) ==
    /\ r \in Uploads
    /\ At(r, "new")
    /\ \E problem \in DOMAIN Problems : Answer(r, Problems[problem])
    /\ OnlyRequest

PrepareUpload(r) ==
    /\ r \in Uploads
    /\ At(r, "new")
    /\ \E text \in Texts :
          request' = [request EXCEPT
              ![r] = [@ EXCEPT !.phase = "prepared", !.doc = r, !.text = text,
                               !.spans = SplitText(text)]]
    /\ OnlyRequest

-----------------------------------------------------------------------------
(* The embedding service.  It answers a batch of n texts with a list of    *)
(* [index, embedding], or not; the vector is that of the text its index    *)
(* names, and a vector may be of no use (its dimension or its values).     *)

Items(n) == [index : -1..n, usable : {TRUE}] \cup [index : {0}, usable : {FALSE}]

Answers(n) == UNION {[1..k -> Items(n)] : k \in {n - 1, n}}

(* Whether _parse_embeddings raises for what a batch is answered with.     *)
Malformed(data, n) ==
    \/ Len(data) # n
    \/ \E i \in DOMAIN data : ~data[i].usable \/ data[i].index \notin 0..(n - 1)
    \/ \E i, j \in DOMAIN data : i < j /\ data[i].index = data[j].index

(* The places of the texts in the batch whose vectors it returns, in order.*)

(* A bug to catch: vectors are taken in the order they come.               *)
ParsedAsReceived(data, n) == [i \in 1..n |-> data[i].index + 1]

Parsed(data, n) ==
    [i \in 1..n |-> (CHOOSE item \in {data[j] : j \in 1..n} : item.index = i - 1).index + 1]

(* _with_retry starts embed_documents over, with the first batch.          *)

(* A bug to catch: the limit counts attempts since the last batch.         *)
RaiseUncounted(r, error) ==
    IF Retryable(error) /\ request[r].tries <= MaxRetries
    THEN request' = [request EXCEPT ![r].vectors = <<>>,
                                    ![r].tries = @ + 1, ![r].calls = @ + 1]
    ELSE Answer(r, HttpStatus(error))

Raise(r, error) ==
    IF Retryable(error) /\ request[r].tries < MaxRetries
    THEN request' = [request EXCEPT ![r].vectors = <<>>,
                                    ![r].tries = @ + 1, ![r].calls = @ + 1]
    ELSE Answer(r, HttpStatus(error))

Embedding(r) == At(r, "embedding") /\ Len(request[r].vectors) < Len(request[r].targets)

EmbedFails(r) ==
    /\ Embedding(r)
    /\ \E error \in CallErrors : Raise(r, error)
    /\ OnlyRequest

EmbedBatch(r) ==
    /\ Embedding(r)
    /\ LET start == Len(request[r].vectors)
           n == Min({BatchSize, Len(request[r].targets) - start})
       IN  \E data \in Answers(n) :
              IF Malformed(data, n) THEN Raise(r, "malformed")
              ELSE request' = [request EXCEPT
                      ![r].vectors = @ \o [i \in 1..n |->
                                 <<request[r].doc,
                                   request[r].targets[start + Parsed(data, n)[i]]>>],
                      ![r].calls = @ + 1]
    /\ OnlyRequest

(* provider_factory() raises when there is no key.                         *)
StartEmbedding(r, d, targets) ==
    \/ Answer(r, HttpStatus(ConfigurationError))
    \/ request' = [request EXCEPT ![r] =
            [@ EXCEPT !.phase = "embedding", !.doc = d, !.text = <<>>, !.spans = <<>>,
                      !.targets = targets]]

(* provider.aclose() raises, whether there are vectors or not.             *)
CloseFails(r) ==
    /\ At(r, "embedding")
    /\ Fault
    /\ Answer(r, 500)
    /\ UNCHANGED <<documents, chunks, files, temporary, ackLost, uncleaned>>

(* embed_texts returns.                                                    *)
Embedded(r) ==
    /\ At(r, "embedding")
    /\ Len(request[r].vectors) = Len(request[r].targets)
    /\ Goto(r, IF r \in Uploads THEN "storing" ELSE "writing")
    /\ OnlyRequest

-----------------------------------------------------------------------------
(* upload_document from the chunks to the answer.                          *)

EmbedUpload(r) ==
    /\ At(r, "prepared")
    /\ StartEmbedding(r, r, [i \in DOMAIN request[r].spans |-> i])
    /\ OnlyRequest

StoreTemporary(r) ==
    /\ At(r, "storing")
    /\ Goto(r, "replacing")
    /\ temporary' = temporary \cup {r}
    /\ UNCHANGED <<documents, chunks, files, ackLost, uncleaned, faults>>

StoreReplace(r) ==
    /\ At(r, "replacing")
    /\ Goto(r, "committing")
    /\ temporary' = temporary \ {r}
    /\ files' = files \cup {r}
    /\ UNCHANGED <<documents, chunks, ackLost, uncleaned, faults>>

(* store_file removes what it has written and raises; the unlink may       *)
(* raise itself, and what has been written stays.                          *)
StoreFails(r) ==
    /\ At(r, "storing") \/ At(r, "replacing")
    /\ Fault
    /\ Answer(r, 500)
    /\ \/ temporary' = temporary \ {r} /\ UNCHANGED uncleaned
       \/ temporary' = temporary \cup {r} /\ uncleaned' = uncleaned \cup {r}
    /\ UNCHANGED <<documents, chunks, files, ackLost>>

(* The rows of the document and of its chunks, in one transaction.         *)
AddDocument(d, stored, vectors) ==
    /\ documents' = [e \in DOMAIN documents \cup {d} |->
            IF e = d THEN [stored |-> stored, chunk_count |-> Len(vectors)]
            ELSE documents[e]]
    /\ chunks' = [c \in DOMAIN chunks \cup {<<d, i>> : i \in DOMAIN vectors} |->
            IF c[1] = d THEN [of |-> vectors[c[2]], by |-> d] ELSE chunks[c]]

CommitUpload(r) ==
    /\ At(r, "committing")
    /\ AddDocument(r, TRUE, request[r].vectors)
    /\ Goto(r, "refreshing")
    /\ UNCHANGED <<files, temporary, ackLost, uncleaned, faults>>

(* The transaction is rolled back, or committed without the request        *)
(* hearing of it: either raises.                                           *)
CommitUploadFails(r) ==
    /\ At(r, "committing")
    /\ Fault
    /\ Goto(r, "removing")
    /\ \/ UNCHANGED <<documents, chunks, ackLost>>
       \/ AddDocument(r, TRUE, request[r].vectors) /\ ackLost' = ackLost \cup {r}
    /\ UNCHANGED <<files, temporary, uncleaned>>

(* A bug to catch: the file of a document that is not stored is left.      *)
KeepFile(r) ==
    /\ At(r, "removing")
    /\ Answer(r, 500)
    /\ UNCHANGED <<documents, chunks, files, temporary, ackLost, uncleaned, faults>>

RemoveFile(r) ==
    /\ At(r, "removing")
    /\ files' = files \ {r}
    /\ Answer(r, 500)
    /\ UNCHANGED <<documents, chunks, temporary, ackLost, uncleaned, faults>>

RemoveFileFails(r) ==
    /\ At(r, "removing")
    /\ Fault
    /\ uncleaned' = uncleaned \cup {r}
    /\ Answer(r, 500)
    /\ UNCHANGED <<documents, chunks, files, temporary, ackLost>>

Refresh(r) ==
    /\ At(r, "refreshing")
    /\ Answer(r, 201)
    /\ OnlyRequest

RefreshFails(r) ==
    /\ At(r, "refreshing")
    /\ Fault
    /\ Answer(r, 500)
    /\ UNCHANGED <<documents, chunks, files, temporary, ackLost, uncleaned>>

(* create_document: a document without a file and without chunks.          *)
CreateDocument(r) ==
    /\ r \in Creates
    /\ At(r, "new")
    /\ AddDocument(r, FALSE, <<>>)
    /\ request' = [request EXCEPT ![r].phase = "refreshing", ![r].doc = r]
    /\ UNCHANGED <<files, temporary, ackLost, uncleaned, faults>>

-----------------------------------------------------------------------------
(* backfill_document_embeddings                                            *)

BackfillNothing(r) ==
    /\ r \in Backfills
    /\ At(r, "new")
    /\ \E d \in {Old} \cup Uploads :
          IF d \in DOMAIN documents
          THEN /\ Blanks(d) = {}
               /\ request' = [request EXCEPT ![r] =
                     [Idle EXCEPT !.phase = "answered", !.doc = d, !.status = 200,
                                  !.total = documents[d].chunk_count]]
          ELSE Answer(r, 404)
    /\ OnlyRequest

(* A bug to catch: the chunks are not read in the order of their index.    *)
TargetsFromEitherEnd(d) ==
    LET blank == {c[2] : c \in Blanks(d)}
    IN  {t \in [1..Cardinality(blank) -> blank] :
            \/ \A i, j \in DOMAIN t : i < j => t[i] < t[j]
            \/ \A i, j \in DOMAIN t : i < j => t[j] < t[i]}

(* ORDER BY chunk_index: the one enumeration that goes up.                 *)
Targets(d) ==
    LET blank == {c[2] : c \in Blanks(d)}
    IN  {t \in [1..Cardinality(blank) -> blank] :
            \A i, j \in DOMAIN t : i < j => t[i] < t[j]}

(* The read transaction ends before the service is asked.                  *)
StartBackfill(r) ==
    /\ r \in Backfills
    /\ At(r, "new")
    /\ \E d \in DOMAIN documents :
          /\ Blanks(d) # {}
          /\ \E targets \in Targets(d) : StartEmbedding(r, d, targets)
    /\ OnlyRequest

Locked(r) == UNION {request[s].locks : s \in Requests \ {r}}

(* UPDATE ... WHERE id = ... AND embedding IS NULL, one row after another: *)
(* it waits for a row another transaction has updated.                     *)

(* A bug to catch: the row count is taken to be one.                       *)
WriteVectorCounted(r) ==
    /\ At(r, "writing")
    /\ request[r].written < Len(request[r].targets)
    /\ LET c == <<request[r].doc, request[r].targets[request[r].written + 1]>> IN
          /\ c \notin Locked(r)
          /\ request' = [request EXCEPT
                ![r].written = @ + 1,
                ![r].locks = IF chunks[c] = NoVector THEN @ \cup {c} ELSE @,
                ![r].embedded = @ + 1]
    /\ OnlyRequest

WriteVector(r) ==
    /\ At(r, "writing")
    /\ request[r].written < Len(request[r].targets)
    /\ LET c == <<request[r].doc, request[r].targets[request[r].written + 1]>>
           blank == chunks[c] = NoVector
       IN /\ c \notin Locked(r)
          /\ request' = [request EXCEPT
                ![r].written = @ + 1,
                ![r].locks = IF blank THEN @ \cup {c} ELSE @,
                ![r].embedded = IF blank THEN @ + 1 ELSE @]
    /\ OnlyRequest

Written(r) == At(r, "writing") /\ request[r].written = Len(request[r].targets)

VectorOf(r, c) ==
    request[r].vectors[CHOOSE k \in DOMAIN request[r].targets : request[r].targets[k] = c[2]]

Fill(r) ==
    chunks' = [c \in DOMAIN chunks |->
        IF c \in request[r].locks THEN [of |-> VectorOf(r, c), by |-> r] ELSE chunks[c]]

CommitBackfill(r) ==
    /\ Written(r)
    /\ Fill(r)
    /\ request' = [request EXCEPT ![r] =
            [Idle EXCEPT !.phase = "committed", !.doc = request[r].doc,
                         !.total = documents[request[r].doc].chunk_count,
                         !.embedded = request[r].embedded]]
    /\ UNCHANGED <<documents, files, temporary, ackLost, uncleaned, faults>>

AnswerBackfill(r) ==
    /\ At(r, "committed")
    /\ Reply(r, 200, request[r].total, request[r].embedded)
    /\ OnlyRequest

(* A statement or the COMMIT raises; the latter may have been carried out. *)
CommitBackfillFails(r) ==
    /\ At(r, "writing")
    /\ Fault
    /\ UNCHANGED chunks \/ (Written(r) /\ Fill(r))
    /\ Answer(r, 500)
    /\ UNCHANGED <<documents, files, temporary, ackLost, uncleaned>>

-----------------------------------------------------------------------------
(* The lists: the total and the page are read one after the other.  The    *)
(* page is the whole list: limit and offset are left out.                  *)

CountDocuments(r) ==
    /\ r \in Readers
    /\ At(r, "new")
    /\ request' = [request EXCEPT ![r].phase = "paging",
                                  ![r].total = Cardinality(DOMAIN documents)]
    /\ OnlyRequest

(* A bug to catch: the page is read first, the total after it.             *)
PageDocumentsBefore(r) ==
    /\ At(r, "paging")
    /\ Reply(r, 200, Cardinality(DOMAIN documents), request[r].total)
    /\ OnlyRequest

PageDocuments(r) ==
    /\ At(r, "paging")
    /\ Reply(r, 200, request[r].total, Cardinality(DOMAIN documents))
    /\ OnlyRequest

CountChunks(r) ==
    /\ r \in Readers
    /\ At(r, "new")
    /\ \E d \in {Old} \cup Uploads :
          IF d \in DOMAIN documents
          THEN request' = [request EXCEPT
                  ![r].phase = "paging_chunks", ![r].doc = d,
                  ![r].total = Cardinality({c \in DOMAIN chunks : c[1] = d})]
          ELSE Answer(r, 404)
    /\ OnlyRequest

PageChunks(r) ==
    /\ At(r, "paging_chunks")
    /\ Reply(r, 200, request[r].total,
             Cardinality({c \in DOMAIN chunks : c[1] = request[r].doc}))
    /\ OnlyRequest

-----------------------------------------------------------------------------
Begins(r) ==
    \/ RefuseUpload(r) \/ PrepareUpload(r) \/ CreateDocument(r)
    \/ BackfillNothing(r) \/ StartBackfill(r)
    \/ CountDocuments(r) \/ CountChunks(r)

Goes(r) ==
    \/ EmbedUpload(r) \/ EmbedFails(r) \/ EmbedBatch(r) \/ Embedded(r)
    \/ StoreTemporary(r) \/ StoreReplace(r) \/ CommitUpload(r) \/ RemoveFile(r)
    \/ Refresh(r) \/ WriteVector(r) \/ CommitBackfill(r) \/ AnswerBackfill(r)
    \/ PageDocuments(r) \/ PageChunks(r)

Fails(r) ==
    \/ CloseFails(r) \/ StoreFails(r) \/ CommitUploadFails(r) \/ RemoveFileFails(r)
    \/ RefreshFails(r) \/ CommitBackfillFails(r)

Next == \E r \in Requests : Begins(r) \/ Goes(r) \/ Fails(r) \/ Dies(r)

Spec == Init /\ [][Next]_vars

(* What a request has begun goes on: every POST has a timeout, a statement *)
(* ends, and a row is locked only by a request that goes on.               *)
FairSpec == Spec /\ \A r \in Requests : WF_vars(Goes(r))

-----------------------------------------------------------------------------
Committed(r) == r \in DOMAIN documents

Refused(r) == At(r, "answered") /\ request[r].status \notin {200, 201, 500}

Batches(n) == (n + BatchSize - 1) \div BatchSize

Documents == {Old} \cup Uploads \cup Creates

(* How many chunks a document can have that is added.                      *)
Sizes == {0} \cup {Len(SplitText(t)) : t \in Texts}

RequestState ==
    [phase : {"never", "new", "answered", "dead", "prepared", "embedding", "storing",
              "replacing", "committing", "removing", "refreshing", "writing", "committed",
              "paging", "paging_chunks"},
     doc : Documents, text : Texts \cup {<<>>},
     spans : Seq([char_start : Nat, char_end : Nat]),
     targets : Seq(Nat), vectors : Seq(Documents \X Nat), tries : 0..MaxRetries, calls : Nat,
     locks : SUBSET (Documents \X Nat), written : Nat,
     status : Nat, total : Nat, embedded : Nat]

KnowledgeTypeOK ==
    /\ DOMAIN documents \subseteq Documents /\ IsFiniteSet(DOMAIN documents)
    /\ \A d \in DOMAIN documents : documents[d] \in [stored : BOOLEAN, chunk_count : Nat]
    /\ files \cup temporary \cup ackLost \cup uncleaned \subseteq Uploads
    /\ request \in [Requests -> RequestState]
    /\ faults \in 0..MaxFaults

(* A document has all of its chunks, and a chunk its own vector or none.   *)
ChunksInv ==
    /\ DOMAIN chunks = UNION {ChunksOf(d) : d \in DOMAIN documents}
    /\ \A c \in DOMAIN chunks : chunks[c] \in {NoVector} \cup [of : {c}, by : Requests]

(* Which requests reach which phase, and what they have kept on the way.   *)
PhaseInv(r) ==
    /\ At(r, "prepared") \/ At(r, "storing") \/ At(r, "replacing")
          \/ At(r, "committing") \/ At(r, "removing") => r \in Uploads
    /\ At(r, "refreshing") => r \in Uploads \cup Creates
    /\ At(r, "embedding") => r \in Uploads \cup Backfills
    /\ At(r, "writing") \/ At(r, "committed") => r \in Backfills
    /\ At(r, "paging") \/ At(r, "paging_chunks") => r \in Readers
    /\ At(r, "new") => request[r] = Idle
    /\ At(r, "prepared") =>
          /\ request[r].text \in Texts
          /\ request[r] = [Idle EXCEPT !.phase = "prepared", !.doc = r, !.text = request[r].text,
                                       !.spans = SplitText(request[r].text)]

Sending(r) ==
    \/ At(r, "embedding") \/ At(r, "writing")
    \/ At(r, "storing") \/ At(r, "replacing") \/ At(r, "committing")

(* The vectors that have come are those of the first targets, in order; an *)
(* upload's targets are all of its chunks.                                 *)
VectorsInv(r) ==
    Sending(r) =>
        /\ Len(request[r].vectors) <= Len(request[r].targets)
        /\ ~At(r, "embedding") => Len(request[r].vectors) = Len(request[r].targets)
        /\ \A i \in DOMAIN request[r].vectors :
              request[r].vectors[i] = <<request[r].doc, request[r].targets[i]>>
        /\ r \in Uploads =>
              /\ request[r].doc = r /\ Len(request[r].targets) \in Sizes
              /\ \A i \in DOMAIN request[r].targets : request[r].targets[i] = i

(* A retry repeats all batches, so with k batches of this try answered the *)
(* service has been asked k times, and at most once for each batch of each *)
(* earlier try.                                                            *)
CallsInv(r) ==
    LET all == Batches(Len(request[r].targets))
    IN  \E k \in 0..all :
            /\ Len(request[r].vectors) = Min({k * BatchSize, Len(request[r].targets)})
            /\ request[r].calls <= request[r].tries * all + k

(* What a backfill has locked is what it has found blank, and nobody else  *)
(* has locked it; everything that is blank is among its targets.           *)
LocksInv(r) ==
    LET doc == request[r].doc
        targets == request[r].targets
        passed == {<<doc, targets[i]>> : i \in 1..request[r].written}
    IN  /\ \A s \in Requests \ {r} : request[r].locks \cap request[s].locks = {}
        /\ ~At(r, "writing") => request[r].locks = {}
        /\ At(r, "embedding") => request[r].written = 0 /\ request[r].embedded = 0
        /\ r \in Backfills /\ (At(r, "embedding") \/ At(r, "writing")) =>
              /\ doc \in DOMAIN documents
              /\ \A i, j \in DOMAIN targets : i # j => targets[i] # targets[j]
              /\ \A i \in DOMAIN targets : <<doc, targets[i]>> \in ChunksOf(doc)
              /\ Blanks(doc) \subseteq {<<doc, targets[i]>> : i \in DOMAIN targets}
        /\ At(r, "writing") =>
              /\ request[r].written <= Len(targets)
              /\ request[r].locks = passed \cap Blanks(doc)
              /\ IsFiniteSet(request[r].locks)
              /\ request[r].embedded = Cardinality(request[r].locks)

(* Who reads a list has seen no more than there is.                        *)
TotalsInv(r) ==
    /\ At(r, "paging") => request[r].total <= Cardinality(DOMAIN documents)
    /\ At(r, "paging_chunks") =>
          /\ request[r].doc \in DOMAIN documents
          /\ request[r].total = Cardinality(ChunksOf(request[r].doc))
    /\ r \in Readers /\ At(r, "answered") => request[r].total <= request[r].embedded

(* Every variable has its type; a document has all of its chunks, each     *)
(* with its own vector; a retry repeats all batches of embed_texts, so the *)
(* service is asked at most MaxRetries + 1 times for each; backfills do    *)
(* not lock the same row; a list never has fewer rows than the total it is *)
(* sent with.                                                              *)
KnowledgeInv ==
    /\ KnowledgeTypeOK
    /\ ChunksInv
    /\ \A r \in Requests :
          /\ PhaseInv(r) /\ VectorsInv(r) /\ CallsInv(r) /\ LocksInv(r) /\ TotalsInv(r)
          /\ request[r].calls <= (MaxRetries + 1) * Batches(Len(request[r].targets))

(* What an upload or a creation finds of its own on its way.               *)
TraceInv(r) ==
    /\ r \in files \ DOMAIN documents =>
          At(r, "committing") \/ At(r, "removing") \/ At(r, "dead") \/ r \in uncleaned
    /\ r \in temporary => At(r, "replacing") \/ At(r, "dead") \/ r \in uncleaned
    /\ r \in uncleaned => At(r, "answered") /\ request[r].status = 500
    /\ At(r, "never") \/ At(r, "new") \/ At(r, "prepared") \/ Sending(r) => ~Committed(r)
    /\ At(r, "committing") => r \in files
    /\ At(r, "removing") /\ Committed(r) => r \in ackLost
    /\ At(r, "refreshing") => Committed(r) /\ (r \in Uploads => r \in files)
    /\ Refused(r) => ~Committed(r)
    /\ At(r, "answered") /\ request[r].status = 201 =>
          Committed(r) /\ (r \in Uploads => r \in files)

(* The file and the rows of an upload agree, over all its errors: a row    *)
(* has its file, unless its commit was taken for a failure; a file without *)
(* a row, or a .tmp file, is that of an upload under way, of one that died *)
(* or of one answered 500 whose removal of it failed as well.  What is     *)
(* answered is what is there: a refusal, of the embedding service above    *)
(* all, leaves neither file nor row (upload_document, store_file).         *)
UploadsAccounted ==
    /\ \A d \in DOMAIN documents : documents[d].stored => d \in files \cup ackLost
    /\ \A r \in Uploads \cup Creates : TraceInv(r)

WorkCounted(r) ==
    LET mine == {c \in DOMAIN chunks : chunks[c] # NoVector /\ chunks[c].by = r}
        complete == At(r, "committed") \/ (At(r, "answered") /\ request[r].status = 200)
    IN  /\ mine # {} =>
              complete \/ At(r, "dead") \/ (At(r, "answered") /\ request[r].status = 500)
        /\ complete => request[r].embedded = Cardinality(mine)
        /\ complete \/ mine # {} =>
              request[r].doc \in DOMAIN documents /\ Blanks(request[r].doc) = {}

(* Concurrent backfills share the work and count it once: what each        *)
(* reports as embedded is what it wrote; one that is refused or has not    *)
(* come to its commit has written nothing, and whoever has written, also   *)
(* if it died before it answered or takes its commit for a failure, has    *)
(* left nothing of the document to do (backfill_document_embeddings).      *)
BackfillsCountOnce == \A r \in Backfills : WorkCounted(r)

(* The chunks of an upload cover its text and keep to their size           *)
(* (split_text).                                                           *)
ChunksCoverText ==
    \A r \in Uploads : At(r, "prepared") => SplitSound(request[r].text, request[r].spans)

(* Documents appear whole, vectors belong to their chunks and are written  *)
(* once, whatever fails and in whatever order the service answers.         *)
Promise == INSTANCE KnowledgePromise WITH
    Documents <- Uploads \cup Creates,
    published <- DOMAIN documents,
    vectors <- [c \in DOMAIN chunks |->
                   IF chunks[c] = NoVector THEN NoVector ELSE chunks[c].of]

KeepsPromise == Promise!Spec

(* Every request that has begun is answered, unless it dies: retries end,  *)
(* and backfills of one document do not wait for each other for ever.      *)
RequestsEnd ==
    \A r \in Requests : UnderWay(r) ~> ~UnderWay(r)
=============================================================================
