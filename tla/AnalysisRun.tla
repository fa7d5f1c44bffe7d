---------------------------- MODULE AnalysisRun -----------------------------
(***************************************************************************)
(* What happens between POST /agent/runs and its answer: the nodes of the  *)
(* graph with all they call.  Retrieval (backend/app/agent/retrieval.py,   *)
(* services/knowledge_search.py), the read-only business tools             *)
(* (agent/business_tools.py), the draft (agent/drafting.py,                *)
(* services/generation/qwen.py), and what becomes of an error (start_      *)
(* agent_run in api/routes/agent.py, agent/run_errors.py).                 *)
(*                                                                         *)
(* One run: runs share nothing but the knowledge base, which grows while   *)
(* this one reads it in several transactions.                              *)
(***************************************************************************)
EXTENDS ServiceErrors, Integers, SequencesExt

CONSTANTS
    RunId,            \* the id of the run
    Chunks,           \* chunks of the knowledge base, in the order of their ids
    TopK,             \* top_k of the request
    Candidates,       \* candidate_count of a hybrid search
    RrfK,             \* hybrid_rrf_k
    Unit,             \* scores are counted in units of 1 / Unit, without a rest
    Bases,            \* the knowledge bases a run may start with
    Requests,         \* payloads, with the provider and tools configured
    RecordIds,        \* record ids of the business systems
    ToolLimit,        \* agent_business_tool_limit
    MaxRetries,       \* generation_max_retries
    MaxEmbedRetries,  \* embedding_max_retries
    MaxGrowth         \* bound: chunks that appear or are embedded meanwhile

ASSUME ChunksAssumption == Chunks \subseteq Nat /\ IsFiniteSet(Chunks)
ASSUME BasesAssumption ==
    \A b \in Bases : b.embedded \subseteq b.present /\ b.present \subseteq Chunks
ASSUME RequestsAssumption ==
    \A r \in Requests :
        /\ r.mode \in {"keyword", "vector", "hybrid"} /\ r.use_model \in BOOLEAN
        /\ r.provider \in {"dashscope", "openai_compatible"}
        /\ r.tools \in Seq([name : {r.tools[t].name : t \in DOMAIN r.tools},
                            system : {"mes", "qms"}])
ASSUME SettingsAssumption ==
    /\ {TopK, Candidates, RrfK, ToolLimit} \subseteq Nat \ {0}
    /\ {MaxRetries, MaxEmbedRetries, MaxGrowth} \subseteq Nat
ASSUME UnitAssumption ==
    Unit \in Nat \ {0} /\ \A i \in 1..Candidates \cup 1..TopK : Unit % (RrfK + i) = 0

VARIABLES
    base,      \* the chunks that are there, those with a vector, growth so far
    request,   \* the payload and settings of the run
    status,    \* the status in the latest checkpoint
    phase,     \* what the running node waits for
    hits,      \* what the vector and the keyword search returned
    evidence,  \* the chunks found, best first
    tools,     \* what each business tool returned
    context,   \* business_records and business_tool_failures
    asking,    \* tries of the service asked, format attempt, requests sent
    draft,     \* the recommendation
    errors,    \* agent_run_error_events of the run
    reply      \* the answer of the request, and the error it answers (history)

vars == <<base, request, status, phase, hits, evidence, tools, context, asking,
          draft, errors, reply>>

NoHits == [vector |-> <<>>, keyword |-> <<>>]

Asked == [answered |-> FALSE, records |-> <<>>, failure |-> "none"]

NoContext == [records |-> <<>>, failures |-> {}]

NotAsked == [tries |-> 0, attempt |-> 0, sent |-> 0]

NoDraft == [mode |-> "none"]

NoReply == [status |-> 0, cause |-> "none"]

Init ==
    /\ \E b \in Bases :
          base = [present |-> b.present, embedded |-> b.embedded, growth |-> 0]
    /\ request \in Requests
    /\ status = "none"
    /\ phase = "new"
    /\ hits = NoHits
    /\ evidence = <<>>
    /\ tools = [t \in DOMAIN request.tools |-> Asked]
    /\ context = NoContext
    /\ asking = NotAsked
    /\ draft = NoDraft
    /\ errors = {}
    /\ reply = NoReply

-----------------------------------------------------------------------------
(* start_agent_run: the input is the first checkpoint.                     *)

Start ==
    /\ phase = "new"
    /\ phase' = "starting"
    /\ UNCHANGED <<base, request, status, hits, evidence, tools, context, asking,
                   draft, errors, reply>>

Invoke ==
    /\ phase = "starting"
    /\ phase' = "searching"
    /\ status' = "created"
    /\ UNCHANGED <<base, request, hits, evidence, tools, context, asking, draft,
                   errors, reply>>

(* A node raises, or the workflow around it ("workflow"): the error is     *)
(* classified and written to the history, when that write succeeds, and    *)
(* the request is answered.                                                *)
NodeRaises(stage, error) ==
    /\ phase' = "failed"
    /\ errors' \in {errors, errors \cup {[stage |-> stage, is |-> Classified(error)]}}
    /\ reply' = [status |-> IF error \in DOMAIN Kind THEN HttpStatus(error) ELSE 500,
                 cause |-> error]
    /\ asking' = NotAsked
    /\ hits' = NoHits
    /\ UNCHANGED <<base, request, status, evidence, tools, context, draft>>

-----------------------------------------------------------------------------
(* The retrieval node.  The question is any, so a search may rank what it  *)
(* sees in any order and leave out any of it (keyword_distance < 1, the    *)
(* approximate index), but no more than its limit.                         *)

Uploaded ==
    /\ phase \in {"searching", "embedding", "vector", "keyword", "keyword_only"}
    /\ base.growth < MaxGrowth
    /\ \E c \in Chunks :
          base' = [present |-> base.present \cup {c},
                   embedded |-> base.embedded \cup {c}, growth |-> base.growth + 1]
    /\ UNCHANGED <<request, status, phase, hits, evidence, tools, context, asking,
                   draft, errors, reply>>

Found(seen, limit) ==
    {s \in UNION {[1..n -> seen] : n \in 0..Min({limit, Cardinality(seen)})} : IsInjective(s)}

Rank(s, c) == CHOOSE i \in DOMAIN s : s[i] = c

(* 1 / (RrfK + rank)                                                       *)
Share(s, c) == IF c \in Range(s) THEN Unit \div (RrfK + Rank(s, c)) ELSE 0

(* A bug to catch: a chunk in both channels keeps the score of the first.  *)
RrfScoreOfFirst(found, c) ==
    IF c \in Range(found.vector) THEN Share(found.vector, c) ELSE Share(found.keyword, c)

RrfScore(found, c) == Share(found.vector, c) + Share(found.keyword, c)

Before(found, c, d) ==
    \/ RrfScore(found, c) > RrfScore(found, d)
    \/ RrfScore(found, c) = RrfScore(found, d) /\ c < d

Cut(s, n) == SubSeq(s, 1, Min({n, Len(s)}))

(* The one list of all elements of S in which each is before the next.     *)
Sorted(S, before(_, _)) ==
    {s \in [1..Cardinality(S) -> S] : \A i, j \in DOMAIN s : i < j => before(s[i], s[j])}

(* fuse_search_hits                                                        *)
Fuse(found) ==
    {Cut(s, TopK) : s \in Sorted(Range(found.vector) \cup Range(found.keyword),
                                 LAMBDA c, d : Before(found, c, d))}

(* A bug to catch: the node returns its evidence without its status.       *)
RetrievedUnsaid(found, result) ==
    /\ hits' = found
    /\ evidence' = result
    /\ phase' = "calling"
    /\ asking' = NotAsked
    /\ UNCHANGED <<base, request, status, tools, context, draft, errors, reply>>

Retrieved(found, result) ==
    /\ hits' = found
    /\ evidence' = result
    /\ status' = "querying_business_context"
    /\ phase' = "calling"
    /\ asking' = NotAsked
    /\ UNCHANGED <<base, request, tools, context, draft, errors, reply>>

Waits(next) ==
    /\ phase' = next
    /\ UNCHANGED <<base, request, status, evidence, tools, context, draft, errors, reply>>

SearchKeywords ==
    /\ phase = "searching" /\ request.mode = "keyword"
    /\ \E found \in Found(base.present, TopK) :
          Retrieved([NoHits EXCEPT !.keyword = found], found)

(* has_searchable_chunks                                                   *)
CheckSearchable ==
    /\ phase = "searching" /\ request.mode # "keyword"
    /\ IF base.embedded # {} THEN Waits("embedding") /\ UNCHANGED <<hits, asking>>
       ELSE IF request.mode = "hybrid" THEN Waits("keyword_only") /\ UNCHANGED <<hits, asking>>
       ELSE Retrieved(NoHits, <<>>)

SearchKeywordsOnly ==
    /\ phase = "keyword_only"
    /\ \E found \in Found(base.present, TopK) :
          LET only == [NoHits EXCEPT !.keyword = found]
          IN  \E result \in Fuse(only) : Retrieved(only, result)

(* embed_query_text, with a transaction neither before nor after it.       *)
EmbedQuery ==
    /\ phase = "embedding"
    /\ Waits("vector")
    /\ UNCHANGED hits
    /\ asking' = NotAsked

EmbedQueryFails ==
    /\ phase = "embedding"
    /\ \E error \in CallErrors \cup {ConfigurationError} :
          IF Retryable(error) /\ asking.tries < MaxEmbedRetries
          THEN /\ Waits("embedding")
               /\ UNCHANGED hits
               /\ asking' = [asking EXCEPT !.tries = @ + 1]
          ELSE NodeRaises("retrieval", error)

SearchVectors ==
    /\ phase = "vector"
    /\ \E found \in Found(base.embedded,
                          IF request.mode = "hybrid" THEN Candidates ELSE TopK) :
          IF request.mode = "vector"
          THEN Retrieved([NoHits EXCEPT !.vector = found], found)
          ELSE /\ Waits("keyword")
               /\ hits' = [hits EXCEPT !.vector = found]
               /\ UNCHANGED asking

SearchBoth ==
    /\ phase = "keyword"
    /\ \E found \in Found(base.present, Candidates) :
          LET both == [hits EXCEPT !.keyword = found]
          IN  \E result \in Fuse(both) : Retrieved(both, result)

(* A statement of the database raises, or closing the provider does.       *)
SearchRaises ==
    /\ phase \in {"searching", "embedding", "keyword_only", "vector", "keyword"}
    /\ NodeRaises("retrieval", "unexpected")

-----------------------------------------------------------------------------
(* The business tools are asked at the same time, each with its timeout.   *)

ToolErrors == {"timeout", "authentication", "permission", "unavailable",
               "invalid_response", "unexpected"}

Distinct(list) == \A i, j \in DOMAIN list : list[i].name = list[j].name => i = j

(* What an adapter may return: too many records, those of another system,  *)
(* the same twice.                                                         *)
ToolRecords ==
    UNION {[1..n -> [system : {"mes", "qms"}, id : RecordIds]] : n \in 0..(ToolLimit + 1)}

(* _validate_records                                                       *)
Acceptable(tool, found) ==
    /\ Len(found) <= ToolLimit
    /\ \A i \in DOMAIN found : found[i].system = tool.system
    /\ \A i, j \in DOMAIN found : found[i].id = found[j].id => i = j

Answered(found, failure) == [answered |-> TRUE, records |-> found, failure |-> failure]

CallTools ==
    /\ phase = "calling"
    /\ hits' = NoHits
    /\ IF Distinct(request.tools)
       THEN /\ Waits("gathering")
            /\ UNCHANGED asking
       ELSE NodeRaises("business_context", "value")

Settle(t, result) ==
    /\ tools' = [tools EXCEPT ![t] = result]
    /\ UNCHANGED <<base, request, status, phase, hits, evidence, context, asking,
                   draft, errors, reply>>

ToolReturns(t) ==
    /\ phase = "gathering" /\ ~tools[t].answered
    /\ \E found \in ToolRecords :
          Settle(t, IF Acceptable(request.tools[t], found) THEN Answered(found, "none")
                    ELSE Answered(<<>>, "invalid_response"))

ToolFails(t) ==
    /\ phase = "gathering" /\ ~tools[t].answered
    /\ \E failure \in ToolErrors : Settle(t, Answered(<<>>, failure))

(* to_agent_business_context, in the order of the tools.                   *)
RecordsOf(t) ==
    [i \in DOMAIN tools[t].records |->
        [tool_name |-> request.tools[t].name, record |-> tools[t].records[i]]]

(* A bug to catch: the first failure cancels the others.                   *)
AllOrNothing ==
    LET failed == {t \in DOMAIN tools : tools[t].failure # "none"}
    IN  [records |-> IF failed = {} THEN FlattenSeq([t \in DOMAIN tools |-> RecordsOf(t)])
                     ELSE <<>>,
         failures |-> {<<request.tools[t].name, tools[t].failure>> : t \in failed}]

BusinessContext ==
    [records |-> FlattenSeq([t \in DOMAIN tools |-> RecordsOf(t)]),
     failures |-> {<<request.tools[t].name, tools[t].failure>> :
                      t \in {t \in DOMAIN tools : tools[t].failure # "none"}}]

(* A bug to catch: the node waits until every tool has succeeded.          *)
ToolsSucceed ==
    /\ phase = "gathering"
    /\ \A t \in DOMAIN tools : tools[t].answered /\ tools[t].failure = "none"
    /\ context' = BusinessContext
    /\ status' = "drafting"
    /\ phase' = "drafting"
    /\ UNCHANGED <<base, request, hits, evidence, tools, asking, draft, errors, reply>>

ToolsReturn ==
    /\ phase = "gathering"
    /\ \A t \in DOMAIN tools : tools[t].answered
    /\ context' = BusinessContext
    /\ status' = "drafting"
    /\ phase' = "drafting"
    /\ UNCHANGED <<base, request, hits, evidence, tools, asking, draft, errors, reply>>

-----------------------------------------------------------------------------
(* The draft.                                                              *)

Drafted(d) ==
    /\ draft' = d
    /\ status' = "pending_approval"
    /\ phase' = "interrupted"
    /\ UNCHANGED <<base, request, hits, evidence, tools, context, errors, reply>>

(* EvidenceBasedDraftGenerator; reason is that of _fallback_reason.        *)
Fallback(reason) ==
    [mode |-> "deterministic_fallback", reason |-> reason,
     citations |-> Cut(evidence, 3),
     references |-> [i \in 1..Min({3, Len(context.records)}) |-> context.records[i]],
     acts |-> evidence # <<>> \/ context.records # <<>>]

FallbackReason(error) ==
    IF error \in {"overloaded", "rejected"} THEN "service"
    ELSE IF error \in {"timeout", "transport"} THEN "network" ELSE "configuration_or_response"

Grounds == evidence # <<>> \/ context.records # <<>>

DraftByRule ==
    /\ phase = "drafting"
    /\ ~request.use_model \/ ~Grounds
    /\ Drafted(Fallback("none"))
    /\ UNCHANGED asking

(* The provider is created, or raises because it is not configured.        *)
CreateProvider ==
    /\ phase = "drafting"
    /\ request.use_model /\ Grounds
    /\ Waits("asking")
    /\ UNCHANGED <<hits, asking>>

CreateProviderFails ==
    /\ phase = "drafting"
    /\ request.use_model /\ Grounds
    /\ Drafted(Fallback(FallbackReason(ConfigurationError)))
    /\ UNCHANGED asking

(* What a model may answer with: text that is no JSON, short enough to be  *)
(* sent back for correction or not; JSON that breaks the contract; or a    *)
(* recommendation that cites numbers of evidence and of records.           *)
Garbled == {"short", "long", "contract"}

Numbers(n, most) == UNION {[1..k -> 0..(n + 1)] : k \in 0..most}

Recommendations ==
    [acts : BOOLEAN, citations : Numbers(Len(evidence), 2),
     references : Numbers(Len(context.records), 1)]

(* dict.fromkeys: in the order of first mention.                           *)
FirstMention(numbers, n) == Min({i \in DOMAIN numbers : numbers[i] = n})

Unique(numbers) ==
    Sorted(Range(numbers), LAMBDA m, n : FirstMention(numbers, m) < FirstMention(numbers, n))

Cited(numbers, list) == {[i \in DOMAIN u |-> list[u[i]]] : u \in Unique(numbers)}

(* A bug to catch: an action need not cite anything.                       *)
AnyInRange(r) ==
    /\ Range(r.citations) \subseteq DOMAIN evidence
    /\ Range(r.references) \subseteq DOMAIN context.records

Acceptance(r) ==
    /\ Range(r.citations) \subseteq DOMAIN evidence
    /\ Range(r.references) \subseteq DOMAIN context.records
    /\ r.acts => r.citations # <<>> \/ r.references # <<>>

Sent == [NotAsked EXCEPT !.sent = asking.sent + 1]

(* A bug to catch: a model that has failed for good ends the run.          *)
GivesUpTheRun(error) == NodeRaises("drafting", error)

GivesUp(error) == Drafted(Fallback(FallbackReason(error))) /\ asking' = Sent

AskFails ==
    /\ phase = "asking"
    /\ \E error \in CallErrors :
          IF Retryable(error) /\ asking.tries < MaxRetries
          THEN /\ Waits("asking")
               /\ UNCHANGED hits
               /\ asking' = [Sent EXCEPT !.tries = asking.tries + 1]
          ELSE GivesUp(error)

(* A bug to catch: a correction that fails again is corrected again.       *)
CorrectableAlways(answer) ==
    request.provider = "openai_compatible" /\ asking.sent < 4 /\ answer = "short"

Correctable(answer) ==
    request.provider = "openai_compatible" /\ asking.attempt = 0 /\ answer = "short"

AskGarbled ==
    /\ phase = "asking"
    /\ \E answer \in Garbled :
          IF Correctable(answer)
          THEN /\ Waits("asking")
               /\ UNCHANGED hits
               /\ asking' = [asking EXCEPT !.attempt = 1, !.sent = @ + 1]
          ELSE GivesUp("malformed")

AskAnswered ==
    /\ phase = "asking"
    /\ \E r \in Recommendations :
          IF Acceptance(r)
          THEN /\ \E citations \in Cited(r.citations, evidence),
                     references \in Cited(r.references, context.records) :
                     Drafted([mode |-> "model", reason |-> "none", acts |-> r.acts,
                              citations |-> citations, references |-> references])
               /\ asking' = Sent
          ELSE GivesUp("malformed")

(* Only an error of the generation service becomes a draft by rule: the    *)
(* node raises any other, that of closing the provider included.           *)
DraftRaises ==
    /\ phase \in {"drafting", "asking"}
    /\ NodeRaises("drafting", "unexpected")

(* request_approval interrupts the graph, and ainvoke returns.             *)
Return ==
    /\ phase = "interrupted"
    /\ phase' = "returned"
    /\ reply' = [status |-> 202, cause |-> "none"]
    /\ UNCHANGED <<base, request, status, hits, evidence, tools, context, asking,
                   draft, errors>>

(* What raises between the nodes, as a checkpoint that cannot be written,  *)
(* is no node's error.                                                     *)
WorkflowRaises ==
    /\ phase \notin {"new", "returned", "failed"}
    /\ NodeRaises("workflow", "unexpected")

-----------------------------------------------------------------------------
Retrieve ==
    \/ SearchKeywords \/ CheckSearchable \/ SearchKeywordsOnly \/ EmbedQuery
    \/ EmbedQueryFails \/ SearchVectors \/ SearchBoth

Gather ==
    \/ CallTools
    \/ \E t \in DOMAIN tools : ToolReturns(t) \/ ToolFails(t)
    \/ ToolsReturn

Write ==
    \/ DraftByRule \/ CreateProvider \/ CreateProviderFails
    \/ AskFails \/ AskGarbled \/ AskAnswered

Work == Invoke \/ Retrieve \/ Gather \/ Write \/ Return

Breaks == SearchRaises \/ DraftRaises \/ WorkflowRaises

Next == Start \/ Uploaded \/ Work \/ Breaks

Spec == Init /\ [][Next]_vars

(* Every call of a service and every query of a tool has a timeout, and    *)
(* every statement of the database ends.  Nothing has to break.            *)
FairSpec == Spec /\ WF_vars(Work)

-----------------------------------------------------------------------------
Everything(found) == Range(found.vector) \cup Range(found.keyword)

(* Where a list has a chunk: those it has not are behind all it has.       *)
Place(s, c) == IF c \in Range(s) THEN Rank(s, c) ELSE Len(s) + 1

(* No channel ranks d higher than c.                                       *)
Above(found, c, d) ==
    /\ Place(found.vector, c) <= Place(found.vector, d)
    /\ Place(found.keyword, c) <= Place(found.keyword, d)
    /\ c # d

KeepsOrder(found, ranking) ==
    /\ IsInjective(ranking)
    /\ Range(ranking) \subseteq Everything(found)
    /\ Len(ranking) = Min({TopK, Cardinality(Everything(found))})
    /\ \A c, d \in Everything(found) :
          Above(found, c, d) /\ d \in Range(ranking) =>
              c \in Range(ranking) /\ Rank(ranking, c) < Rank(ranking, d)

(* A fused ranking is one of everything found, cut at TopK, and never puts *)
(* a chunk behind one that no channel ranks higher and some channel lower  *)
(* (fuse_search_hits); a ranking of one channel is left as it is.          *)
FusionKeepsOrder == phase = "calling" => KeepsOrder(hits, evidence)

(* A tool that fails or is late hides nothing the others return: each is   *)
(* in the context once, by its records in the order of the tools, or by    *)
(* its failure (collect_business_context).                                 *)
ToolsAreIndependent ==
    status \in {"drafting", "pending_approval"} =>
        /\ \A t \in DOMAIN tools :
              LET name == request.tools[t].name
                  mine == {i \in DOMAIN context.records : context.records[i].tool_name = name}
              IN  /\ {context.records[i].record : i \in mine} = Range(tools[t].records)
                  /\ (\E f \in context.failures : f[1] = name) <=> tools[t].failure # "none"
        /\ \A i, j \in DOMAIN context.records : i < j =>
              \E t, u \in DOMAIN tools :
                  /\ t <= u
                  /\ request.tools[t].name = context.records[i].tool_name
                  /\ request.tools[u].name = context.records[j].tool_name

(* Whatever the model answers, a draft cites what was found for this run,  *)
(* each piece once, and proposes nothing without citing something          *)
(* (generate in services/generation/qwen.py, agent/drafting.py).           *)
DraftIsGrounded ==
    status = "pending_approval" =>
        /\ IsInjective(draft.citations) /\ IsInjective(draft.references)
        /\ Range(draft.citations) \subseteq Range(evidence)
        /\ Range(draft.references) \subseteq Range(context.records)
        /\ draft.acts => draft.citations # <<>> \/ draft.references # <<>>
        /\ draft.mode = "model" => request.use_model /\ Grounds

(* One correction of the format within each of MaxRetries + 1 tries, and   *)
(* none for dashscope (docs/PROJECT_STATUS.md:88).                         *)
PerTry == IF request.provider = "openai_compatible" THEN 2 ELSE 1

RequestsBounded == asking.sent <= (MaxRetries + 1) * PerTry

(* The status of the checkpoint a node starts from.                        *)
NodeStatus == [retrieval |-> "created", business_context |-> "querying_business_context",
               drafting |-> "drafting"]

(* What ended the run is an error of the embedding or generation service.  *)
ServiceFailed == reply.cause \in CallErrors \cup {ConfigurationError}

(* What the history says of an error agrees with the checkpoint and with   *)
(* what the client is told: the stage is that of the node that ran, unless *)
(* the error is the workflow's; the client is told to come back when the   *)
(* history says another try may help; and only retrieval has errors of a   *)
(* kind.  A failure of the model never ends a run: what ends it while it   *)
(* drafts is no error of the service (start_agent_run in                   *)
(* api/routes/agent.py, generate in agent/drafting.py).                    *)
ErrorsAgree ==
    /\ \A e \in errors :
          /\ e.stage \in DOMAIN NodeStatus => status = NodeStatus[e.stage]
          /\ e.is.retryable => reply.status = 503
          /\ e.is.kind = "unexpected" <=> reply.status = 500
          /\ e.is.kind # "unexpected" => e.stage = "retrieval"
    /\ ServiceFailed => status = "created" /\ reply.status \in {502, 503}

(* Every variable has its type.                                            *)
NodesTypeOK ==
    /\ base \in [present : SUBSET Chunks, embedded : SUBSET Chunks, growth : Nat]
    /\ request \in Requests
    /\ hits \in [vector : Seq(Chunks), keyword : Seq(Chunks)]
    /\ evidence \in Seq(Chunks)
    /\ tools \in [DOMAIN request.tools ->
                     [answered : BOOLEAN, failure : ToolErrors \cup {"none"},
                      records : Seq([system : {"mes", "qms"}, id : RecordIds])]]
    /\ asking \in [tries : Nat, attempt : 0..1, sent : Nat]

(* The status of the latest checkpoint tells which node runs, and what is  *)
(* not broken has no error.                                                *)
ProgressInv ==
    /\ <<status, phase>> \in
          {"none"} \X {"new", "starting", "failed"} \cup
          {"created"} \X {"searching", "embedding", "vector", "keyword", "keyword_only",
                          "failed"} \cup
          {"querying_business_context"} \X {"calling", "gathering", "failed"} \cup
          {"drafting"} \X {"drafting", "asking", "failed"} \cup
          {"pending_approval"} \X {"interrupted", "returned", "failed"}
    /\ phase # "failed" => errors = {} /\ reply.cause = "none"

(* Between two searches, only what the vector search returned is known.    *)
HitsInv ==
    /\ IsInjective(hits.vector) /\ IsInjective(evidence)
    /\ phase \in {"new", "starting", "searching", "embedding", "vector", "keyword_only"} =>
          hits = NoHits
    /\ phase \in {"embedding", "vector", "keyword", "keyword_only"} => request.mode # "keyword"
    /\ phase = "keyword" => hits.keyword = <<>> /\ Len(hits.vector) <= Candidates

(* What a tool has left is what its adapter may leave.                     *)
ToolsInv ==
    /\ phase \in {"gathering", "drafting", "asking", "interrupted", "returned"} =>
          Distinct(request.tools)
    /\ \A t \in DOMAIN tools :
          /\ Acceptable(request.tools[t], tools[t].records)
          /\ tools[t].failure # "none" => tools[t].records = <<>>
    /\ status \in {"drafting", "pending_approval"} => context = BusinessContext

(* The model is asked for a run that has grounds; a try sends no more than *)
(* PerTry requests.                                                        *)
AskingInv ==
    /\ phase \notin {"embedding", "asking", "interrupted", "returned"} => asking = NotAsked
    /\ phase = "embedding" => asking.attempt = 0 /\ asking.sent = 0
    /\ phase = "asking" =>
          /\ request.use_model /\ Grounds
          /\ asking.tries <= MaxRetries /\ asking.attempt < PerTry
          /\ asking.sent <= asking.tries * PerTry + asking.attempt

(* The invariant of the nodes of a run, by its parts.                      *)
NodesInv ==
    /\ NodesTypeOK /\ ProgressInv /\ HitsInv /\ ToolsInv /\ AskingInv
    /\ FusionKeepsOrder /\ ToolsAreIndependent /\ DraftIsGrounded
    /\ RequestsBounded /\ ErrorsAgree

(* The nodes, in all their detail, are the nodes of ApprovalRuns: the      *)
(* checkpoints appear in their order, and an error names the node.         *)
Runs == INSTANCE ApprovalRuns WITH
    Runs <- {RunId}, RequestIds <- {}, Authors <- {}, Approvers <- {}, Handlers <- {},
    Carries <- <<>>, NoEvent <- "no event", MaxCrashes <- 0,
    start <- [r \in {RunId} |->
                 IF phase = "new" THEN "unborn"
                 ELSE IF phase \in {"failed", "returned"} THEN "returned" ELSE "running"],
    checkpoint <- [r \in {RunId} |-> [status |-> status, approved |-> "none"]],
    errors <- [r \in {RunId} |-> {e.stage : e \in errors}],
    audit <- [r \in {RunId} |-> "no event"],
    handler <- <<>>,
    crashes <- 0

ImplementsRuns == Runs!Spec

(* Every run that is started is answered, and by a draft unless something  *)
(* unexpected, or the embedding service, ends it: retries and corrections  *)
(* end, and so does the wait for the tools.                                *)
RunEnds ==
    phase = "starting" ~> \/ phase = "returned" /\ draft # NoDraft
                          \/ phase = "failed" /\ (ServiceFailed => status = "created")
=============================================================================
