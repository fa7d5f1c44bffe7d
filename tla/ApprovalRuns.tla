---------------------------- MODULE ApprovalRuns ----------------------------
(***************************************************************************)
(* The life of an agent run and its approval: POST /agent/runs and POST    *)
(* /agent/runs/{id}/approval (backend/app/api/routes/agent.py), the audit  *)
(* store (backend/app/agent/audit.py) and the workflow graph               *)
(* (backend/app/agent/workflow.py).                                        *)
(*                                                                         *)
(* A decision lives in two stores that share no transaction: the row in    *)
(* agent_audit_events, written first, and the LangGraph checkpoint, which  *)
(* the resumed graph writes twice: still pending after request_approval,   *)
(* then final.  Requests race with each other and with retransmissions of  *)
(* themselves, and may die between any two steps; a client that got no     *)
(* answer sends the same payload again.                                    *)
(***************************************************************************)
EXTENDS Integers

CONSTANTS
    Runs,        \* run ids
    RequestIds,  \* client-chosen ids of approval requests
    Authors,     \* who asks, how authenticated, with which comment
    Approvers,   \* the authors that pass the role check
    Handlers,    \* deliveries of approval requests
    Carries,     \* the payload of each delivery
    NoEvent,     \* no row in agent_audit_events
    MaxCrashes   \* bound: requests that die

Decisions == {"approved", "rejected"}

Payload == [run : Runs, id : RequestIds, author : Authors, approved : Decisions]

ASSUME CarriesAssumption == Carries \in [Handlers -> Payload]
ASSUME NoEventAssumption == NoEvent \notin Payload
ASSUME MaxCrashesAssumption == MaxCrashes \in Nat

VARIABLES
    start,       \* the request that started each run
    checkpoint,  \* the latest LangGraph checkpoint of each run
    errors,      \* agent_run_error_events: stages that failed, by run
    audit,       \* agent_audit_events, by run
    handler,     \* what each delivery of an approval request is doing
    crashes      \* requests that died so far

vars == <<start, checkpoint, errors, audit, handler, crashes>>

(* "none" is a thread without checkpoints; approved is absent until the    *)
(* request_approval node has returned.                                     *)
Statuses == {"none", "created", "querying_business_context", "drafting",
             "pending_approval", "completed", "rejected"}

Checkpoint == [status : Statuses, approved : Decisions \cup {"none"}]

Stages == {"retrieval", "business_context", "drafting", "workflow"}

Answers == {"ok", "conflict", "missing", "forbidden"}

HandlerState == [phase : {"idle", "loaded", "checking", "inserting", "resuming",
                          "rechecking", "invoking", "deciding", "finalizing"} \cup Answers,
                 seen : Checkpoint]

NoThread == [status |-> "none", approved |-> "none"]

Idle == [phase |-> "idle", seen |-> NoThread]

Init ==
    /\ start = [r \in Runs |-> "unborn"]
    /\ checkpoint = [r \in Runs |-> NoThread]
    /\ errors = [r \in Runs |-> {}]
    /\ audit = [r \in Runs |-> NoEvent]
    /\ handler = [h \in Handlers |-> Idle]
    /\ crashes = 0

-----------------------------------------------------------------------------
(* POST /agent/runs: the graph runs its nodes up to the interrupt, with a  *)
(* checkpoint after each one, and only then tells the client the run id.   *)
(* A node that raises, or the workflow around it, is written to the error  *)
(* history, when that write succeeds.                                      *)

Edges == {<<"none", "created">>, <<"created", "querying_business_context">>,
          <<"querying_business_context", "drafting">>, <<"drafting", "pending_approval">>}

NodeStage == {<<"created", "retrieval">>, <<"drafting", "drafting">>,
              <<"querying_business_context", "business_context">>}

StartRun(r) ==
    /\ start[r] = "unborn"
    /\ start' = [start EXCEPT ![r] = "running"]
    /\ UNCHANGED <<checkpoint, errors, audit, handler, crashes>>

RunNode(r) ==
    /\ start[r] = "running"
    /\ \E s \in Statuses : /\ <<checkpoint[r].status, s>> \in Edges
                          /\ checkpoint' = [checkpoint EXCEPT ![r].status = s]
    /\ UNCHANGED <<start, errors, audit, handler, crashes>>

StartReturns(r) ==
    /\ start[r] = "running"
    /\ checkpoint[r].status = "pending_approval"
    /\ start' = [start EXCEPT ![r] = "returned"]
    /\ UNCHANGED <<checkpoint, errors, audit, handler, crashes>>

StartFails(r, stage) ==
    /\ start[r] = "running"
    /\ stage = "workflow" \/ <<checkpoint[r].status, stage>> \in NodeStage
    /\ start' = [start EXCEPT ![r] = "returned"]
    /\ errors' \in {errors, [errors EXCEPT ![r] = @ \cup {stage}]}
    /\ UNCHANGED <<checkpoint, audit, handler, crashes>>

-----------------------------------------------------------------------------
(* POST /agent/runs/{id}/approval, one action between two awaits.          *)

Move(h, phase) == handler' = [handler EXCEPT ![h].phase = phase]

(* A bug to catch: a run is approvable until it is finished.               *)
AwaitingUntilFinished(c) == c.status \notin {"none", "completed", "rejected"}

(* A bug to catch: a run that was half resumed is not resumed again.       *)
AwaitingUndecided(c) == c.status = "pending_approval" /\ c.approved = "none"

Awaiting(c) == c.status = "pending_approval"

(* A bug to catch: an event of the same author is taken for a replay.      *)
SameAuthor(event, payload) == event # NoEvent /\ event.author = payload.author

SameDecision(event, payload) == event = payload

IsIdempotentReplay(c, event, payload) ==
    SameDecision(event, payload) /\ c.approved = payload.approved

(* The role check, then the first read of the run.                         *)
Receive(h) ==
    LET c == checkpoint[Carries[h].run] IN
    /\ handler[h].phase = "idle"
    /\ start[Carries[h].run] = "returned"
    /\ \/ Carries[h].author \notin Approvers /\ Move(h, "forbidden")
       \/ /\ Carries[h].author \in Approvers
          /\ c.status = "none"
          /\ Move(h, "missing")
       \/ /\ Carries[h].author \in Approvers
          /\ c.status # "none"
          /\ handler' = [handler EXCEPT ![h] = [phase |-> "loaded", seen |-> c]]
    /\ UNCHANGED <<start, checkpoint, errors, audit, crashes>>

(* The audit event is read; a run that is not awaiting is answered.        *)
Judge(h) ==
    LET p == Carries[h] IN
    /\ handler[h].phase = "loaded"
    /\ Move(h, IF Awaiting(handler[h].seen) THEN "checking"
               ELSE IF IsIdempotentReplay(handler[h].seen, audit[p.run], p) THEN "ok"
               ELSE "conflict")
    /\ UNCHANGED <<start, checkpoint, errors, audit, crashes>>

Existing(event, payload) == IF SameDecision(event, payload) THEN "resuming" ELSE "conflict"

(* A bug to catch: a decision on record is taken for a decision applied.   *)
AnswerOnRecord(h) ==
    LET p == Carries[h] IN
    /\ handler[h].phase = "checking"
    /\ Move(h, IF audit[p.run] = NoEvent THEN "inserting"
               ELSE IF SameDecision(audit[p.run], p) THEN "ok" ELSE "conflict")
    /\ UNCHANGED <<start, checkpoint, errors, audit, crashes>>

(* append_decision: the read before the INSERT.                            *)
CheckExisting(h) ==
    LET p == Carries[h] IN
    /\ handler[h].phase = "checking"
    /\ Move(h, IF audit[p.run] = NoEvent THEN "inserting" ELSE Existing(audit[p.run], p))
    /\ UNCHANGED <<start, checkpoint, errors, audit, crashes>>

IdIsFree(p) == \A r \in Runs : audit[r] # NoEvent => audit[r].id # p.id

(* A bug to catch: no unique constraint on the run of an event.            *)
InsertableTwice(p) == IdIsFree(p)

(* The primary key refuses a request id of another run, the unique         *)
(* constraint a second event of this run.                                  *)
Insertable(p) == audit[p.run] = NoEvent /\ IdIsFree(p)

(* append_decision: INSERT and COMMIT, or the read after an IntegrityError.*)
InsertEvent(h) ==
    LET p == Carries[h] IN
    /\ handler[h].phase = "inserting"
    /\ \/ /\ Insertable(p)
          /\ audit' = [audit EXCEPT ![p.run] = p]
          /\ Move(h, "resuming")
       \/ /\ ~Insertable(p)
          /\ Move(h, Existing(audit[p.run], p))
          /\ UNCHANGED audit
    /\ UNCHANGED <<start, checkpoint, errors, crashes>>

(* workflow.approve: its own read of the run, before the graph is invoked. *)
Approve(h) ==
    LET c == checkpoint[Carries[h].run] IN
    /\ handler[h].phase = "resuming"
    /\ Move(h, IF c.status = "none" THEN "missing"
               ELSE IF Awaiting(c) THEN "invoking" ELSE "rechecking")
    /\ UNCHANGED <<start, checkpoint, errors, audit, crashes>>

(* A bug to catch: the loser of that race is refused.                      *)
RefuseLoser(h) ==
    /\ handler[h].phase = "rechecking"
    /\ Move(h, "conflict")
    /\ UNCHANGED <<start, checkpoint, errors, audit, crashes>>

(* Another request resumed the run meanwhile: it is read once more and     *)
(* compared with the event append_decision returned, which equals p.       *)
Recheck(h) ==
    LET p == Carries[h] IN
    /\ handler[h].phase = "rechecking"
    /\ Move(h, IF IsIdempotentReplay(checkpoint[p.run], p, p) THEN "ok" ELSE "conflict")
    /\ UNCHANGED <<start, checkpoint, errors, audit, crashes>>

-----------------------------------------------------------------------------
(* graph.ainvoke(Command(resume = ...)): LangGraph loads the latest        *)
(* checkpoint, runs what is left of the graph and puts a checkpoint after  *)
(* each node, on top of whatever other requests have put meanwhile.        *)

Load(h) ==
    LET c == checkpoint[Carries[h].run] IN
    /\ handler[h].phase = "invoking"
    /\ handler' = [handler EXCEPT ![h] =
            [phase |-> IF c.status # "pending_approval" THEN "ok"
                       ELSE IF c.approved = "none" THEN "deciding" ELSE "finalizing",
             seen |-> c]]
    /\ UNCHANGED <<start, checkpoint, errors, audit, crashes>>

RequestApproval(h) ==
    LET p == Carries[h]
        c == [status |-> "pending_approval", approved |-> p.approved] IN
    /\ handler[h].phase = "deciding"
    /\ checkpoint' = [checkpoint EXCEPT ![p.run] = c]
    /\ handler' = [handler EXCEPT ![h] = [phase |-> "finalizing", seen |-> c]]
    /\ UNCHANGED <<start, errors, audit, crashes>>

FinalStatus(decision) == IF decision = "approved" THEN "completed" ELSE "rejected"

Finalize(h) ==
    LET d == handler[h].seen.approved IN
    /\ handler[h].phase = "finalizing"
    /\ checkpoint' = [checkpoint EXCEPT ![Carries[h].run] =
                          [status |-> FinalStatus(d), approved |-> d]]
    /\ Move(h, "ok")
    /\ UNCHANGED <<start, errors, audit, crashes>>

(* The process or a connection dies, or a call raises: no answer, or 500.  *)
Crash(h) ==
    /\ handler[h].phase \notin Answers \cup {"idle"}
    /\ crashes < MaxCrashes
    /\ crashes' = crashes + 1
    /\ handler' = [handler EXCEPT ![h] = Idle]
    /\ UNCHANGED <<start, checkpoint, errors, audit>>

-----------------------------------------------------------------------------
Handle(h) ==
    \/ Judge(h) \/ CheckExisting(h) \/ InsertEvent(h) \/ Approve(h) \/ Recheck(h)
    \/ Load(h) \/ RequestApproval(h) \/ Finalize(h)

Next ==
    \/ \E r \in Runs : \/ StartRun(r) \/ RunNode(r) \/ StartReturns(r)
                       \/ \E stage \in Stages : StartFails(r, stage)
    \/ \E h \in Handlers : Receive(h) \/ Handle(h) \/ Crash(h)

Spec == Init /\ [][Next]_vars

(* A request that is being served comes to an answer unless it dies, and   *)
(* its client sends it again until it has one.                             *)
FairSpec == Spec /\ \A h \in Handlers : WF_vars(Receive(h)) /\ WF_vars(Handle(h))

-----------------------------------------------------------------------------
(* Every variable has its type.                                            *)
TypeOK ==
    /\ start \in [Runs -> {"unborn", "running", "returned"}]
    /\ checkpoint \in [Runs -> Checkpoint]
    /\ errors \in [Runs -> SUBSET Stages]
    /\ audit \in [Runs -> Payload \cup {NoEvent}]
    /\ handler \in [Handlers -> HandlerState]
    /\ crashes \in 0..MaxCrashes

(* A run that has come to its interrupt, and one that never will.          *)
Decidable(r) == checkpoint[r].status \in {"pending_approval", "completed", "rejected"}

(* A checkpoint is decided only as the audit event says, an event decides  *)
(* one run, and a run that a node failed never becomes decidable.          *)
RunOK(r) ==
    LET c == checkpoint[r] IN
    /\ c.approved # "none" => audit[r] # NoEvent /\ c.approved = audit[r].approved
    /\ c.status \in {"completed", "rejected"} =>
          c.approved # "none" /\ c.status = FinalStatus(c.approved)
    /\ audit[r] # NoEvent => audit[r].run = r /\ start[r] = "returned" /\ Decidable(r)
    /\ errors[r] \ {"workflow"} # {} => start[r] = "returned" /\ ~Decidable(r)

RunInv ==
    /\ \A r \in Runs : RunOK(r)
    /\ \A r, s \in Runs :
        (audit[r] # NoEvent /\ audit[s] # NoEvent /\ audit[r].id = audit[s].id) => r = s

(* The decision of this payload can never be put on record.                *)
Barred(p) ==
    \/ audit[p.run] \notin {NoEvent, p}
    \/ start[p.run] = "returned" /\ ~Decidable(p.run)
    \/ \E r \in Runs \ {p.run} : audit[r] # NoEvent /\ audit[r].id = p.id

(* What a request knows between two steps is still true of both stores.    *)
HandlerOK(h) ==
    LET p == Carries[h]
        phase == handler[h].phase
        seen == handler[h].seen
        c == checkpoint[p.run] IN
    /\ phase # "idle" => start[p.run] = "returned"
    /\ phase = "loaded" =>
          /\ ~Awaiting(seen) /\ seen.approved = "none" => ~Decidable(p.run)
          /\ Awaiting(seen) => Decidable(p.run)
          /\ seen.approved # "none" => c.approved = seen.approved
    /\ phase \in {"checking", "inserting"} => Decidable(p.run)
    /\ phase \in {"resuming", "rechecking", "invoking", "deciding", "finalizing", "ok"}
          => audit[p.run] = p
    /\ phase \in {"rechecking", "finalizing", "ok"} => c.approved = p.approved
    /\ phase = "finalizing" => seen.approved = p.approved
    /\ phase \in {"conflict", "missing"} => Barred(p)

HandlerInv == \A h \in Handlers : HandlerOK(h)

(* The audit trail, the checkpoints and what every request of              *)
(* approve_agent_run knows between two awaits agree: the inductive         *)
(* invariant.                                                              *)
ApprovalInv == TypeOK /\ RunInv /\ HandlerInv

(* Requests accepted for a run agree: who is told that a run was approved, *)
(* and who that it was rejected, is told the one decision on record.       *)
AcceptedAgree ==
    \A h, g \in Handlers :
        (/\ handler[h].phase = "ok" /\ handler[g].phase = "ok"
         /\ Carries[h].run = Carries[g].run) => Carries[h] = Carries[g]

(* An accepted decision has reached the checkpoint, and stays there        *)
(* whatever duplicates of the request are still writing.                   *)
AcceptedIsApplied ==
    \A h \in Handlers :
        handler[h].phase = "ok" => checkpoint[Carries[h].run].approved = Carries[h].approved

(* A retransmission of an accepted request is not refused, in whatever     *)
(* order the two run (_is_idempotent_replay, _existing_or_conflict).       *)
RetryNotRefused ==
    \A h, g \in Handlers :
        (handler[h].phase = "ok" /\ handler[g].phase \in {"conflict", "missing"})
            => Carries[h] # Carries[g]

(* A run that one of its nodes failed never gets a decision: the error     *)
(* history and the audit trail exclude each other.                         *)
FailedRunsStayUndecided ==
    \A r \in Runs : errors[r] \ {"workflow"} # {} => audit[r] = NoEvent

(* The audit event and the checkpoint implement the write-once decision.   *)
Register == INSTANCE DecisionRegister WITH
    decision <- [r \in Runs |-> IF audit[r] = NoEvent THEN "none" ELSE audit[r].approved],
    published <- [r \in Runs |-> checkpoint[r].approved]

ImplementsRegister == Register!Spec

(* A decision on record ends up applied to the run for good, whatever      *)
(* requests die and whatever duplicates put a pending checkpoint on top of *)
(* a final one, when clients without an answer send their request again    *)
(* (docs/PROJECT_STATUS.md:344).                                           *)
DecisionIsApplied ==
    \A r \in Runs :
        audit[r] # NoEvent ~> [](checkpoint[r].status \in {"completed", "rejected"})
=============================================================================
