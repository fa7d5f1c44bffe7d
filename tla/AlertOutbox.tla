---------------------------- MODULE AlertOutbox ----------------------------
(***************************************************************************)
(* The alert outbox (backend/app/agent/alerts.py) and the delivery service *)
(* that drains it (backend/app/agent/alert_delivery.py).                   *)
(*                                                                         *)
(* The table agent_alert_outbox holds at most one row per fingerprint.     *)
(* Workers (background schedulers of several processes, and the requests   *)
(* of POST /agent/alerts/process) claim one due row with FOR UPDATE SKIP   *)
(* LOCKED, commit a lease on it, read the row back in a second             *)
(* transaction, post what they read to the webhook and record the outcome  *)
(* in an UPDATE fenced by the lease token they read.  A worker may die, or *)
(* be cancelled, between any two of these steps, and may be slower than    *)
(* its own lease: also between its commit and the reading back, which then *)
(* gives it the token of whoever claimed the row meanwhile.                *)
(***************************************************************************)
EXTENDS Integers, FiniteSets

CONSTANTS
    Alerts,        \* fingerprints: the primary content of a row
    Workers,       \* sequential callers of evaluate / process_one
    NoAlert,       \* a worker that holds no row
    Outcomes,      \* what a POST to the webhook can come back with
    MaxAttempts,   \* agent_alert_max_attempts
    LeaseSeconds,  \* agent_alert_lease_seconds
    BaseDelay,     \* agent_alert_retry_base_delay_seconds
    MaxDelay,      \* agent_alert_retry_max_delay_seconds
    MaxFaults      \* bound: deaths and leases outlived by their worker

AllOutcomes == {"success", "redirect", "rejected_http", "retryable_http",
                "timeout", "transport", "unexpected"}

ASSUME NoAlertAssumption == NoAlert \notin Alerts
ASSUME OutcomesAssumption == Outcomes \subseteq AllOutcomes
ASSUME SettingsAssumption ==
    /\ MaxAttempts \in Nat \ {0}
    /\ LeaseSeconds \in Nat \ {0}
    /\ BaseDelay \in Nat
    /\ MaxDelay \in Nat \ {0}
    /\ BaseDelay <= MaxDelay
    /\ MaxFaults \in Nat

VARIABLES
    clock,      \* datetime.now(UTC) of the host, in seconds
    outbox,     \* the table, by fingerprint
    worker,     \* what each worker is in the middle of
    tokens,     \* number of lease tokens (uuid4) handed out so far
    processed,  \* alerts the webhook receiver has acted upon
    overtaken,  \* history: alerts of which a late worker read another's claim
    faults      \* deaths and overrun leases so far

vars == <<clock, outbox, worker, tokens, processed, overtaken, faults>>

(* last_error_kind is NULL or one of the kinds deliver() and process_one() *)
(* name; each outcome that is an error stands for its kind.                *)
Row == [status : {"absent", "pending", "delivering", "delivered", "failed"},
        attempt_count : Nat,
        next_attempt_at : Nat,
        lease_token : Nat,
        lease_expires_at : Nat,
        last_error_kind : Outcomes \cup {"none"}]

(* claim_token is the uuid4 the worker wrote, lease_token and              *)
(* attempt_count are those of the record it read back.                     *)
WorkerState == [phase : {"ready", "inserting", "locked", "refreshing",
                         "posting", "answered"},
                alert : Alerts \cup {NoAlert},
                claimed_at : Nat,
                claim_token : Nat,
                lease_token : Nat,
                attempt_count : Nat,
                outcome : Outcomes \cup {"none"}]

NoRow == [status |-> "absent", attempt_count |-> 0, next_attempt_at |-> 0,
          lease_token |-> 0, lease_expires_at |-> 0, last_error_kind |-> "none"]

Ready == [phase |-> "ready", alert |-> NoAlert, claimed_at |-> 0,
          claim_token |-> 0, lease_token |-> 0, attempt_count |-> 0, outcome |-> "none"]

Init ==
    /\ clock = 0
    /\ outbox = [a \in Alerts |-> NoRow]
    /\ worker = [w \in Workers |-> Ready]
    /\ tokens = 0
    /\ processed = {}
    /\ overtaken = {}
    /\ faults = 0

-----------------------------------------------------------------------------
(* Enqueue: a read for the fingerprint, then an INSERT that the unique     *)
(* constraint refuses when another evaluation got there in between.        *)

EnqueueCheck(w, a) ==
    /\ worker[w].phase = "ready"
    /\ outbox[a].status = "absent"
    /\ worker' = [worker EXCEPT ![w].phase = "inserting", ![w].alert = a]
    /\ UNCHANGED <<clock, outbox, tokens, processed, overtaken, faults>>

Insert(a) ==
    outbox' = [outbox EXCEPT ![a].status = "pending", ![a].next_attempt_at = clock]

(* A bug to catch: INSERT ... ON CONFLICT DO UPDATE.                       *)
UpsertInsert(w) ==
    LET a == worker[w].alert IN
    /\ worker[w].phase = "inserting"
    /\ Insert(a)
    /\ worker' = [worker EXCEPT ![w] = Ready]
    /\ UNCHANGED <<clock, tokens, processed, overtaken, faults>>

EnqueueInsert(w) ==
    LET a == worker[w].alert IN
    /\ worker[w].phase = "inserting"
    /\ \/ outbox[a].status = "absent" /\ Insert(a)
       \/ outbox[a].status # "absent" /\ UNCHANGED outbox
    /\ worker' = [worker EXCEPT ![w] = Ready]
    /\ UNCHANGED <<clock, tokens, processed, overtaken, faults>>

-----------------------------------------------------------------------------
(* claim_next: claimed_at is read and the first due row nobody has locked  *)
(* is locked; the lease counts from claimed_at but is visible only at the  *)
(* commit.  Rows with equal next_attempt_at are ordered by created_at and  *)
(* a random id: any of them may come first.                                *)

(* A bug to catch: SELECT without FOR UPDATE SKIP LOCKED.                  *)
LockedByNobody(a) == a = NoAlert

Locked(a) == \E w \in Workers : worker[w].phase = "locked" /\ worker[w].alert = a

(* Bugs to catch: a lease that is reclaimed before it runs out, one that   *)
(* is never reclaimed, and a failed row that is claimed again.             *)
DueWhileLeased(a, t) ==
    \/ outbox[a].status = "pending" /\ outbox[a].next_attempt_at <= t
    \/ outbox[a].status = "delivering"

DueWhenPending(a, t) ==
    outbox[a].status = "pending" /\ outbox[a].next_attempt_at <= t

DueAfterFailure(a, t) ==
    \/ outbox[a].status \in {"pending", "failed"} /\ outbox[a].next_attempt_at <= t
    \/ outbox[a].status = "delivering" /\ outbox[a].lease_expires_at <= t

Due(a, t) ==
    \/ outbox[a].status = "pending" /\ outbox[a].next_attempt_at <= t
    \/ outbox[a].status = "delivering" /\ outbox[a].lease_expires_at <= t

Claimable == {a \in Alerts : Due(a, clock) /\ ~Locked(a)}

ClaimSelect(w, a) ==
    /\ worker[w].phase = "ready"
    /\ a \in Claimable
    /\ \A b \in Claimable : outbox[a].next_attempt_at <= outbox[b].next_attempt_at
    /\ worker' = [worker EXCEPT ![w].phase = "locked", ![w].alert = a,
                                ![w].claimed_at = clock]
    /\ UNCHANGED <<clock, outbox, tokens, processed, overtaken, faults>>

ClaimCommit(w) ==
    LET a == worker[w].alert IN
    /\ worker[w].phase = "locked"
    /\ tokens' = tokens + 1
    /\ outbox' = [outbox EXCEPT
            ![a].status = "delivering",
            ![a].attempt_count = @ + 1,
            ![a].lease_token = tokens',
            ![a].lease_expires_at = worker[w].claimed_at + LeaseSeconds]
    /\ worker' = [worker EXCEPT ![w].phase = "refreshing", ![w].claim_token = tokens']
    /\ UNCHANGED <<clock, processed, overtaken, faults>>

(* The worker whose own claim the row of its alert still carries.          *)
OwnsClaim(w) ==
    /\ outbox[worker[w].alert].status = "delivering"
    /\ outbox[worker[w].alert].lease_token = worker[w].claim_token

LeaseOver(w) == worker[w].claimed_at + LeaseSeconds <= clock

(* session.refresh: a SELECT in a transaction of its own.  The record is   *)
(* built from the row as it is now, whatever lease it carries, if any      *)
(* (token 0: NULL).  A worker that is late, and only such a worker or one  *)
(* that profits from it, can read the token of another's claim.            *)
ClaimRefresh(w) ==
    LET a == worker[w].alert IN
    /\ worker[w].phase = "refreshing"
    /\ worker' = [worker EXCEPT
            ![w].phase = "posting",
            ![w].lease_token = outbox[a].lease_token,
            ![w].attempt_count = outbox[a].attempt_count]
    /\ overtaken' = IF LeaseOver(w) /\ outbox[a].status = "delivering" /\ ~OwnsClaim(w)
                    THEN overtaken \cup {a} ELSE overtaken
    /\ UNCHANGED <<clock, outbox, tokens, processed, faults>>

-----------------------------------------------------------------------------
(* deliver: the webhook's answer.  A redirect is not followed and is not   *)
(* an error to httpx.  A request that ends in an error other than a plain  *)
(* rejection may or may not have been acted upon.                          *)

(* A bug to catch: a timeout taken for an acknowledgement.                 *)
IsErrorAnswer(o) == o \notin {"success", "redirect", "timeout"}

IsError(o) == o \notin {"success", "redirect"}

Retryable(o) == o \in {"retryable_http", "timeout", "transport", "unexpected"}

MayHaveActed(o) == Retryable(o) \/ o = "success"

Deliver(w, o) ==
    /\ worker[w].phase = "posting"
    /\ worker' = [worker EXCEPT ![w].phase = "answered", ![w].outcome = o]
    /\ \/ MayHaveActed(o) /\ processed' = processed \cup {worker[w].alert}
       \/ o # "success" /\ UNCHANGED processed
    /\ UNCHANGED <<clock, outbox, tokens, overtaken, faults>>

-----------------------------------------------------------------------------
(* mark_delivered and mark_failed: one UPDATE ... WHERE id, 'delivering',  *)
(* lease_token.  It waits for a row another claim has locked.  When no row *)
(* matches, or the record has no token, the worker gets a ValueError and   *)
(* records nothing.                                                        *)

(* A bug to catch: an UPDATE without the lease token in its WHERE.         *)
HoldsAnyLease(w) == outbox[worker[w].alert].status = "delivering"

HoldsLease(w) ==
    LET a == worker[w].alert IN
    /\ outbox[a].status = "delivering"
    /\ outbox[a].lease_token = worker[w].lease_token

(* Bugs to catch: the comparison with max_attempts off by one.             *)
TerminalTooLate(w) ==
    \/ ~Retryable(worker[w].outcome)
    \/ worker[w].attempt_count > MaxAttempts

TerminalTooEarly(w) ==
    \/ ~Retryable(worker[w].outcome)
    \/ worker[w].attempt_count + 1 >= MaxAttempts

Terminal(w) ==
    \/ ~Retryable(worker[w].outcome)
    \/ worker[w].attempt_count >= MaxAttempts

RetryDelay(n) ==
    LET delay == BaseDelay * 2^(n - 1)
    IN  IF delay \in 0..MaxDelay THEN delay ELSE MaxDelay

MarkDelivered(w) ==
    LET a == worker[w].alert IN
    /\ worker[w].phase = "answered"
    /\ ~IsError(worker[w].outcome)
    /\ HoldsLease(w)
    /\ ~Locked(a)
    /\ outbox' = [outbox EXCEPT
            ![a].status = "delivered",
            ![a].lease_token = 0,
            ![a].lease_expires_at = 0,
            ![a].last_error_kind = "none"]
    /\ worker' = [worker EXCEPT ![w] = Ready]
    /\ UNCHANGED <<clock, tokens, processed, overtaken, faults>>

MarkFailed(w) ==
    LET a == worker[w].alert IN
    /\ worker[w].phase = "answered"
    /\ IsError(worker[w].outcome)
    /\ HoldsLease(w)
    /\ ~Locked(a)
    /\ outbox' = [outbox EXCEPT
            ![a].status = IF Terminal(w) THEN "failed" ELSE "pending",
            ![a].next_attempt_at =
                IF Terminal(w) THEN clock
                ELSE clock + RetryDelay(worker[w].attempt_count),
            ![a].lease_token = 0,
            ![a].lease_expires_at = 0,
            ![a].last_error_kind = worker[w].outcome]
    /\ worker' = [worker EXCEPT ![w] = Ready]
    /\ UNCHANGED <<clock, tokens, processed, overtaken, faults>>

LeaseLost(w) ==
    /\ worker[w].phase = "answered"
    /\ ~HoldsLease(w)
    /\ worker' = [worker EXCEPT ![w] = Ready]
    /\ UNCHANGED <<clock, outbox, tokens, processed, overtaken, faults>>

-----------------------------------------------------------------------------
(* The environment.  Time advances while some deadline lies ahead (beyond  *)
(* the last one, more time enables nothing).  A worker that is still busy  *)
(* when its lease runs out uses up a fault, as does a death; a dead        *)
(* worker's transaction rolls back and its POST may have been acted upon.  *)

Deadline(a) ==
    \/ outbox[a].status = "pending" /\ clock < outbox[a].next_attempt_at
    \/ outbox[a].status = "delivering" /\ clock < outbox[a].lease_expires_at

Overruns(w) ==
    /\ worker[w].phase \in {"locked", "refreshing", "posting", "answered"}
    /\ worker[w].claimed_at + LeaseSeconds = clock + 1

Tick ==
    /\ \E a \in Alerts : Deadline(a)
    /\ clock' = clock + 1
    /\ \/ (\A w \in Workers : ~Overruns(w)) /\ UNCHANGED faults
       \/ /\ \E w \in Workers : Overruns(w)
          /\ faults < MaxFaults
          /\ faults' = faults + 1
    /\ UNCHANGED <<outbox, worker, tokens, processed, overtaken>>

Die(w) ==
    /\ worker[w].phase # "ready"
    /\ faults < MaxFaults
    /\ faults' = faults + 1
    /\ worker' = [worker EXCEPT ![w] = Ready]
    /\ \/ UNCHANGED processed
       \/ worker[w].phase = "posting" /\ processed' = processed \cup {worker[w].alert}
    /\ UNCHANGED <<clock, outbox, tokens, overtaken>>

-----------------------------------------------------------------------------
Evaluate(w) == (\E a \in Alerts : EnqueueCheck(w, a)) \/ EnqueueInsert(w)

Claim(w) ==
    \/ \E a \in Alerts : ClaimSelect(w, a)
    \/ ClaimCommit(w)
    \/ ClaimRefresh(w)

Post(w) == \E o \in Outcomes : Deliver(w, o)

Record(w) == MarkDelivered(w) \/ MarkFailed(w) \/ LeaseLost(w)

Next ==
    \/ Tick
    \/ \E w \in Workers : Evaluate(w) \/ Claim(w) \/ Post(w) \/ Record(w) \/ Die(w)

Spec == Init /\ [][Next]_vars

(* Every statement a worker has begun comes to an end (the webhook call    *)
(* has a timeout), and the loop of the scheduler keeps calling process_one *)
(* whatever a cycle raised.  Nothing makes an evaluation or a fault happen.*)
Fairness ==
    /\ WF_vars(Tick)
    /\ \A w \in Workers : /\ WF_vars(EnqueueInsert(w))
                          /\ WF_vars(Claim(w))
                          /\ WF_vars(Post(w))
                          /\ WF_vars(Record(w))

FairSpec == Spec /\ Fairness

-----------------------------------------------------------------------------
(* Every variable has its type.                                            *)
TypeOK ==
    /\ clock \in Nat
    /\ outbox \in [Alerts -> Row]
    /\ worker \in [Workers -> WorkerState]
    /\ tokens \in Nat
    /\ processed \in SUBSET Alerts
    /\ overtaken \in SUBSET Alerts
    /\ faults \in 0..MaxFaults

(* Who may write to a row in delivering: the worker that claimed it, or,   *)
(* once some worker of the alert had outlived its lease before it read its *)
(* claim back and read another's, any worker whose record has the token.   *)
Entitled(w, a) ==
    /\ worker[w].phase = "answered"
    /\ worker[w].alert = a
    /\ HoldsLease(w)
    /\ a \in overtaken \/ OwnsClaim(w)

(* A row whose lease has not run out is changed by the worker that claimed *)
(* it and by nobody else: no second claim, no late result, no              *)
(* re-evaluation (claim_next, mark_delivered, mark_failed, enqueue), as    *)
(* long as every worker reads its claim back within its lease or at least  *)
(* before somebody else claims the row.                                    *)
LeaseProtects ==
    [][\A a \in Alerts :
          (/\ outbox[a].status = "delivering"
           /\ clock < outbox[a].lease_expires_at
           /\ outbox'[a] # outbox[a])
          => \E w \in Workers : Entitled(w, a) /\ worker'[w].phase = "ready"]_vars

(* The outcome recorded on a row is the one its latest attempt obtained,   *)
(* whatever older workers come back with and however late (the lease_token *)
(* of mark_delivered and mark_failed), under the same condition; always,   *)
(* it is judged by the attempts the row really had.                        *)
LatestAttemptDecides ==
    [][\A a \in Alerts :
          (outbox[a].status = "delivering" /\ outbox'[a].status # "delivering")
          => \E w \in Workers :
                /\ Entitled(w, a)
                /\ worker[w].attempt_count = outbox[a].attempt_count
                /\ outbox'[a].status = "delivered" <=> ~IsError(worker[w].outcome)
                /\ worker'[w].phase = "ready"]_vars

(* docs/PROJECT_STATUS.md:189,354 and docs/INTERVIEW_KNOWLEDGE.md:789: a   *)
(* worker whose lease is over cannot put its result in place of the result *)
(* of the worker that holds the new lease.                                 *)
OnlyClaimantDecides ==
    [][\A a \in Alerts :
          (outbox[a].status = "delivering" /\ outbox'[a].status # "delivering")
          => \E w \in Workers :
                /\ worker[w].phase = "answered"
                /\ worker[w].alert = a
                /\ OwnsClaim(w)
                /\ worker'[w].phase = "ready"]_vars

(* No attempt, late result or repeated evaluation reopens or rewrites a    *)
(* delivered or failed row.                                                *)
SettledIsFinal ==
    [][\A a \in Alerts :
          outbox[a].status \in {"delivered", "failed"} => outbox'[a] = outbox[a]]_vars

(* An alert is given up only for a plain rejection or after the configured *)
(* number of attempts (terminal in mark_failed).                           *)
FailedIsJustified ==
    \A a \in Alerts : outbox[a].status = "failed" =>
        \/ outbox[a].last_error_kind = "rejected_http"
        \/ outbox[a].attempt_count >= MaxAttempts

(* An alert marked delivered was acted upon by the receiver at least once. *)
DeliveredAtLeastOnce ==
    \A a \in Alerts : outbox[a].status = "delivered" => a \in processed

(* Attempts beyond the configured maximum come from lost leases only: one  *)
(* each (claim_next counts, mark_failed compares).                         *)
AttemptsBoundedByFaults ==
    \A a \in Alerts : outbox[a].attempt_count <= MaxAttempts + faults

(* docs/PROJECT_STATUS.md:355: an alert that has reached the maximum       *)
(* number of attempts enters the terminal state failed.                    *)
AttemptsCapped ==
    \A a \in Alerts : outbox[a].attempt_count <= MaxAttempts

(* What TypeOK lacks to be inductive enough for the properties above.  A   *)
(* lock is exclusive and its row stays due until the commit; a claim token *)
(* is written by one worker.                                               *)
Attempting(w) == worker[w].phase \in {"refreshing", "posting", "answered"}

LockInv ==
    \A w \in Workers : worker[w].phase = "locked" =>
        /\ Due(worker[w].alert, clock)
        /\ \A v \in Workers : (worker[v].phase = "locked"
                               /\ worker[v].alert = worker[w].alert) => v = w

TokenInv ==
    /\ \A a \in Alerts : outbox[a].status = "delivering" => outbox[a].lease_token # 0
    /\ \A w \in Workers : Attempting(w) =>
        /\ worker[w].claim_token \in 1..tokens
        /\ outbox[worker[w].alert].status # "absent"
        /\ OwnsClaim(w) =>
              outbox[worker[w].alert].lease_expires_at = worker[w].claimed_at + LeaseSeconds
        /\ \A v \in Workers : (Attempting(v)
                /\ worker[v].claim_token = worker[w].claim_token) => v = w

(* What a record is worth: the attempts it carries are those of the row    *)
(* whose token it carries; its holder has its own claim before it and      *)
(* reads it back, unless a lease ran out before its worker read.           *)
RecordInv ==
    /\ \A a \in Alerts : outbox[a].lease_token <= tokens
    /\ \A w \in Workers :
        /\ worker[w].phase \notin {"posting", "answered"} => worker[w].lease_token = 0
        /\ worker[w].lease_token <= tokens
        /\ worker[w].phase = "refreshing" =>
              OwnsClaim(w) \/ LeaseOver(w) \/ worker[w].alert \in overtaken
        /\ worker[w].phase \in {"posting", "answered"} =>
            /\ OwnsClaim(w) => HoldsLease(w)
            /\ HoldsLease(w) =>
                /\ worker[w].attempt_count = outbox[worker[w].alert].attempt_count
                /\ worker[w].alert \in overtaken \/ OwnsClaim(w)

AnswerInv ==
    \A w \in Workers :
        /\ worker[w].phase # "ready" => worker[w].alert \in Alerts
        /\ worker[w].phase = "answered" => worker[w].outcome \in Outcomes
        /\ (worker[w].phase = "answered" /\ worker[w].outcome = "success")
              => worker[w].alert \in processed

(* Locks exclude, a token is written by one claim, and whoever holds it    *)
(* knows the attempts of the row and is the claimant or profits from a     *)
(* lease that was overtaken: the inductive invariant of claim_next and of  *)
(* the fence.                                                              *)
OutboxInv ==
    TypeOK /\ LockInv /\ TokenInv /\ RecordInv /\ AnswerInv /\ FailedIsJustified

(* Why attempts are bounded: a pending row has attempts left, and a row    *)
(* can be reclaimed only after a fault that is not yet accounted for in    *)
(* its attempts: the holder of its lease died or was late.                 *)
HeldInTime(a) ==
    \E w \in Workers :
        /\ Attempting(w)
        /\ worker[w].alert = a
        /\ OwnsClaim(w)
        /\ clock < outbox[a].lease_expires_at

BudgetInv ==
    /\ \A a \in Alerts :
        /\ outbox[a].status \in {"absent", "pending"} => outbox[a].attempt_count < MaxAttempts
        /\ outbox[a].status = "delivering" =>
              HeldInTime(a) \/ outbox[a].attempt_count < MaxAttempts + faults
        /\ outbox[a].attempt_count <= MaxAttempts + faults
    /\ \A w \in Workers : worker[w].phase = "locked" =>
        LET n == outbox[worker[w].alert].attempt_count IN
        /\ n < MaxAttempts + faults
        /\ \/ clock < worker[w].claimed_at + LeaseSeconds
           \/ n + 1 < MaxAttempts + faults

(* What the table shows an operator of an alert, and the promise that the  *)
(* outbox keeps for a receiver that never answers with a redirect.         *)
PromisedState ==
    [a \in Alerts |-> IF outbox[a].status \in {"pending", "delivering"}
                      THEN "open" ELSE outbox[a].status]

Promise == INSTANCE AlertPromise WITH state <- PromisedState

(* Every step of the outbox is a step of the promise or invisible to it.   *)
KeepsPromise == Promise!Spec

(* Every alert that is in the outbox ends delivered or failed, whatever    *)
(* workers die on the way, when the number of faults is finite.            *)
EventuallySettled ==
    \A a \in Alerts :
        outbox[a].status = "pending" ~> outbox[a].status \in {"delivered", "failed"}
=============================================================================
