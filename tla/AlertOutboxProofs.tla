------------------------- MODULE AlertOutboxProofs -------------------------
(***************************************************************************)
(* Theorems about AlertOutbox for any number of alerts and workers and any *)
(* settings: the inductive invariant OutboxInv, and what follows from it.  *)
(***************************************************************************)
EXTENDS AlertOutbox, TLAPS

(* The delay before a retry is a number of seconds.                        *)
LEMMA RetryDelayType == \A n : RetryDelay(n) \in Nat
  BY SettingsAssumption DEF RetryDelay

(* The rows an insert, a claim and a failed attempt write, and the record  *)
(* of a worker that has claimed, are of the types of rows and records.     *)
InsertedRow(r, n) == [r EXCEPT !.status = "pending", !.next_attempt_at = n]

ClaimedRow(r, t, e) ==
    [r EXCEPT !.status = "delivering", !.attempt_count = @ + 1,
              !.lease_token = t, !.lease_expires_at = e]

FailedRow(r, s, n, o) ==
    [r EXCEPT !.status = s, !.next_attempt_at = n, !.lease_token = 0,
              !.lease_expires_at = 0, !.last_error_kind = o]

ClaimedRecord(r, t) == [r EXCEPT !.phase = "refreshing", !.claim_token = t]

LEMMA RowWrites ==
  ASSUME NEW r \in Row
  PROVE  /\ \A n \in Nat : InsertedRow(r, n) \in Row
         /\ \A t, e \in Nat : ClaimedRow(r, t, e) \in Row
         /\ \A s \in {"pending", "failed"}, n \in Nat, o \in Outcomes :
                FailedRow(r, s, n, o) \in Row
<1>1. ASSUME NEW n \in Nat PROVE InsertedRow(r, n) \in Row
  BY DEF Row, InsertedRow
<1>2. ASSUME NEW t \in Nat, NEW e \in Nat PROVE ClaimedRow(r, t, e) \in Row
  <2> DEFINE k == r.attempt_count + 1
  <2>1. k \in Nat
    BY DEF Row
  <2>2. ClaimedRow(r, t, e) = [r EXCEPT !.status = "delivering", !.attempt_count = k,
                                        !.lease_token = t, !.lease_expires_at = e]
    BY DEF ClaimedRow
  <2> HIDE DEF k
  <2>3. QED
    BY <2>1, <2>2 DEF Row
<1>3. ASSUME NEW s \in {"pending", "failed"}, NEW n \in Nat, NEW o \in Outcomes
      PROVE  FailedRow(r, s, n, o) \in Row
  BY DEF Row, FailedRow
<1>4. QED
  BY <1>1, <1>2, <1>3

LEMMA RecordWrites ==
  ASSUME NEW r \in WorkerState, NEW t \in Nat
  PROVE  ClaimedRecord(r, t) \in WorkerState
  BY DEF WorkerState, ClaimedRecord

(* The initial state satisfies the invariant.                              *)
LEMMA InitInv == Init => OutboxInv
  BY NoAlertAssumption, SettingsAssumption
  DEF Init, OutboxInv, TypeOK, LockInv, TokenInv, RecordInv, AnswerInv,
      FailedIsJustified, NoRow, Ready, Row, WorkerState, Attempting

(* Every step keeps the types.                                             *)
LEMMA TypeStep == OutboxInv /\ [Next]_vars => TypeOK'
<1> SUFFICES ASSUME OutboxInv, [Next]_vars PROVE TypeOK'
  OBVIOUS
<1> USE SettingsAssumption, NoAlertAssumption DEF OutboxInv, TypeOK
<1>1. ASSUME NEW w \in Workers, NEW a \in Alerts, EnqueueCheck(w, a) PROVE TypeOK'
  <2>1. [worker[w] EXCEPT !.phase = "inserting", !.alert = a] \in WorkerState
    BY DEF WorkerState
  <2>2. worker' \in [Workers -> WorkerState]
    BY <1>1, <2>1 DEF EnqueueCheck
  <2>3. QED
    BY <1>1, <2>2 DEF EnqueueCheck
<1>2. ASSUME NEW w \in Workers, EnqueueInsert(w) PROVE TypeOK'
  <2>1. worker[w].alert \in Alerts /\ worker' \in [Workers -> WorkerState]
    BY <1>2 DEF EnqueueInsert, AnswerInv, Ready, WorkerState
  <2>2. InsertedRow(outbox[worker[w].alert], clock) \in Row
    BY <2>1, RowWrites
  <2>3. Insert(worker[w].alert) =>
            outbox' = [outbox EXCEPT ![worker[w].alert] =
                InsertedRow(outbox[worker[w].alert], clock)]
    BY DEF Insert, InsertedRow
  <2>4. outbox' \in [Alerts -> Row]
    BY <1>2, <2>1, <2>2, <2>3 DEF EnqueueInsert
  <2>5. QED
    BY <1>2, <2>1, <2>4 DEF EnqueueInsert
<1>3. ASSUME NEW w \in Workers, NEW a \in Alerts, ClaimSelect(w, a) PROVE TypeOK'
  <2>1. [worker[w] EXCEPT !.phase = "locked", !.alert = a, !.claimed_at = clock]
            \in WorkerState
    BY DEF WorkerState
  <2>2. worker' \in [Workers -> WorkerState]
    BY <1>3, <2>1 DEF ClaimSelect
  <2>3. QED
    BY <1>3, <2>2 DEF ClaimSelect
<1>4. ASSUME NEW w \in Workers, ClaimCommit(w) PROVE TypeOK'
  <2> DEFINE a == worker[w].alert
             e == worker[w].claimed_at + LeaseSeconds
             row == ClaimedRow(outbox[a], tokens + 1, e)
             rec == ClaimedRecord(worker[w], tokens + 1)
  <2>1. a \in Alerts /\ outbox[a] \in Row /\ worker[w] \in WorkerState
    BY <1>4 DEF ClaimCommit, AnswerInv
  <2>2. e \in Nat
    BY <2>1 DEF WorkerState
  <2>3. row \in Row
    BY <2>1, <2>2, RowWrites
  <2>4. rec \in WorkerState
    BY <2>1, RecordWrites
  <2>5. /\ outbox' = [outbox EXCEPT ![a] = row]
        /\ worker' = [worker EXCEPT ![w] = rec]
        /\ tokens' = tokens + 1
        /\ UNCHANGED <<clock, processed, overtaken, faults>>
    BY <1>4 DEF ClaimCommit, ClaimedRow, ClaimedRecord
  <2> HIDE DEF row, rec
  <2>6. outbox' \in [Alerts -> Row] /\ worker' \in [Workers -> WorkerState]
    BY <2>1, <2>3, <2>4, <2>5
  <2>7. QED
    BY <2>5, <2>6
<1>r. ASSUME NEW w \in Workers, ClaimRefresh(w) PROVE TypeOK'
  <2>1. worker[w].alert \in Alerts
    BY <1>r DEF ClaimRefresh, AnswerInv
  <2>2. /\ outbox[worker[w].alert].lease_token \in Nat
        /\ outbox[worker[w].alert].attempt_count \in Nat
    BY <2>1 DEF Row
  <2>3. [worker[w] EXCEPT !.phase = "posting",
                          !.lease_token = outbox[worker[w].alert].lease_token,
                          !.attempt_count = outbox[worker[w].alert].attempt_count]
            \in WorkerState
    BY <2>2 DEF WorkerState
  <2>4. worker' \in [Workers -> WorkerState]
    BY <1>r, <2>3 DEF ClaimRefresh
  <2>5. QED
    BY <1>r, <2>1, <2>4 DEF ClaimRefresh
<1>5. ASSUME NEW w \in Workers, NEW o \in Outcomes, Deliver(w, o) PROVE TypeOK'
  <2>1. [worker[w] EXCEPT !.phase = "answered", !.outcome = o] \in WorkerState
    BY DEF WorkerState
  <2>2. worker' \in [Workers -> WorkerState]
    BY <1>5, <2>1 DEF Deliver
  <2>3. processed' \in SUBSET Alerts
    BY <1>5 DEF Deliver, AnswerInv
  <2>4. QED
    BY <1>5, <2>2, <2>3 DEF Deliver
<1>6. ASSUME NEW w \in Workers, MarkDelivered(w) PROVE TypeOK'
  BY <1>6 DEF MarkDelivered, WorkerState, Row, Ready, AnswerInv
<1>7. ASSUME NEW w \in Workers, MarkFailed(w) PROVE TypeOK'
  <2> DEFINE a == worker[w].alert
             s == IF Terminal(w) THEN "failed" ELSE "pending"
             n == IF Terminal(w) THEN clock ELSE clock + RetryDelay(worker[w].attempt_count)
  <2>1. a \in Alerts /\ worker[w].outcome \in Outcomes
    BY <1>7 DEF MarkFailed, AnswerInv
  <2>2. n \in Nat /\ s \in {"pending", "failed"}
    BY RetryDelayType
  <2>3. FailedRow(outbox[a], s, n, worker[w].outcome) \in Row
    <3> HIDE DEF a, s, n
    <3>1. outbox[a] \in Row
      BY <2>1
    <3>2. QED
      BY <3>1, <2>1, <2>2, RowWrites
  <2>4. outbox' = [outbox EXCEPT ![a] = FailedRow(outbox[a], s, n, worker[w].outcome)]
    BY <1>7 DEF MarkFailed, FailedRow
  <2>5. outbox' \in [Alerts -> Row]
    BY <2>3, <2>4
  <2>6. worker' \in [Workers -> WorkerState]
    BY <1>7 DEF MarkFailed, Ready, WorkerState
  <2>7. QED
    BY <1>7, <2>5, <2>6 DEF MarkFailed
<1>8. ASSUME NEW w \in Workers, LeaseLost(w) PROVE TypeOK'
  BY <1>8 DEF LeaseLost, WorkerState, Ready
<1>9. ASSUME NEW w \in Workers, Die(w) PROVE TypeOK'
  BY <1>9 DEF Die, WorkerState, Ready, AnswerInv
<1>10. CASE Tick
  BY <1>10 DEF Tick
<1>11. CASE UNCHANGED vars
  BY <1>11 DEF vars
<1>12. QED
  BY <1>1, <1>2, <1>3, <1>4, <1>r, <1>5, <1>6, <1>7, <1>8, <1>9, <1>10, <1>11
  DEF Next, Evaluate, Claim, Post, Record

(* What the commit of a claim does, row by row and worker by worker.       *)
LEMMA ClaimCommitEffect ==
  ASSUME OutboxInv, NEW w \in Workers, ClaimCommit(w)
  PROVE  /\ worker[w].alert \in Alerts
         /\ \A v \in Workers \ {w} : worker'[v] = worker[v]
         /\ worker'[w].phase = "refreshing"
         /\ worker'[w].alert = worker[w].alert
         /\ worker'[w].claimed_at = worker[w].claimed_at
         /\ worker'[w].claim_token = tokens + 1
         /\ worker'[w].lease_token = worker[w].lease_token
         /\ \A b \in Alerts \ {worker[w].alert} : outbox'[b] = outbox[b]
         /\ outbox'[worker[w].alert].status = "delivering"
         /\ outbox'[worker[w].alert].lease_token = tokens + 1
         /\ outbox'[worker[w].alert].lease_expires_at
                = worker[w].claimed_at + LeaseSeconds
         /\ outbox'[worker[w].alert].attempt_count
                = outbox[worker[w].alert].attempt_count + 1
         /\ tokens' = tokens + 1
         /\ UNCHANGED <<clock, processed, overtaken, faults>>
<1>1. worker[w].alert \in Alerts /\ worker[w].phase = "locked"
  BY DEF ClaimCommit, OutboxInv, AnswerInv
<1>2. worker \in [Workers -> WorkerState] /\ outbox \in [Alerts -> Row]
  BY DEF OutboxInv, TypeOK
<1>3. /\ \A v \in Workers \ {w} : worker'[v] = worker[v]
      /\ worker'[w] = [worker[w] EXCEPT !.phase = "refreshing", !.claim_token = tokens + 1]
      /\ \A b \in Alerts \ {worker[w].alert} : outbox'[b] = outbox[b]
      /\ outbox'[worker[w].alert] =
            [outbox[worker[w].alert] EXCEPT
                !.status = "delivering", !.attempt_count = @ + 1, !.lease_token = tokens + 1,
                !.lease_expires_at = worker[w].claimed_at + LeaseSeconds]
      /\ tokens' = tokens + 1
      /\ UNCHANGED <<clock, processed, overtaken, faults>>
  <2>1. /\ worker' = [worker EXCEPT ![w] =
              [worker[w] EXCEPT !.phase = "refreshing", !.claim_token = tokens + 1]]
        /\ outbox' = [outbox EXCEPT ![worker[w].alert] =
              [outbox[worker[w].alert] EXCEPT
                  !.status = "delivering", !.attempt_count = @ + 1, !.lease_token = tokens + 1,
                  !.lease_expires_at = worker[w].claimed_at + LeaseSeconds]]
        /\ tokens' = tokens + 1
        /\ UNCHANGED <<clock, processed, overtaken, faults>>
    BY DEF ClaimCommit
  <2>2. QED
    BY <1>1, <1>2, <2>1
<1>4. worker[w] \in WorkerState /\ outbox[worker[w].alert] \in Row
  BY <1>1, <1>2
<1>5. QED
  BY <1>1, <1>3, <1>4, SMTT(30) DEF WorkerState, Row

(* What reading a claim back does: only the record of the worker and the   *)
(* set of alerts read too late are new.                                    *)
LEMMA ClaimRefreshEffect ==
  ASSUME OutboxInv, NEW w \in Workers, ClaimRefresh(w)
  PROVE  /\ worker[w].alert \in Alerts
         /\ worker[w].phase = "refreshing"
         /\ \A v \in Workers \ {w} : worker'[v] = worker[v]
         /\ worker'[w].phase = "posting"
         /\ worker'[w].alert = worker[w].alert
         /\ worker'[w].claimed_at = worker[w].claimed_at
         /\ worker'[w].claim_token = worker[w].claim_token
         /\ worker'[w].lease_token = outbox[worker[w].alert].lease_token
         /\ worker'[w].attempt_count = outbox[worker[w].alert].attempt_count
         /\ overtaken \subseteq overtaken'
         /\ (LeaseOver(w) /\ outbox[worker[w].alert].status = "delivering")
                => OwnsClaim(w) \/ worker[w].alert \in overtaken'
         /\ UNCHANGED <<clock, outbox, tokens, processed, faults>>
<1>1. worker[w].alert \in Alerts /\ worker[w].phase = "refreshing"
  BY DEF ClaimRefresh, OutboxInv, AnswerInv
<1>2. worker \in [Workers -> WorkerState]
  BY DEF OutboxInv, TypeOK
<1>3. QED
  BY <1>1, <1>2, SMTT(30) DEF ClaimRefresh, WorkerState

(* What recording an outcome does: the row of the worker leaves delivering *)
(* and every other row stays as it is.                                     *)
LEMMA MarkEffect ==
  ASSUME OutboxInv, NEW w \in Workers, MarkDelivered(w) \/ MarkFailed(w)
  PROVE  /\ worker[w].alert \in Alerts
         /\ worker[w].phase = "answered"
         /\ HoldsLease(w)
         /\ ~Locked(worker[w].alert)
         /\ \A v \in Workers \ {w} : worker'[v] = worker[v]
         /\ worker'[w] = Ready
         /\ \A b \in Alerts \ {worker[w].alert} : outbox'[b] = outbox[b]
         /\ outbox'[worker[w].alert].status \in {"pending", "delivered", "failed"}
         /\ outbox'[worker[w].alert].attempt_count
                = outbox[worker[w].alert].attempt_count
         /\ outbox'[worker[w].alert].lease_token = 0
         /\ (MarkDelivered(w) => outbox'[worker[w].alert].status = "delivered")
         /\ (MarkFailed(w) =>
               /\ outbox'[worker[w].alert].status
                     = IF Terminal(w) THEN "failed" ELSE "pending"
               /\ outbox'[worker[w].alert].last_error_kind = worker[w].outcome)
         /\ UNCHANGED <<clock, tokens, processed, overtaken>>
<1>1. worker[w].alert \in Alerts /\ worker[w].phase = "answered"
  BY DEF MarkDelivered, MarkFailed, OutboxInv, AnswerInv
<1>2. worker \in [Workers -> WorkerState] /\ outbox \in [Alerts -> Row]
  BY DEF OutboxInv, TypeOK
<1>3. CASE MarkDelivered(w)
  <2>1. ~MarkFailed(w)
    BY <1>3 DEF MarkDelivered, MarkFailed
  <2>2. /\ HoldsLease(w) /\ ~Locked(worker[w].alert)
        /\ worker' = [worker EXCEPT ![w] = Ready]
        /\ outbox' = [outbox EXCEPT ![worker[w].alert] =
              [outbox[worker[w].alert] EXCEPT
                  !.status = "delivered", !.lease_token = 0, !.lease_expires_at = 0,
                  !.last_error_kind = "none"]]
        /\ UNCHANGED <<clock, tokens, processed, overtaken>>
    BY <1>3 DEF MarkDelivered
  <2>3. outbox[worker[w].alert] \in Row
    BY <1>1, <1>2
  <2>4. QED
    BY <1>1, <1>2, <1>3, <2>1, <2>2, <2>3, SMTT(30) DEF Row
<1>4. CASE MarkFailed(w)
  <2>1. ~MarkDelivered(w)
    BY <1>4 DEF MarkDelivered, MarkFailed
  <2>2. /\ HoldsLease(w) /\ ~Locked(worker[w].alert)
        /\ worker' = [worker EXCEPT ![w] = Ready]
        /\ UNCHANGED <<clock, tokens, processed, overtaken>>
    BY <1>4 DEF MarkFailed
  <2>a. /\ \A b \in Alerts \ {worker[w].alert} : outbox'[b] = outbox[b]
        /\ outbox'[worker[w].alert] =
              [outbox[worker[w].alert] EXCEPT
                  !.status = IF Terminal(w) THEN "failed" ELSE "pending",
                  !.next_attempt_at = IF Terminal(w) THEN clock
                                      ELSE clock + RetryDelay(worker[w].attempt_count),
                  !.lease_token = 0, !.lease_expires_at = 0,
                  !.last_error_kind = worker[w].outcome]
    BY <1>1, <1>2, <1>4 DEF MarkFailed
  <2>b. outbox[worker[w].alert] \in Row
    BY <1>1, <1>2
  <2>3. /\ \A b \in Alerts \ {worker[w].alert} : outbox'[b] = outbox[b]
        /\ outbox'[worker[w].alert].status = IF Terminal(w) THEN "failed" ELSE "pending"
        /\ outbox'[worker[w].alert].last_error_kind = worker[w].outcome
        /\ outbox'[worker[w].alert].lease_token = 0
        /\ outbox'[worker[w].alert].attempt_count = outbox[worker[w].alert].attempt_count
    BY <2>a, <2>b, SMTT(30) DEF Row
  <2>4. QED
    BY <1>1, <1>2, <1>4, <2>1, <2>2, <2>3
<1>5. QED
  BY <1>3, <1>4

(* A lock stays exclusive and its row due: every other writer of a row     *)
(* waits for the lock, and an insert only adds rows.                       *)
LEMMA LockStep == OutboxInv /\ [Next]_vars => LockInv'
<1> SUFFICES ASSUME OutboxInv, [Next]_vars PROVE LockInv'
  OBVIOUS
<1> USE DEF OutboxInv, TypeOK, LockInv, AnswerInv, Due, Ready
<1>1. ASSUME NEW w \in Workers, NEW a \in Alerts, EnqueueCheck(w, a) PROVE LockInv'
  BY <1>1 DEF EnqueueCheck, WorkerState
<1>2. ASSUME NEW w \in Workers, EnqueueInsert(w) PROVE LockInv'
  BY <1>2 DEF EnqueueInsert, Insert, WorkerState, Row
<1>3. ASSUME NEW w \in Workers, NEW a \in Alerts, ClaimSelect(w, a) PROVE LockInv'
  BY <1>3 DEF ClaimSelect, Claimable, Locked, WorkerState
<1>4. ASSUME NEW w \in Workers, ClaimCommit(w) PROVE LockInv'
  <2> SUFFICES ASSUME NEW u \in Workers, worker'[u].phase = "locked"
               PROVE  /\ Due(worker[u].alert, clock)'
                      /\ \A v \in Workers : (worker'[v].phase = "locked"
                            /\ worker'[v].alert = worker'[u].alert) => v = u
    OBVIOUS
  <2>1. u # w /\ worker'[u] = worker[u]
    BY <1>4, ClaimCommitEffect
  <2>2. worker[w].phase = "locked"
    BY <1>4 DEF ClaimCommit
  <2>3. worker[u].alert \in Alerts \ {worker[w].alert}
    BY <2>1, <2>2
  <2>4. outbox'[worker[u].alert] = outbox[worker[u].alert] /\ clock' = clock
    BY <1>4, <2>3, ClaimCommitEffect
  <2>5. Due(worker[u].alert, clock)'
    BY <2>1, <2>4
  <2>6. QED
    BY <1>4, <2>1, <2>5, ClaimCommitEffect
<1>r. ASSUME NEW w \in Workers, ClaimRefresh(w) PROVE LockInv'
  BY <1>r, ClaimRefreshEffect
<1>5. ASSUME NEW w \in Workers, NEW o \in Outcomes, Deliver(w, o) PROVE LockInv'
  BY <1>5 DEF Deliver, WorkerState
<1>6. ASSUME NEW w \in Workers, MarkDelivered(w) PROVE LockInv'
  BY <1>6, MarkEffect DEF Locked
<1>7. ASSUME NEW w \in Workers, MarkFailed(w) PROVE LockInv'
  BY <1>7, MarkEffect DEF Locked
<1>8. ASSUME NEW w \in Workers, LeaseLost(w) PROVE LockInv'
  BY <1>8 DEF LeaseLost, WorkerState
<1>9. ASSUME NEW w \in Workers, Die(w) PROVE LockInv'
  BY <1>9 DEF Die, WorkerState
<1>10. CASE Tick
  BY <1>10 DEF Tick, WorkerState, Row
<1>11. CASE UNCHANGED vars
  BY <1>11 DEF vars
<1>12. QED
  BY <1>1, <1>2, <1>3, <1>4, <1>r, <1>5, <1>6, <1>7, <1>8, <1>9, <1>10, <1>11
  DEF Next, Evaluate, Claim, Post, Record

(* A commit writes a token nobody else has written, and the lease it       *)
(* writes with it counts from the time its worker read.                    *)
LEMMA TokenStep == OutboxInv /\ [Next]_vars => TokenInv'
<1> SUFFICES ASSUME OutboxInv, [Next]_vars PROVE TokenInv'
  OBVIOUS
<1> USE DEF OutboxInv, TypeOK, TokenInv, AnswerInv, Attempting, OwnsClaim, Ready
<1>1. ASSUME NEW w \in Workers, NEW a \in Alerts, EnqueueCheck(w, a) PROVE TokenInv'
  BY <1>1 DEF EnqueueCheck, WorkerState
<1>2. ASSUME NEW w \in Workers, EnqueueInsert(w) PROVE TokenInv'
  <2>1. /\ UNCHANGED tokens
        /\ \A v \in Workers \ {w} : worker'[v] = worker[v]
        /\ worker'[w].phase = "ready"
    BY <1>2 DEF EnqueueInsert
  <2>2. \A b \in Alerts : \/ outbox'[b] = outbox[b]
                          \/ /\ outbox'[b].status = "pending"
                             /\ outbox[b].status = "absent"
    BY <1>2 DEF EnqueueInsert, Insert, Row
  <2>3. QED
    BY <2>1, <2>2
<1>3. ASSUME NEW w \in Workers, NEW a \in Alerts, ClaimSelect(w, a) PROVE TokenInv'
  BY <1>3 DEF ClaimSelect, WorkerState
<1>4. ASSUME NEW w \in Workers, ClaimCommit(w) PROVE TokenInv'
  BY <1>4, ClaimCommitEffect
<1>r. ASSUME NEW w \in Workers, ClaimRefresh(w) PROVE TokenInv'
  BY <1>r, ClaimRefreshEffect
<1>5. ASSUME NEW w \in Workers, NEW o \in Outcomes, Deliver(w, o) PROVE TokenInv'
  BY <1>5 DEF Deliver, WorkerState
<1>6. ASSUME NEW w \in Workers, MarkDelivered(w) PROVE TokenInv'
  BY <1>6, MarkEffect
<1>7. ASSUME NEW w \in Workers, MarkFailed(w) PROVE TokenInv'
  BY <1>7, MarkEffect
<1>8. ASSUME NEW w \in Workers, LeaseLost(w) PROVE TokenInv'
  BY <1>8 DEF LeaseLost, WorkerState
<1>9. ASSUME NEW w \in Workers, Die(w) PROVE TokenInv'
  BY <1>9 DEF Die, WorkerState
<1>10. CASE Tick
  BY <1>10 DEF Tick
<1>11. CASE UNCHANGED vars
  BY <1>11 DEF vars
<1>12. QED
  BY <1>1, <1>2, <1>3, <1>4, <1>r, <1>5, <1>6, <1>7, <1>8, <1>9, <1>10, <1>11
  DEF Next, Evaluate, Claim, Post, Record

(* A step that leaves the rows, the clock and the history alone, and of    *)
(* every worker that attempts the record and the claim, changes nothing    *)
(* about what records are worth.                                           *)
LEMMA RecordFrame ==
  ASSUME OutboxInv, NEW w \in Workers,
         UNCHANGED <<clock, outbox, tokens, overtaken>>,
         \A v \in Workers \ {w} : worker'[v] = worker[v],
         worker'[w].lease_token <= tokens,
         worker'[w].phase \notin {"posting", "answered"} => worker'[w].lease_token = 0,
         \/ worker'[w].phase \in {"ready", "inserting", "locked"}
         \/ /\ worker[w].phase = "posting"
            /\ worker'[w].phase = "answered"
            /\ worker'[w].alert = worker[w].alert
            /\ worker'[w].claim_token = worker[w].claim_token
            /\ worker'[w].lease_token = worker[w].lease_token
            /\ worker'[w].attempt_count = worker[w].attempt_count
  PROVE  RecordInv'
<1> SUFFICES ASSUME NEW u \in Workers
             PROVE  /\ worker'[u].phase \notin {"posting", "answered"} => worker'[u].lease_token = 0
                    /\ worker'[u].lease_token <= tokens
                    /\ worker'[u].phase = "refreshing" =>
                          (OwnsClaim(u) \/ LeaseOver(u) \/ worker[u].alert \in overtaken)'
                    /\ worker'[u].phase \in {"posting", "answered"} =>
                        /\ OwnsClaim(u)' => HoldsLease(u)'
                        /\ HoldsLease(u)' =>
                            /\ worker'[u].attempt_count = outbox'[worker'[u].alert].attempt_count
                            /\ worker'[u].alert \in overtaken' \/ OwnsClaim(u)'
  BY DEF RecordInv, OutboxInv
<1>1. CASE u # w
  BY <1>1 DEF OutboxInv, RecordInv, OwnsClaim, HoldsLease, LeaseOver
<1>2. CASE u = w
  BY <1>2 DEF OutboxInv, RecordInv, OwnsClaim, HoldsLease, LeaseOver
<1>3. QED
  BY <1>1, <1>2

(* The types the record lemmas use.                                        *)
LEMMA RecordTypes ==
  ASSUME OutboxInv
  PROVE  /\ worker \in [Workers -> WorkerState] /\ outbox \in [Alerts -> Row]
         /\ clock \in Nat /\ tokens \in Nat /\ LeaseSeconds \in Nat
         /\ \A w \in Workers : /\ worker[w].claimed_at \in Nat
                               /\ worker[w].lease_token \in Nat
                               /\ worker[w].claim_token \in Nat
                               /\ worker[w].phase # "ready" => worker[w].alert \in Alerts
         /\ \A a \in Alerts : /\ outbox[a].lease_token \in Nat
                              /\ outbox[a].lease_expires_at \in Nat
  BY SettingsAssumption DEF OutboxInv, TypeOK, AnswerInv, Row, WorkerState

(* Only a lease that is over is claimed away from its worker, and a result *)
(* is accepted from the claimant alone or after a lease was overtaken.     *)
LEMMA RecordStep == OutboxInv /\ [Next]_vars => RecordInv'
<1> SUFFICES ASSUME OutboxInv, [Next]_vars PROVE RecordInv'
  OBVIOUS
<1>t. /\ worker \in [Workers -> WorkerState] /\ outbox \in [Alerts -> Row]
      /\ clock \in Nat /\ tokens \in Nat /\ LeaseSeconds \in Nat
      /\ \A w \in Workers : /\ worker[w].claimed_at \in Nat
                            /\ worker[w].lease_token \in Nat
                            /\ worker[w].claim_token \in Nat
                            /\ worker[w].phase # "ready" => worker[w].alert \in Alerts
      /\ \A a \in Alerts : /\ outbox[a].lease_token \in Nat
                           /\ outbox[a].lease_expires_at \in Nat
  BY RecordTypes
<1>i. RecordInv /\ TokenInv /\ LockInv
  BY DEF OutboxInv
<1>1. ASSUME NEW w \in Workers, NEW a \in Alerts, EnqueueCheck(w, a) PROVE RecordInv'
  <2>1. /\ UNCHANGED <<clock, outbox, tokens, overtaken>>
        /\ \A v \in Workers \ {w} : worker'[v] = worker[v]
        /\ worker'[w].phase = "inserting" /\ worker'[w].lease_token = worker[w].lease_token
        /\ worker[w].phase = "ready"
    BY <1>1, <1>t DEF EnqueueCheck
  <2>2. worker[w].lease_token <= tokens /\ worker[w].lease_token = 0
    BY <2>1, <1>i DEF RecordInv
  <2>3. QED
    BY <2>1, <2>2, RecordFrame
<1>2. ASSUME NEW w \in Workers, EnqueueInsert(w) PROVE RecordInv'
  <2>1. /\ UNCHANGED <<clock, tokens, overtaken>>
        /\ \A v \in Workers \ {w} : worker'[v] = worker[v]
        /\ worker'[w].phase = "ready" /\ worker'[w].lease_token = 0
    BY <1>2, <1>t DEF EnqueueInsert, Ready
  <2>2. CASE UNCHANGED outbox
    BY <2>1, <2>2, <1>t, RecordFrame
  <2>3. CASE outbox[worker[w].alert].status = "absent" /\ Insert(worker[w].alert)
    <3> DEFINE a == worker[w].alert
    <3>1. a \in Alerts
      BY <1>2, <1>t DEF EnqueueInsert
    <3>2. /\ \A b \in Alerts \ {a} : outbox'[b] = outbox[b]
          /\ outbox'[a].status = "pending"
          /\ outbox'[a].lease_token = outbox[a].lease_token
      BY <2>3, <3>1, <1>t DEF Insert, Row
    <3>3. QED
      BY <2>1, <2>3, <3>1, <3>2, <1>i, <1>t
      DEF RecordInv, TokenInv, OwnsClaim, HoldsLease, LeaseOver, Attempting
  <2>4. QED
    BY <1>2, <2>2, <2>3 DEF EnqueueInsert
<1>3. ASSUME NEW w \in Workers, NEW a \in Alerts, ClaimSelect(w, a) PROVE RecordInv'
  <2>1. /\ UNCHANGED <<clock, outbox, tokens, overtaken>>
        /\ \A v \in Workers \ {w} : worker'[v] = worker[v]
        /\ worker'[w].phase = "locked" /\ worker'[w].lease_token = worker[w].lease_token
        /\ worker[w].phase = "ready"
    BY <1>3, <1>t DEF ClaimSelect
  <2>2. worker[w].lease_token <= tokens /\ worker[w].lease_token = 0
    BY <2>1, <1>i DEF RecordInv
  <2>3. QED
    BY <2>1, <2>2, RecordFrame
<1>4. ASSUME NEW w \in Workers, ClaimCommit(w) PROVE RecordInv'
  <2>0. PICK a \in Alerts : a = worker[w].alert
    BY <1>4, ClaimCommitEffect
  <2>1. worker[w].phase = "locked"
    BY <1>4 DEF ClaimCommit
  <2>2. Due(a, clock)
    BY <2>0, <2>1, <1>i DEF LockInv
  <2>3. ASSUME NEW u \in Workers \ {w}, worker[u].phase = "refreshing",
               worker[u].alert = a, OwnsClaim(u)
        PROVE  LeaseOver(u)
    BY <2>2, <2>3, <1>i, <1>t DEF Due, OwnsClaim, LeaseOver, TokenInv, Attempting
  <2>4. ASSUME NEW u \in Workers \ {w}
        PROVE  /\ worker'[u].phase = "refreshing" =>
                     (OwnsClaim(u) \/ LeaseOver(u) \/ worker[u].alert \in overtaken)'
               /\ worker'[u].phase \in {"posting", "answered"} =>
                   /\ OwnsClaim(u)' => HoldsLease(u)'
                   /\ HoldsLease(u)' =>
                       /\ worker'[u].attempt_count = outbox'[worker'[u].alert].attempt_count
                       /\ worker'[u].alert \in overtaken' \/ OwnsClaim(u)'
    <3>1. /\ worker'[u] = worker[u] /\ UNCHANGED <<clock, overtaken>>
          /\ outbox'[a].lease_token = tokens + 1
          /\ \A b \in Alerts \ {a} : outbox'[b] = outbox[b]
      BY <1>4, <2>0, ClaimCommitEffect
    <3>2. CASE worker[u].alert # a
      BY <3>1, <3>2, <1>i, <1>t DEF RecordInv, OwnsClaim, HoldsLease, LeaseOver
    <3>3. CASE worker[u].alert = a
      <4>1. worker[u].lease_token <= tokens
            /\ (Attempting(u) => worker[u].claim_token \in 1..tokens)
        BY <1>i DEF RecordInv, TokenInv
      <4>2. Attempting(u) => ~OwnsClaim(u)' /\ ~HoldsLease(u)'
        BY <3>1, <3>3, <4>1, <1>t DEF OwnsClaim, HoldsLease
      <4>3. worker[u].phase = "refreshing" => (LeaseOver(u) \/ worker[u].alert \in overtaken)
        BY <2>3, <3>3, <1>i DEF RecordInv
      <4>4. QED
        BY <3>1, <4>2, <4>3 DEF Attempting, LeaseOver
    <3>4. QED
      BY <3>2, <3>3
  <2>5. /\ worker'[w].phase = "refreshing"
        /\ worker'[w].lease_token = 0
        /\ OwnsClaim(w)'
    BY <1>4, <2>1, <1>i, ClaimCommitEffect DEF RecordInv, OwnsClaim
  <2>6. /\ tokens' = tokens + 1
        /\ \A u \in Workers \ {w} : worker'[u] = worker[u]
        /\ \A b \in Alerts \ {a} : outbox'[b] = outbox[b]
        /\ outbox'[a].lease_token = tokens + 1
    BY <1>4, <2>0, ClaimCommitEffect
  <2>7. \A b \in Alerts : outbox'[b].lease_token <= tokens'
    BY <2>6, <1>i, <1>t DEF RecordInv
  <2>8. \A u \in Workers :
           /\ worker'[u].phase \notin {"posting", "answered"} => worker'[u].lease_token = 0
           /\ worker'[u].lease_token <= tokens'
    BY <2>5, <2>6, <1>i, <1>t DEF RecordInv
  <2>9. QED
    BY <2>4, <2>5, <2>7, <2>8 DEF RecordInv
<1>r. ASSUME NEW w \in Workers, ClaimRefresh(w) PROVE RecordInv'
  <2>0. PICK a \in Alerts : a = worker[w].alert
    BY <1>r, ClaimRefreshEffect
  <2>1. ASSUME NEW u \in Workers \ {w}
        PROVE  /\ worker'[u].phase \notin {"posting", "answered"} => worker'[u].lease_token = 0
               /\ worker'[u].lease_token <= tokens'
               /\ worker'[u].phase = "refreshing" =>
                     (OwnsClaim(u) \/ LeaseOver(u) \/ worker[u].alert \in overtaken)'
               /\ worker'[u].phase \in {"posting", "answered"} =>
                   /\ OwnsClaim(u)' => HoldsLease(u)'
                   /\ HoldsLease(u)' =>
                       /\ worker'[u].attempt_count = outbox'[worker'[u].alert].attempt_count
                       /\ worker'[u].alert \in overtaken' \/ OwnsClaim(u)'
    <3>1. /\ worker'[u] = worker[u] /\ UNCHANGED <<clock, outbox, tokens>>
          /\ overtaken \subseteq overtaken'
      BY <1>r, ClaimRefreshEffect
    <3>2. QED
      BY <3>1, <1>i DEF RecordInv, OwnsClaim, HoldsLease, LeaseOver
  <2>2. /\ UNCHANGED <<outbox, tokens>>
        /\ worker'[w].phase = "posting" /\ worker'[w].alert = a
        /\ worker'[w].claim_token = worker[w].claim_token
        /\ worker'[w].lease_token = outbox[a].lease_token
        /\ worker'[w].attempt_count = outbox[a].attempt_count
    BY <1>r, <2>0, ClaimRefreshEffect
  <2>3. outbox[a].lease_token <= tokens
    BY <1>i, <1>t DEF RecordInv
  <2>4. outbox[a].status = "delivering" => OwnsClaim(w) \/ a \in overtaken'
    BY <1>r, <2>0, <1>i, ClaimRefreshEffect DEF RecordInv
  <2>5. OwnsClaim(w)' <=> OwnsClaim(w)
    BY <2>0, <2>2 DEF OwnsClaim
  <2>6. worker'[w].lease_token <= tokens'
    BY <2>2, <2>3
  <2>7. /\ OwnsClaim(w)' => HoldsLease(w)'
        /\ HoldsLease(w)' => /\ worker'[w].attempt_count = outbox'[a].attempt_count
                             /\ a \in overtaken' \/ OwnsClaim(w)'
    BY <2>0, <2>2, <2>4, <2>5 DEF OwnsClaim, HoldsLease
  <2>8. QED
    BY <2>1, <2>2, <2>6, <2>7, <1>i DEF RecordInv
<1>5. ASSUME NEW w \in Workers, NEW o \in Outcomes, Deliver(w, o) PROVE RecordInv'
  <2>1. /\ UNCHANGED <<clock, outbox, tokens, overtaken>>
        /\ \A v \in Workers \ {w} : worker'[v] = worker[v]
        /\ worker[w].phase = "posting" /\ worker'[w].phase = "answered"
        /\ worker'[w].alert = worker[w].alert
        /\ worker'[w].claim_token = worker[w].claim_token
        /\ worker'[w].lease_token = worker[w].lease_token
        /\ worker'[w].attempt_count = worker[w].attempt_count
    BY <1>5, <1>t DEF Deliver, WorkerState
  <2>2. QED
    BY <2>1, <1>i, RecordFrame DEF RecordInv
<1>6. ASSUME NEW w \in Workers, MarkDelivered(w) \/ MarkFailed(w) PROVE RecordInv'
  <2>0. PICK a \in Alerts : a = worker[w].alert
    BY <1>6, MarkEffect
  <2>1. /\ UNCHANGED <<clock, tokens, overtaken>>
        /\ \A v \in Workers \ {w} : worker'[v] = worker[v]
        /\ worker'[w] = Ready
        /\ \A b \in Alerts \ {a} : outbox'[b] = outbox[b]
        /\ outbox'[a].status # "delivering" /\ outbox'[a].lease_token = 0
        /\ worker[w].phase = "answered" /\ HoldsLease(w)
    BY <1>6, <2>0, MarkEffect
  <2>2. \A u \in Workers \ {w} :
           (worker[u].phase = "refreshing" /\ worker[u].alert = a)
              => LeaseOver(u) \/ a \in overtaken
    <3>1. a \in overtaken \/ OwnsClaim(w)
      BY <2>0, <2>1, <1>i DEF RecordInv
    <3>2. OwnsClaim(w) => \A u \in Workers \ {w} :
                             (Attempting(u) /\ worker[u].alert = a) => ~OwnsClaim(u)
      BY <2>0, <2>1, <1>i DEF TokenInv, OwnsClaim, Attempting
    <3>3. QED
      BY <3>1, <3>2, <1>i DEF RecordInv, Attempting
  <2>3. QED
    BY <2>0, <2>1, <2>2, <1>i, <1>t
    DEF RecordInv, OwnsClaim, HoldsLease, LeaseOver, Ready
<1>8. ASSUME NEW w \in Workers, LeaseLost(w) \/ Die(w) PROVE RecordInv'
  <2>1. /\ UNCHANGED <<clock, outbox, tokens, overtaken>>
        /\ \A v \in Workers \ {w} : worker'[v] = worker[v]
        /\ worker'[w].phase = "ready" /\ worker'[w].lease_token = 0
    BY <1>8, <1>t DEF LeaseLost, Die, Ready
  <2>2. QED
    BY <2>1, <1>t, RecordFrame
<1>10. CASE Tick
  <2>1. UNCHANGED <<outbox, worker, tokens, overtaken>> /\ clock' = clock + 1
    BY <1>10 DEF Tick
  <2>2. QED
    BY <2>1, <1>i, <1>t DEF RecordInv, OwnsClaim, HoldsLease, LeaseOver
<1>11. CASE UNCHANGED vars
  BY <1>11, <1>i DEF vars, RecordInv, OwnsClaim, HoldsLease, LeaseOver
<1>12. QED
  BY <1>1, <1>2, <1>3, <1>4, <1>r, <1>5, <1>6, <1>8, <1>10, <1>11
  DEF Next, Evaluate, Claim, Post, Record

(* An answer is one of the outcomes, and an accepted alert was acted upon. *)
LEMMA AnswerStep == OutboxInv /\ [Next]_vars => AnswerInv'
<1> SUFFICES ASSUME OutboxInv, [Next]_vars PROVE AnswerInv'
  OBVIOUS
<1> USE DEF OutboxInv, TypeOK, AnswerInv, Ready
<1>1. ASSUME NEW w \in Workers, NEW a \in Alerts, EnqueueCheck(w, a) PROVE AnswerInv'
  BY <1>1 DEF EnqueueCheck, WorkerState
<1>2. ASSUME NEW w \in Workers, EnqueueInsert(w) PROVE AnswerInv'
  BY <1>2 DEF EnqueueInsert, WorkerState
<1>3. ASSUME NEW w \in Workers, NEW a \in Alerts, ClaimSelect(w, a) PROVE AnswerInv'
  BY <1>3 DEF ClaimSelect, WorkerState
<1>4. ASSUME NEW w \in Workers, ClaimCommit(w) PROVE AnswerInv'
  BY <1>4, ClaimCommitEffect
<1>r. ASSUME NEW w \in Workers, ClaimRefresh(w) PROVE AnswerInv'
  BY <1>r, ClaimRefreshEffect
<1>5. ASSUME NEW w \in Workers, NEW o \in Outcomes, Deliver(w, o) PROVE AnswerInv'
  BY <1>5 DEF Deliver, WorkerState
<1>6. ASSUME NEW w \in Workers, MarkDelivered(w) PROVE AnswerInv'
  BY <1>6, MarkEffect
<1>7. ASSUME NEW w \in Workers, MarkFailed(w) PROVE AnswerInv'
  BY <1>7, MarkEffect
<1>8. ASSUME NEW w \in Workers, LeaseLost(w) PROVE AnswerInv'
  BY <1>8 DEF LeaseLost, WorkerState
<1>9. ASSUME NEW w \in Workers, Die(w) PROVE AnswerInv'
  BY <1>9 DEF Die, WorkerState
<1>10. CASE Tick
  BY <1>10 DEF Tick
<1>11. CASE UNCHANGED vars
  BY <1>11 DEF vars
<1>12. QED
  BY <1>1, <1>2, <1>3, <1>4, <1>r, <1>5, <1>6, <1>7, <1>8, <1>9, <1>10, <1>11
  DEF Next, Evaluate, Claim, Post, Record

(* How a step can change a row: it is inserted, claimed by the worker that *)
(* has locked it, or its outcome is recorded by the holder of its lease.   *)
LEMMA RowStep ==
  ASSUME OutboxInv, [Next]_vars, NEW a \in Alerts, outbox'[a] # outbox[a]
  PROVE  \/ \E w \in Workers : EnqueueInsert(w) /\ worker[w].alert = a
                               /\ outbox[a].status = "absent"
         \/ \E w \in Workers : ClaimCommit(w) /\ worker[w].alert = a
         \/ \E w \in Workers : (MarkDelivered(w) \/ MarkFailed(w))
                               /\ worker[w].alert = a
<1> USE DEF OutboxInv, TypeOK
<1>1. CASE UNCHANGED outbox
  BY <1>1
<1>2. ASSUME NEW w \in Workers, EnqueueInsert(w)
      PROVE  worker[w].alert = a /\ outbox[a].status = "absent"
  BY <1>2 DEF EnqueueInsert, Insert
<1>3. ASSUME NEW w \in Workers, ClaimCommit(w)
      PROVE  worker[w].alert = a
  BY <1>3, ClaimCommitEffect
<1>4. ASSUME NEW w \in Workers, MarkDelivered(w) \/ MarkFailed(w)
      PROVE  worker[w].alert = a
  BY <1>4, MarkEffect
<1>5. QED
  BY <1>1, <1>2, <1>3, <1>4
  DEF Next, vars, Evaluate, Claim, Post, Record, EnqueueCheck, ClaimSelect,
      ClaimRefresh, Deliver, LeaseLost, Die, Tick

(* A row turns failed only for a reason, and stays as it is afterwards.    *)
LEMMA FailedStep == OutboxInv /\ [Next]_vars => FailedIsJustified'
<1> SUFFICES ASSUME OutboxInv, [Next]_vars, NEW a \in Alerts,
                    outbox'[a].status = "failed"
             PROVE  \/ outbox'[a].last_error_kind = "rejected_http"
                    \/ outbox'[a].attempt_count >= MaxAttempts
  BY DEF FailedIsJustified
<1>1. CASE outbox'[a] = outbox[a]
  BY <1>1 DEF OutboxInv, FailedIsJustified
<1>2. CASE outbox'[a] # outbox[a]
  <2>1. ASSUME NEW w \in Workers, EnqueueInsert(w), worker[w].alert = a,
               outbox[a].status = "absent"
        PROVE  FALSE
    BY <2>1 DEF EnqueueInsert, Insert, OutboxInv, TypeOK, Row
  <2>2. ASSUME NEW w \in Workers, ClaimCommit(w), worker[w].alert = a
        PROVE  FALSE
    BY <2>2, ClaimCommitEffect
  <2>3. ASSUME NEW w \in Workers, MarkDelivered(w), worker[w].alert = a
        PROVE  FALSE
    BY <2>3, MarkEffect
  <2>4. ASSUME NEW w \in Workers, MarkFailed(w), worker[w].alert = a
        PROVE  \/ outbox'[a].last_error_kind = "rejected_http"
               \/ outbox'[a].attempt_count >= MaxAttempts
    <3>1. Terminal(w) /\ outbox'[a].last_error_kind = worker[w].outcome
      BY <2>4, MarkEffect
    <3>2. worker[w].outcome \in AllOutcomes /\ IsError(worker[w].outcome)
      BY <2>4, OutcomesAssumption DEF MarkFailed, OutboxInv, AnswerInv
    <3>3. outbox'[a].attempt_count = worker[w].attempt_count
      BY <2>4, MarkEffect DEF OutboxInv, RecordInv
    <3>4. QED
      BY <3>1, <3>2, <3>3 DEF Terminal, AllOutcomes, IsError, Retryable
  <2>5. QED
    BY <1>2, <2>1, <2>2, <2>3, <2>4, RowStep
<1>3. QED
  BY <1>1, <1>2

(* The inductive invariant of the outbox.                                  *)
THEOREM OutboxInvariance == Spec => []OutboxInv
<1>1. OutboxInv /\ [Next]_vars => OutboxInv'
  BY TypeStep, LockStep, TokenStep, RecordStep, AnswerStep, FailedStep DEF OutboxInv
<1>2. QED
  BY InitInv, <1>1, PTL DEF Spec

(* mark_failed gives an alert up only for a plain rejection or after the   *)
(* configured number of attempts.                                          *)
THEOREM FailuresJustified == Spec => []FailedIsJustified
<1>1. OutboxInv => FailedIsJustified
  BY DEF OutboxInv
<1>2. QED
  BY <1>1, OutboxInvariance, PTL

(* While a lease runs, only the worker that claimed it changes the row,    *)
(* unless a late worker of the alert has read back somebody else's claim.  *)
THEOREM LeaseIsExclusive == Spec => LeaseProtects
<1> DEFINE Step ==
      \A a \in Alerts :
          (/\ outbox[a].status = "delivering"
           /\ clock < outbox[a].lease_expires_at
           /\ outbox'[a] # outbox[a])
          => \E w \in Workers : Entitled(w, a) /\ worker'[w].phase = "ready"
<1>1. OutboxInv /\ [Next]_vars => [Step]_vars
  <2> SUFFICES ASSUME OutboxInv, [Next]_vars, NEW a \in Alerts,
                      outbox[a].status = "delivering",
                      clock < outbox[a].lease_expires_at,
                      outbox'[a] # outbox[a]
               PROVE  \E w \in Workers : Entitled(w, a) /\ worker'[w].phase = "ready"
    BY DEF Step
  <2>1. ASSUME NEW w \in Workers, ClaimCommit(w), worker[w].alert = a
        PROVE  FALSE
    <3>1. Due(a, clock)
      BY <2>1 DEF ClaimCommit, OutboxInv, LockInv
    <3>2. clock \in Nat /\ outbox[a].lease_expires_at \in Nat
      BY DEF OutboxInv, TypeOK, Row
    <3>3. QED
      BY <3>1, <3>2 DEF Due
  <2>2. ASSUME NEW w \in Workers, MarkDelivered(w) \/ MarkFailed(w),
               worker[w].alert = a
        PROVE  Entitled(w, a) /\ worker'[w].phase = "ready"
    BY <2>2, MarkEffect DEF OutboxInv, RecordInv, Entitled, Ready
  <2>3. QED
    BY <2>1, <2>2, RowStep
<1>2. QED
  BY <1>1, OutboxInvariance, PTL DEF Spec, LeaseProtects

(* The recorded outcome of an alert is that of its latest attempt, and is  *)
(* judged by the number of that attempt.                                   *)
THEOREM LatestAttemptWins == Spec => LatestAttemptDecides
<1> DEFINE Step ==
      \A a \in Alerts :
          (outbox[a].status = "delivering" /\ outbox'[a].status # "delivering")
          => \E w \in Workers :
                /\ Entitled(w, a)
                /\ worker[w].attempt_count = outbox[a].attempt_count
                /\ outbox'[a].status = "delivered" <=> ~IsError(worker[w].outcome)
                /\ worker'[w].phase = "ready"
<1>1. OutboxInv /\ [Next]_vars => [Step]_vars
  <2> SUFFICES ASSUME OutboxInv, [Next]_vars, NEW a \in Alerts,
                      outbox[a].status = "delivering",
                      outbox'[a].status # "delivering"
               PROVE  \E w \in Workers :
                /\ Entitled(w, a)
                /\ worker[w].attempt_count = outbox[a].attempt_count
                /\ outbox'[a].status = "delivered" <=> ~IsError(worker[w].outcome)
                /\ worker'[w].phase = "ready"
    BY DEF Step
  <2>1. ASSUME NEW w \in Workers, ClaimCommit(w), worker[w].alert = a
        PROVE  FALSE
    BY <2>1, ClaimCommitEffect
  <2>2. ASSUME NEW w \in Workers, MarkDelivered(w) \/ MarkFailed(w),
               worker[w].alert = a
        PROVE  /\ Entitled(w, a)
               /\ worker[w].attempt_count = outbox[a].attempt_count
               /\ outbox'[a].status = "delivered" <=> ~IsError(worker[w].outcome)
               /\ worker'[w].phase = "ready"
    <3>1. Entitled(w, a) /\ worker[w].attempt_count = outbox[a].attempt_count
      BY <2>2, MarkEffect DEF OutboxInv, RecordInv, Entitled
    <3>2. MarkDelivered(w) <=> ~IsError(worker[w].outcome)
      BY <2>2 DEF MarkDelivered, MarkFailed
    <3>3. MarkFailed(w) => outbox'[a].status # "delivered"
      BY <2>2, MarkEffect
    <3>4. QED
      BY <2>2, <3>1, <3>2, <3>3, MarkEffect DEF Ready
  <2>3. QED
    BY <2>1, <2>2, RowStep
<1>2. QED
  BY <1>1, OutboxInvariance, PTL DEF Spec, LatestAttemptDecides

(* A settled alert is never touched again.                                 *)
THEOREM SettledStays == Spec => SettledIsFinal
<1> DEFINE Step ==
      \A a \in Alerts :
          outbox[a].status \in {"delivered", "failed"} => outbox'[a] = outbox[a]
<1>1. OutboxInv /\ [Next]_vars => [Step]_vars
  <2> SUFFICES ASSUME OutboxInv, [Next]_vars, NEW a \in Alerts,
                      outbox[a].status \in {"delivered", "failed"},
                      outbox'[a] # outbox[a]
               PROVE  FALSE
    BY DEF Step
  <2>1. ASSUME NEW w \in Workers, ClaimCommit(w), worker[w].alert = a
        PROVE  FALSE
    BY <2>1 DEF ClaimCommit, OutboxInv, LockInv, Due
  <2>2. ASSUME NEW w \in Workers, MarkDelivered(w) \/ MarkFailed(w),
               worker[w].alert = a
        PROVE  FALSE
    BY <2>2, MarkEffect DEF HoldsLease
  <2>3. QED
    BY <2>1, <2>2, RowStep
<1>2. QED
  BY <1>1, OutboxInvariance, PTL DEF Spec, SettledIsFinal

(* With a receiver that never redirects, delivered means acted upon.       *)
THEOREM AtLeastOnce ==
  ASSUME "redirect" \notin Outcomes
  PROVE  Spec => []DeliveredAtLeastOnce
<1>1. Init => DeliveredAtLeastOnce
  BY DEF Init, NoRow, DeliveredAtLeastOnce
<1>2. OutboxInv /\ DeliveredAtLeastOnce /\ [Next]_vars => DeliveredAtLeastOnce'
  <2> SUFFICES ASSUME OutboxInv, DeliveredAtLeastOnce, [Next]_vars,
                      NEW a \in Alerts, outbox'[a].status = "delivered"
               PROVE  a \in processed'
    BY DEF DeliveredAtLeastOnce
  <2>1. processed \subseteq processed'
    BY ClaimCommitEffect, MarkEffect
    DEF Next, vars, Evaluate, Claim, Post, Record, EnqueueCheck, EnqueueInsert,
        ClaimSelect, ClaimRefresh, Deliver, LeaseLost, Die, Tick
  <2>2. CASE outbox'[a] = outbox[a]
    BY <2>1, <2>2 DEF DeliveredAtLeastOnce
  <2>3. ASSUME NEW w \in Workers, EnqueueInsert(w), worker[w].alert = a,
               outbox[a].status = "absent"
        PROVE  FALSE
    BY <2>3 DEF EnqueueInsert, Insert, OutboxInv, TypeOK, Row
  <2>4. ASSUME NEW w \in Workers, ClaimCommit(w), worker[w].alert = a
        PROVE  FALSE
    BY <2>4, ClaimCommitEffect
  <2>5. ASSUME NEW w \in Workers, MarkFailed(w), worker[w].alert = a
        PROVE  FALSE
    BY <2>5, MarkEffect
  <2>6. ASSUME NEW w \in Workers, MarkDelivered(w), worker[w].alert = a
        PROVE  a \in processed
    <3>1. worker[w].outcome = "success"
      BY <2>6 DEF MarkDelivered, IsError, OutboxInv, AnswerInv
    <3>2. QED
      BY <2>6, <3>1 DEF MarkDelivered, OutboxInv, AnswerInv
  <2>7. QED
    BY <2>1, <2>2, <2>3, <2>4, <2>5, <2>6, RowStep
<1>3. QED
  BY <1>1, <1>2, OutboxInvariance, PTL DEF Spec

(* The outbox implements the promise: a posting worker may make the        *)
(* receiver act, an insert raises the alert, a recorded final outcome      *)
(* settles it, and claims, retries and lost leases are invisible.          *)
THEOREM PromiseKept ==
  ASSUME "redirect" \notin Outcomes
  PROVE  Spec => KeepsPromise
<1>1. Init => Promise!Init
  BY DEF Init, NoRow, PromisedState, Promise!Init
<1>2. OutboxInv /\ [Next]_vars => [Promise!Next]_(Promise!promiseVars)
  <2> SUFFICES ASSUME OutboxInv, [Next]_vars
               PROVE  Promise!Next \/ UNCHANGED <<PromisedState, processed>>
    BY DEF Promise!promiseVars
  <2> USE DEF OutboxInv, TypeOK
  <2>1. ASSUME UNCHANGED outbox
        PROVE  UNCHANGED PromisedState
    BY <2>1 DEF PromisedState
  <2>2. ASSUME NEW w \in Workers, NEW o \in Outcomes, Deliver(w, o)
        PROVE  Promise!Next \/ UNCHANGED <<PromisedState, processed>>
    <3>1. worker[w].alert \in Alerts /\ outbox[worker[w].alert].status # "absent"
      BY <2>2 DEF Deliver, AnswerInv, TokenInv, Attempting
    <3>2. PromisedState[worker[w].alert] # "absent"
      BY <3>1 DEF PromisedState
    <3>3. UNCHANGED PromisedState
      BY <2>1, <2>2 DEF Deliver
    <3>4. processed' \in {processed, processed \cup {worker[w].alert}}
      BY <2>2 DEF Deliver
    <3>5. QED
      BY <3>1, <3>2, <3>3, <3>4 DEF Promise!Next, Promise!Process
  <2>3. ASSUME NEW w \in Workers, Die(w)
        PROVE  Promise!Next \/ UNCHANGED <<PromisedState, processed>>
    <3>1. UNCHANGED PromisedState
      BY <2>1, <2>3 DEF Die
    <3>2. CASE UNCHANGED processed
      BY <3>1, <3>2
    <3>3. CASE worker[w].phase = "posting" /\ processed' = processed \cup {worker[w].alert}
      <4>1. worker[w].alert \in Alerts /\ outbox[worker[w].alert].status # "absent"
        BY <3>3 DEF AnswerInv, TokenInv, Attempting
      <4>2. PromisedState[worker[w].alert] # "absent"
        BY <4>1 DEF PromisedState
      <4>3. QED
        BY <3>1, <3>3, <4>1, <4>2 DEF Promise!Next, Promise!Process
    <3>4. QED
      BY <2>3, <3>2, <3>3 DEF Die
  <2>4. ASSUME NEW w \in Workers, EnqueueInsert(w)
        PROVE  Promise!Next \/ UNCHANGED <<PromisedState, processed>>
    <3>1. CASE UNCHANGED outbox
      BY <2>1, <2>4, <3>1 DEF EnqueueInsert
    <3>2. CASE outbox[worker[w].alert].status = "absent" /\ Insert(worker[w].alert)
      <4> DEFINE a == worker[w].alert
      <4>1. a \in Alerts
        BY <2>4 DEF EnqueueInsert, AnswerInv
      <4>2. PromisedState[a] = "absent"
        BY <4>1, <3>2 DEF PromisedState
      <4>3. PromisedState' = [PromisedState EXCEPT ![a] = "open"]
        BY <3>2, <4>1 DEF PromisedState, Insert, Row
      <4>4. QED
        BY <2>4, <4>1, <4>2, <4>3 DEF Promise!Next, Promise!Raise, EnqueueInsert
    <3>3. QED
      BY <2>4, <3>1, <3>2 DEF EnqueueInsert
  <2>5. ASSUME NEW w \in Workers, ClaimCommit(w)
        PROVE  Promise!Next \/ UNCHANGED <<PromisedState, processed>>
    <3>1. outbox[worker[w].alert].status \in {"pending", "delivering"}
      BY <2>5 DEF ClaimCommit, LockInv, Due
    <3>2. \A b \in Alerts : PromisedState'[b] = PromisedState[b]
      BY <2>5, <3>1, ClaimCommitEffect DEF PromisedState
    <3>3. UNCHANGED PromisedState
      BY <3>2 DEF PromisedState
    <3>4. QED
      BY <2>5, <3>3, ClaimCommitEffect
  <2>6. ASSUME NEW w \in Workers, MarkDelivered(w) \/ MarkFailed(w)
        PROVE  Promise!Next \/ UNCHANGED <<PromisedState, processed>>
    <3> DEFINE a == worker[w].alert
    <3>1. a \in Alerts /\ outbox[a].status = "delivering" /\ UNCHANGED processed
      BY <2>6, MarkEffect DEF HoldsLease
    <3>2. PromisedState[a] = "open"
      BY <3>1 DEF PromisedState
    <3>3. \A b \in Alerts \ {a} : PromisedState'[b] = PromisedState[b]
      BY <2>6, MarkEffect DEF PromisedState
    <3>4. CASE outbox'[a].status = "pending"
      <4>1. PromisedState'[a] = PromisedState[a]
        BY <3>1, <3>2, <3>4 DEF PromisedState
      <4>2. UNCHANGED PromisedState
        BY <3>3, <4>1 DEF PromisedState
      <4>3. QED
        BY <3>1, <4>2
    <3>5. CASE outbox'[a].status = "failed"
      <4>1. PromisedState'[a] = "failed"
        BY <3>1, <3>5 DEF PromisedState
      <4>2. PromisedState' = [PromisedState EXCEPT ![a] = "failed"]
        BY <3>3, <4>1 DEF PromisedState
      <4>3. QED
        BY <3>1, <3>2, <4>2 DEF Promise!Next, Promise!Settle
    <3>6. CASE outbox'[a].status = "delivered"
      <4>1. MarkDelivered(w)
        BY <2>6, <3>6, MarkEffect
      <4>2. worker[w].outcome = "success" /\ worker[w].phase = "answered"
        BY <4>1 DEF MarkDelivered, IsError, AnswerInv
      <4>3. a \in processed
        BY <4>2 DEF AnswerInv
      <4>4. PromisedState'[a] = "delivered"
        BY <3>1, <3>6 DEF PromisedState
      <4>5. PromisedState' = [PromisedState EXCEPT ![a] = "delivered"]
        BY <3>3, <4>4 DEF PromisedState
      <4>6. QED
        BY <3>1, <3>2, <4>3, <4>5 DEF Promise!Next, Promise!Settle
    <3>7. QED
      BY <2>6, <3>4, <3>5, <3>6, MarkEffect
  <2>7. QED
    BY <2>1, <2>2, <2>3, <2>4, <2>5, <2>6
    DEF Next, vars, Evaluate, Claim, Post, Record, EnqueueCheck, ClaimSelect,
        ClaimRefresh, LeaseLost, Tick
<1>3. QED
  BY <1>1, <1>2, OutboxInvariance, PTL DEF Spec, KeepsPromise, Promise!Spec

(* A row that no step touches stays held in time when the worker that      *)
(* holds its lease is not touched either.                                  *)
LEMMA HeldFrame ==
  ASSUME NEW b \in Alerts, NEW w \in Workers, HeldInTime(b),
         \A v \in Workers \ {w} : worker'[v] = worker[v],
         ~(Attempting(w) /\ worker[w].alert = b /\ OwnsClaim(w)),
         outbox'[b] = outbox[b], clock' = clock
  PROVE  HeldInTime(b)'
  BY DEF HeldInTime, Attempting, OwnsClaim

(* Only a fault makes room for one more attempt.                           *)
LEMMA BudgetStep == OutboxInv /\ BudgetInv /\ [Next]_vars => BudgetInv'
<1> SUFFICES ASSUME OutboxInv, BudgetInv, [Next]_vars PROVE BudgetInv'
  OBVIOUS
<1>t. /\ worker \in [Workers -> WorkerState] /\ outbox \in [Alerts -> Row]
      /\ clock \in Nat /\ faults \in Nat /\ tokens \in Nat
      /\ MaxAttempts \in Nat /\ MaxAttempts > 0 /\ LeaseSeconds \in Nat /\ LeaseSeconds > 0
      /\ \A a \in Alerts : outbox[a].attempt_count \in Nat /\ outbox[a].lease_expires_at \in Nat
      /\ \A w \in Workers : worker[w].claimed_at \in Nat
  BY SettingsAssumption DEF OutboxInv, TypeOK, Row, WorkerState
<1>a. \A w \in Workers : worker[w].phase # "ready" => worker[w].alert \in Alerts
  BY DEF OutboxInv, AnswerInv
<1>1. ASSUME NEW w \in Workers, NEW a \in Alerts, EnqueueCheck(w, a) PROVE BudgetInv'
  <2>1. /\ UNCHANGED <<clock, outbox, faults>>
        /\ \A v \in Workers \ {w} : worker'[v] = worker[v]
        /\ ~Attempting(w) /\ worker'[w].phase = "inserting"
    BY <1>1, <1>t DEF EnqueueCheck, Attempting
  <2>2. QED
    BY <2>1, HeldFrame DEF BudgetInv
<1>2. ASSUME NEW w \in Workers, EnqueueInsert(w) PROVE BudgetInv'
  <2> DEFINE a == worker[w].alert
  <2>1. /\ UNCHANGED <<clock, faults>> /\ a \in Alerts
        /\ \A v \in Workers \ {w} : worker'[v] = worker[v]
        /\ ~Attempting(w) /\ worker'[w].phase = "ready"
    BY <1>2, <1>t, <1>a DEF EnqueueInsert, Attempting, Ready
  <2>2. CASE UNCHANGED outbox
    BY <2>1, <2>2, HeldFrame DEF BudgetInv
  <2>3. CASE outbox[a].status = "absent" /\ Insert(a)
    <3>1. /\ \A b \in Alerts \ {a} : outbox'[b] = outbox[b]
          /\ outbox'[a].status = "pending"
          /\ outbox'[a].attempt_count = outbox[a].attempt_count
      BY <2>1, <2>3, <1>t DEF Insert, Row
    <3>2. \A v \in Workers : worker[v].phase = "locked" => worker[v].alert \in Alerts \ {a}
      BY <2>3, <1>a DEF OutboxInv, LockInv, Due
    <3>3. QED
      BY <2>1, <2>3, <3>1, <3>2, HeldFrame DEF BudgetInv
  <2>4. QED
    BY <1>2, <2>2, <2>3 DEF EnqueueInsert
<1>3. ASSUME NEW w \in Workers, NEW a \in Alerts, ClaimSelect(w, a) PROVE BudgetInv'
  <2>1. /\ UNCHANGED <<clock, outbox, faults>>
        /\ \A v \in Workers \ {w} : worker'[v] = worker[v]
        /\ ~Attempting(w)
        /\ worker'[w].alert = a /\ worker'[w].claimed_at = clock
    BY <1>3, <1>t DEF ClaimSelect, Attempting
  <2>2. outbox[a].attempt_count < MaxAttempts + faults
    <3>1. Due(a, clock)
      BY <1>3 DEF ClaimSelect, Claimable
    <3>2. ~HeldInTime(a) \/ outbox[a].status = "pending"
      BY <3>1, <1>t DEF Due, HeldInTime, OwnsClaim
    <3>3. QED
      BY <3>1, <3>2, <1>t DEF Due, BudgetInv
  <2>3. QED
    BY <2>1, <2>2, <1>t, HeldFrame DEF BudgetInv
<1>4. ASSUME NEW w \in Workers, ClaimCommit(w) PROVE BudgetInv'
  <2>0. PICK a \in Alerts : a = worker[w].alert
    BY <1>4, ClaimCommitEffect
  <2>1. /\ UNCHANGED <<clock, faults>>
        /\ \A v \in Workers \ {w} : worker'[v] = worker[v]
        /\ \A b \in Alerts \ {a} : outbox'[b] = outbox[b]
        /\ outbox'[a].attempt_count = outbox[a].attempt_count + 1
        /\ worker[w].phase = "locked" /\ ~Attempting(w)
        /\ worker'[w].phase = "refreshing"
    BY <1>4, <2>0, ClaimCommitEffect DEF ClaimCommit, Attempting
  <2>2. /\ worker'[w].claimed_at = worker[w].claimed_at
        /\ outbox'[a].lease_expires_at = worker[w].claimed_at + LeaseSeconds
    BY <1>4, <2>0, ClaimCommitEffect
  <2>3. clock < worker[w].claimed_at + LeaseSeconds => HeldInTime(a)'
    BY <1>4, <2>0, <2>1, <2>2, ClaimCommitEffect DEF HeldInTime, Attempting, OwnsClaim
  <2>4. \A v \in Workers \ {w} : worker[v].phase = "locked" => worker[v].alert \in Alerts \ {a}
    BY <2>0, <2>1, <1>a DEF OutboxInv, LockInv
  <2>5. /\ outbox[a].attempt_count < MaxAttempts + faults
        /\ \/ clock < worker[w].claimed_at + LeaseSeconds
           \/ outbox[a].attempt_count + 1 < MaxAttempts + faults
    BY <2>0, <2>1 DEF BudgetInv
  <2>6. outbox'[a].status = "delivering"
    BY <1>4, <2>0, ClaimCommitEffect
  <2>7. \A b \in Alerts :
          /\ outbox'[b].status \in {"absent", "pending"} => outbox'[b].attempt_count < MaxAttempts
          /\ outbox'[b].status = "delivering" =>
                HeldInTime(b)' \/ outbox'[b].attempt_count < MaxAttempts + faults
          /\ outbox'[b].attempt_count <= MaxAttempts + faults
    <3>1. \A b \in Alerts \ {a} : outbox'[b] = outbox[b] /\ (HeldInTime(b) => HeldInTime(b)')
      BY <2>0, <2>1, HeldFrame
    <3>2. /\ outbox'[a].attempt_count <= MaxAttempts + faults
          /\ HeldInTime(a)' \/ outbox'[a].attempt_count < MaxAttempts + faults
      BY <2>0, <2>1, <2>3, <2>5, <1>t
    <3>3. QED
      BY <2>6, <3>1, <3>2 DEF BudgetInv
  <2>8. QED
    BY <2>0, <2>1, <2>4, <2>7 DEF BudgetInv
<1>r. ASSUME NEW w \in Workers, ClaimRefresh(w) PROVE BudgetInv'
  <2>1. /\ UNCHANGED <<clock, outbox, faults>>
        /\ \A v \in Workers \ {w} : worker'[v] = worker[v]
        /\ worker[w].phase = "refreshing" /\ worker'[w].phase = "posting"
        /\ worker'[w].alert = worker[w].alert
        /\ worker'[w].claim_token = worker[w].claim_token
        /\ worker'[w].claimed_at = worker[w].claimed_at
    BY <1>r, ClaimRefreshEffect
  <2>2. \A b \in Alerts : HeldInTime(b) => HeldInTime(b)'
    BY <2>1 DEF HeldInTime, Attempting, OwnsClaim
  <2>3. QED
    BY <2>1, <2>2 DEF BudgetInv
<1>5. ASSUME NEW w \in Workers, NEW o \in Outcomes, Deliver(w, o) PROVE BudgetInv'
  <2>1. /\ UNCHANGED <<clock, outbox, faults>>
        /\ \A v \in Workers \ {w} : worker'[v] = worker[v]
        /\ worker[w].phase = "posting" /\ worker'[w].phase = "answered"
        /\ worker'[w].alert = worker[w].alert
        /\ worker'[w].claim_token = worker[w].claim_token
        /\ worker'[w].claimed_at = worker[w].claimed_at
    BY <1>5, <1>t DEF Deliver
  <2>2. \A b \in Alerts : HeldInTime(b) => HeldInTime(b)'
    BY <2>1 DEF HeldInTime, Attempting, OwnsClaim
  <2>3. QED
    BY <2>1, <2>2 DEF BudgetInv
<1>6. ASSUME NEW w \in Workers, MarkDelivered(w) \/ MarkFailed(w) PROVE BudgetInv'
  <2> DEFINE a == worker[w].alert
  <2>1. UNCHANGED faults
    BY <1>6 DEF MarkDelivered, MarkFailed
  <2>2. outbox'[a].status = "pending" => outbox[a].attempt_count < MaxAttempts
    <3>1. ASSUME outbox'[a].status = "pending"
          PROVE  worker[w].attempt_count < MaxAttempts
      <4>1. MarkFailed(w) /\ ~Terminal(w)
        BY <1>6, <3>1, MarkEffect
      <4>2. worker[w].attempt_count \in Nat
        BY <1>t DEF WorkerState
      <4>3. QED
        BY <4>1, <4>2, <1>t DEF Terminal
    <3>2. worker[w].attempt_count = outbox[a].attempt_count
      BY <1>6, MarkEffect DEF OutboxInv, RecordInv
    <3>3. QED
      BY <3>1, <3>2
  <2>3. \A v \in Workers \ {w} : worker[v].phase = "locked" => worker[v].alert \in Alerts \ {a}
    BY <1>6, <1>a, MarkEffect DEF Locked
  <2>4. \A b \in Alerts \ {a} : HeldInTime(b) => HeldInTime(b)'
    BY <1>6, MarkEffect, HeldFrame
  <2>5. \A b \in Alerts :
          /\ outbox'[b].status \in {"absent", "pending"} => outbox'[b].attempt_count < MaxAttempts
          /\ outbox'[b].status = "delivering" =>
                HeldInTime(b)' \/ outbox'[b].attempt_count < MaxAttempts + faults
          /\ outbox'[b].attempt_count <= MaxAttempts + faults
    BY <1>6, <2>2, <2>4, MarkEffect DEF BudgetInv
  <2>6. QED
    BY <1>6, <2>1, <2>3, <2>5, MarkEffect DEF BudgetInv, Ready
<1>7. ASSUME NEW w \in Workers, LeaseLost(w) PROVE BudgetInv'
  <2>1. /\ UNCHANGED <<clock, outbox, faults>> /\ ~OwnsClaim(w)
        /\ \A v \in Workers \ {w} : worker'[v] = worker[v]
        /\ worker'[w].phase = "ready"
    BY <1>7, <1>t DEF LeaseLost, Ready, OutboxInv, RecordInv
  <2>2. QED
    BY <2>1, HeldFrame DEF BudgetInv
<1>8. ASSUME NEW w \in Workers, Die(w) PROVE BudgetInv'
  <2>1. /\ UNCHANGED <<clock, outbox>> /\ faults' = faults + 1
        /\ \A v \in Workers \ {w} : worker'[v] = worker[v]
        /\ worker'[w].phase = "ready"
    BY <1>8, <1>t DEF Die, Ready
  <2>2. QED
    BY <2>1, <1>t, <1>a DEF BudgetInv
<1>9. CASE Tick
  <2>1. UNCHANGED <<outbox, worker>> /\ clock' = clock + 1
    BY <1>9 DEF Tick
  <2>2. CASE faults' = faults + 1
    BY <2>1, <2>2, <1>t, <1>a DEF BudgetInv
  <2>3. CASE (\A w \in Workers : ~Overruns(w)) /\ UNCHANGED faults
    <3>0. \A w \in Workers : (Attempting(w) /\ OwnsClaim(w)) =>
             /\ outbox[worker[w].alert].lease_expires_at = worker[w].claimed_at + LeaseSeconds
             /\ worker[w].claimed_at + LeaseSeconds # clock + 1
      <4>1. \A w \in Workers : Attempting(w) => worker[w].claimed_at + LeaseSeconds # clock + 1
        BY <2>3 DEF Overruns, Attempting
      <4>2. QED
        BY <4>1 DEF OutboxInv, TokenInv
    <3>1. ASSUME NEW b \in Alerts, HeldInTime(b) PROVE HeldInTime(b)'
      <4>1. PICK w \in Workers : /\ Attempting(w) /\ worker[w].alert = b /\ OwnsClaim(w)
                                 /\ clock < outbox[b].lease_expires_at
        BY <3>1 DEF HeldInTime
      <4>2. clock' < outbox[b].lease_expires_at
        BY <2>1, <3>0, <4>1, <1>t
      <4>3. QED
        BY <2>1, <4>1, <4>2 DEF HeldInTime, Attempting, OwnsClaim
    <3>2. \A w \in Workers :
             (worker[w].phase = "locked" /\ clock < worker[w].claimed_at + LeaseSeconds)
             => clock' < worker[w].claimed_at + LeaseSeconds
      BY <2>1, <2>3, <1>t DEF Overruns
    <3>3. QED
      BY <2>1, <2>3, <3>1, <3>2 DEF BudgetInv
  <2>4. QED
    BY <1>9, <2>2, <2>3 DEF Tick
<1>10. CASE UNCHANGED vars
  BY <1>10 DEF vars, BudgetInv, HeldInTime, Attempting, OwnsClaim
<1>11. QED
  BY <1>1, <1>2, <1>3, <1>4, <1>r, <1>5, <1>6, <1>7, <1>8, <1>9, <1>10
  DEF Next, Evaluate, Claim, Post, Record

(* Every attempt beyond agent_alert_max_attempts answers for a death or    *)
(* for a lease that its worker outlived.                                   *)
THEOREM AttemptsAnswerForFaults == Spec => []AttemptsBoundedByFaults
<1>1. Init => BudgetInv
  BY SettingsAssumption DEF Init, BudgetInv, NoRow, Ready
<1>2. BudgetInv => AttemptsBoundedByFaults
  BY DEF BudgetInv, AttemptsBoundedByFaults
<1>3. QED
  BY <1>1, <1>2, BudgetStep, OutboxInvariance, PTL DEF Spec
=============================================================================
