----------------------- MODULE AlertSchedulerProofs -----------------------
(***************************************************************************)
(* Theorems about AlertScheduler for any number of processes, requests and *)
(* hours and any settings: the scheduler implements the outbox, so that it *)
(* inherits what AlertOutboxProofs shows of it, and its own invariants.    *)
(***************************************************************************)
EXTENDS AlertScheduler, FiniteSetTheorems, TLAPS

(* The theorems about the outbox, for the faults the composition allows.   *)
Store == INSTANCE AlertOutboxProofs WITH MaxFaults <- MaxFaults + MaxBreaks

(* The constants of the composition satisfy the assumptions of the outbox. *)
LEMMA StoreAssumptions ==
    /\ NoAlert \notin Alerts
    /\ Outcomes \subseteq Store!AllOutcomes
    /\ MaxAttempts \in Nat \ {0}
    /\ LeaseSeconds \in Nat \ {0}
    /\ BaseDelay \in Nat
    /\ MaxDelay \in Nat \ {0}
    /\ BaseDelay <= MaxDelay
    /\ MaxFaults + MaxBreaks \in Nat
  BY SettingsAssumption, NoAlertAssumption, OutcomesAssumption, BoundsAssumption
  DEF AllOutcomes, Store!AllOutcomes

(* A statement of a worker is the same statement of the instance: only the *)
(* guards on faults differ.                                                *)
LEMMA SameStatements ==
    ASSUME NEW w
    PROVE  /\ \A a : EnqueueCheck(w, a) <=> Store!EnqueueCheck(w, a)
           /\ EnqueueInsert(w) <=> Store!EnqueueInsert(w)
           /\ \A a : ClaimSelect(w, a) <=> Store!ClaimSelect(w, a)
           /\ ClaimCommit(w) <=> Store!ClaimCommit(w)
           /\ ClaimRefresh(w) <=> Store!ClaimRefresh(w)
           /\ \A o : Deliver(w, o) <=> Store!Deliver(w, o)
           /\ MarkDelivered(w) <=> Store!MarkDelivered(w)
           /\ MarkFailed(w) <=> Store!MarkFailed(w)
           /\ LeaseLost(w) <=> Store!LeaseLost(w)
<1>1. \A a : EnqueueCheck(w, a) <=> Store!EnqueueCheck(w, a)
  BY DEF EnqueueCheck, Store!EnqueueCheck
<1>2. EnqueueInsert(w) <=> Store!EnqueueInsert(w)
  BY DEF EnqueueInsert, Store!EnqueueInsert, Insert, Store!Insert, Ready, Store!Ready
<1>3. \A a : ClaimSelect(w, a) <=> Store!ClaimSelect(w, a)
  BY DEF ClaimSelect, Store!ClaimSelect, Claimable, Store!Claimable, Due, Store!Due,
         Locked, Store!Locked
<1>4. ClaimCommit(w) <=> Store!ClaimCommit(w)
  BY DEF ClaimCommit, Store!ClaimCommit
<1>r. ClaimRefresh(w) <=> Store!ClaimRefresh(w)
  BY DEF ClaimRefresh, Store!ClaimRefresh, OwnsClaim, Store!OwnsClaim, LeaseOver,
         Store!LeaseOver
<1>5. \A o : Deliver(w, o) <=> Store!Deliver(w, o)
  BY DEF Deliver, Store!Deliver, MayHaveActed, Store!MayHaveActed, Retryable,
         Store!Retryable
<1>6. MarkDelivered(w) <=> Store!MarkDelivered(w)
  BY DEF MarkDelivered, Store!MarkDelivered, IsError, Store!IsError, HoldsLease,
         Store!HoldsLease, Locked, Store!Locked, Ready, Store!Ready
<1>7. MarkFailed(w) <=> Store!MarkFailed(w)
  BY DEF MarkFailed, Store!MarkFailed, IsError, Store!IsError, HoldsLease,
         Store!HoldsLease, Locked, Store!Locked, Terminal, Store!Terminal,
         Retryable, Store!Retryable, RetryDelay, Store!RetryDelay, Ready, Store!Ready
<1>8. LeaseLost(w) <=> Store!LeaseLost(w)
  BY DEF LeaseLost, Store!LeaseLost, HoldsLease, Store!HoldsLease, Ready, Store!Ready
<1>9. QED
  BY <1>1, <1>2, <1>3, <1>4, <1>r, <1>5, <1>6, <1>7, <1>8

(* The instance the refinement is stated with and the one the theorems     *)
(* come from are the same specification.                                   *)
LEMMA SameSpec == Outbox!Spec <=> Store!Spec
<1>1. Outbox!Init <=> Store!Init
  BY DEF Outbox!Init, Store!Init, Outbox!Ready, Store!Ready, Outbox!NoRow, Store!NoRow
<1>2. [Outbox!Next]_(Outbox!vars) <=> [Store!Next]_(Store!vars)
  BY DEF Outbox!Next, Store!Next, Outbox!vars, Store!vars,
     Outbox!Tick, Store!Tick, Outbox!Deadline, Store!Deadline, Outbox!Overruns,
     Store!Overruns, Outbox!Evaluate, Store!Evaluate, Outbox!Claim, Store!Claim,
     Outbox!Post, Store!Post, Outbox!Record, Store!Record, Outbox!Die, Store!Die,
     Outbox!EnqueueCheck, Store!EnqueueCheck,
     Outbox!EnqueueInsert, Store!EnqueueInsert, Outbox!Insert, Store!Insert,
     Outbox!ClaimSelect, Store!ClaimSelect, Outbox!Claimable, Store!Claimable,
     Outbox!Due, Store!Due, Outbox!Locked, Store!Locked,
     Outbox!ClaimCommit, Store!ClaimCommit, Outbox!ClaimRefresh, Store!ClaimRefresh,
     Outbox!OwnsClaim, Store!OwnsClaim, Outbox!LeaseOver, Store!LeaseOver,
     Outbox!Deliver, Store!Deliver,
     Outbox!MayHaveActed, Store!MayHaveActed, Outbox!Retryable, Store!Retryable,
     Outbox!MarkDelivered, Store!MarkDelivered, Outbox!IsError, Store!IsError,
     Outbox!HoldsLease, Store!HoldsLease, Outbox!MarkFailed, Store!MarkFailed,
     Outbox!Terminal, Store!Terminal, Outbox!RetryDelay, Store!RetryDelay,
     Outbox!LeaseLost, Store!LeaseLost, Outbox!Ready, Store!Ready
<1>3. QED
  BY <1>1, <1>2, PTL DEF Outbox!Spec, Store!Spec

(* What the invariant of the outbox says of the types it works on.         *)
LEMMA StoreTypes ==
    Store!OutboxInv =>
        /\ clock \in Nat /\ tokens \in Nat /\ faults \in Nat
        /\ outbox \in [Alerts -> Row]
        /\ worker \in [Workers -> WorkerState]
        /\ processed \subseteq Alerts
        /\ \A w \in Workers : worker[w].phase # "ready" => worker[w].alert \in Alerts
        /\ \A w \in Workers : worker[w].phase = "answered" => worker[w].outcome \in Outcomes
  BY StoreAssumptions
  DEF Store!OutboxInv, Store!TypeOK, Store!AnswerInv, Store!Row, Row,
      Store!WorkerState, WorkerState

(* A process or a request is a worker of the outbox, and never both.       *)
LEMMA WhoWorks ==
    /\ \A p \in Processes : p \in Workers /\ p \notin Requests
    /\ \A q \in Requests : q \in Workers /\ q \notin Processes
    /\ \A w \in Workers : w \in Processes \/ w \in Requests
  BY WorkersAssumption

(* The cardinality of what is still to be cancelled is a number.           *)
LEMMA BreakTypes ==
    SchedulerInv =>
        /\ breaks \in Nat /\ breaks <= MaxBreaks /\ MaxBreaks \in Nat /\ MaxFaults \in Nat
        /\ IsFiniteSet(ToBeCancelled)
        /\ Cardinality(ToBeCancelled) \in Nat
        /\ Cardinality(ToBeCancelled) <= breaks
        /\ faults + Cardinality(ToBeCancelled) <= MaxFaults + breaks
<1>1. SchedulerInv => IsFiniteSet(ToBeCancelled)
  BY DEF SchedulerInv, BreakInv
<1>2. SchedulerInv => Cardinality(ToBeCancelled) \in Nat
  BY <1>1, FS_CardinalityType
<1>3. QED
  BY <1>1, <1>2, SettingsAssumption, BoundsAssumption
  DEF SchedulerInv, BreakInv, SchedulerTypeOK

(* An interruption is the death of a worker of the outbox, as long as the  *)
(* outbox allows one more.                                                 *)
LEMMA InterruptedDies ==
    ASSUME NEW w \in Workers, Interrupted(w), faults < MaxFaults + MaxBreaks
    PROVE  Store!Next \/ UNCHANGED vars
<1>1. CASE worker[w].phase = "ready"
  BY <1>1 DEF Interrupted
<1>2. CASE worker[w].phase # "ready"
  <2>1. Store!Die(w)
    BY <1>2 DEF Interrupted, Store!Die, Ready, Store!Ready
  <2>2. QED
    BY <2>1 DEF Store!Next
<1>3. QED
  BY <1>1, <1>2

(* There is room for the faults of a break that is not yet spent, and for  *)
(* the one of a cancellation.                                              *)
LEMMA RoomForFaults ==
    ASSUME Store!OutboxInv, SchedulerInv
    PROVE  /\ breaks < MaxBreaks => faults < MaxFaults + MaxBreaks
           /\ \A p \in Processes : app[p] = "stopping" /\ Working(p)
                  => faults < MaxFaults + MaxBreaks
<1>1. faults \in Nat
  BY StoreTypes
<1>2. breaks < MaxBreaks => faults < MaxFaults + MaxBreaks
  BY <1>1, BreakTypes
<1>3. ASSUME NEW p \in Processes, app[p] = "stopping", Working(p)
      PROVE  faults < MaxFaults + MaxBreaks
  <2>1. p \in ToBeCancelled
    BY <1>3 DEF ToBeCancelled
  <2>2. Cardinality(ToBeCancelled) # 0
    BY <2>1, BreakTypes, FS_EmptySet
  <2>3. QED
    BY <1>1, <2>2, BreakTypes
<1>4. QED
  BY <1>2, <1>3

(* Every step of the scheduler is a step of the outbox or invisible to it. *)
LEMMA StoreStep ==
    ASSUME Store!OutboxInv, SchedulerInv, [ComposedNext]_allVars
    PROVE  [Store!Next]_(Store!vars)
<1> SUFFICES Store!Next \/ UNCHANGED vars
  BY DEF vars, Store!vars
<1> USE WhoWorks
<1>1. ASSUME TimePasses PROVE Store!Next
  <2>1. Tick
    BY <1>1 DEF TimePasses
  <2>2. Store!Tick
    BY <2>1, SettingsAssumption, BoundsAssumption, StoreTypes
    DEF Tick, Store!Tick, Deadline, Store!Deadline, Overruns, Store!Overruns
  <2>3. QED
    BY <2>2 DEF Store!Next
<1>2. ASSUME NEW p \in Processes, Cancelled(p) PROVE Store!Next \/ UNCHANGED vars
  BY <1>2, InterruptedDies, RoomForFaults DEF Cancelled
<1>3. ASSUME NEW p \in Processes, Crash(p) PROVE Store!Next \/ UNCHANGED vars
  BY <1>3, InterruptedDies, RoomForFaults DEF Crash
<1>4. ASSUME NEW w \in Workers, Breaks(w) PROVE Store!Next \/ UNCHANGED vars
  BY <1>4, InterruptedDies, RoomForFaults DEF Breaks
<1>5. ASSUME NEW w \in Workers, QueueCheck(w) PROVE Store!Next
  <2>1. metrics[w].hour \in Alerts
    BY <1>5 DEF QueueCheck, SchedulerInv, SnapshotInv
  <2>2. Store!EnqueueCheck(w, metrics[w].hour)
    BY <1>5, SameStatements DEF QueueCheck
  <2>3. QED
    BY <2>1, <2>2 DEF Store!Next, Store!Evaluate
<1>6. ASSUME NEW w \in Workers, QueueInsert(w) PROVE Store!Next
  BY <1>6, SameStatements DEF QueueInsert, Store!Next, Store!Evaluate
<1>7. ASSUME NEW w \in Workers, DrainClaim(w) PROVE Store!Next
  BY <1>7, SameStatements DEF DrainClaim, Claim, Store!Next, Store!Claim
<1>8. ASSUME NEW w \in Workers, DrainPost(w) PROVE Store!Next
  BY <1>8, SameStatements DEF DrainPost, Post, Store!Next, Store!Post
<1>9. ASSUME NEW w \in Workers, DrainRecord(w) PROVE Store!Next
  BY <1>9, SameStatements DEF DrainRecord, Store!Next, Store!Record
<1>10. ASSUME NEW w \in Workers, DrainAckLost(w) PROVE Store!Next
  BY <1>10, SameStatements DEF DrainAckLost, Store!Next, Store!Record
<1>11. ASSUME NEW w \in Workers, DrainLeaseLost(w) PROVE Store!Next
  BY <1>11, SameStatements DEF DrainLeaseLost, Store!Next, Store!Record
<1>12. ASSUME NEW w \in Workers,
              \/ SnapshotTotals(w) \/ SnapshotStages(w) \/ SnapshotKinds(w)
              \/ QueueFound(w) \/ CycleReturns(w)
       PROVE  UNCHANGED vars
  BY <1>12 DEF SnapshotTotals, SnapshotStages, SnapshotKinds, QueueFound, CycleReturns
<1>13. ASSUME NEW p \in Processes, Startup(p) \/ Stop(p) \/ CloseClient(p) \/ Closed(p)
       PROVE  UNCHANGED vars
  BY <1>13 DEF Startup, Stop, CloseClient, Closed
<1>14. ASSUME NEW q \in Requests, Evaluates(q) \/ Drains(q) PROVE UNCHANGED vars
  BY <1>14 DEF Evaluates, Drains
<1>15. ASSUME RunFails \/ NextHour PROVE UNCHANGED vars
  BY <1>15 DEF RunFails, NextHour
<1>16. ASSUME UNCHANGED allVars PROVE UNCHANGED vars
  BY <1>16 DEF allVars
<1>17. QED
  BY <1>1, <1>2, <1>3, <1>4, <1>5, <1>6, <1>7, <1>8, <1>9, <1>10, <1>11, <1>12,
     <1>13, <1>14, <1>15, <1>16 DEF ComposedNext, Cycle, Shutdown

(* The invariant of the outbox survives a step of the outbox.              *)
LEMMA StoreInvStep ==
    Store!OutboxInv /\ [Store!Next]_(Store!vars) => Store!OutboxInv'
  BY StoreAssumptions, Store!TypeStep, Store!LockStep, Store!TokenStep, Store!RecordStep,
     Store!AnswerStep, Store!FailedStep DEF Store!OutboxInv

-----------------------------------------------------------------------------
(* Counts are records of numbers, whatever is counted or added up.         *)
LEMMA CountFields ==
    /\ DOMAIN Zero = {"queued", "delivered", "retry_scheduled", "failed"}
    /\ Zero \in Counts
    /\ \A f \in DOMAIN Zero : Zero[f] = 0
    /\ \A c \in Counts : DOMAIN c = DOMAIN Zero /\ \A f \in DOMAIN Zero : c[f] \in Nat
<1>1. DOMAIN Zero = {"queued", "delivered", "retry_scheduled", "failed"}
  BY DEF Zero
<1>2. Zero \in Counts
  BY DEF Zero, Counts
<1>3. \A f \in DOMAIN Zero : Zero[f] = 0
  BY DEF Zero
<1>4. ASSUME NEW c \in Counts
      PROVE  DOMAIN c = DOMAIN Zero /\ \A f \in DOMAIN Zero : c[f] \in Nat
  BY <1>1 DEF Counts
<1>5. QED
  BY <1>1, <1>2, <1>3, <1>4

LEMMA CountUp ==
    ASSUME NEW c \in Counts, NEW field \in DOMAIN Zero
    PROVE  /\ [c EXCEPT ![field] = @ + 1] \in Counts
           /\ \A f \in DOMAIN Zero :
                 [c EXCEPT ![field] = @ + 1][f] = IF f = field THEN c[f] + 1 ELSE c[f]
<1>1. CASE field = "queued"
  BY <1>1, CountFields DEF Counts
<1>2. CASE field = "delivered"
  BY <1>2, CountFields DEF Counts
<1>3. CASE field = "retry_scheduled"
  BY <1>3, CountFields DEF Counts
<1>4. CASE field = "failed"
  BY <1>4, CountFields DEF Counts
<1>5. QED
  BY <1>1, <1>2, <1>3, <1>4, CountFields

LEMMA AddUp ==
    ASSUME NEW c \in Counts, NEW d \in Counts
    PROVE  /\ Add(c, d) \in Counts
           /\ \A f \in DOMAIN Zero : Add(c, d)[f] = c[f] + d[f]
<1>1. \A f \in DOMAIN Zero : Add(c, d)[f] = c[f] + d[f]
  BY CountFields DEF Add
<1>2. Add(c, d) \in Counts
  BY CountFields DEF Add, Counts
<1>3. QED
  BY <1>1, <1>2

LEMMA SameCounts ==
    ASSUME NEW c \in Counts, NEW d \in Counts, \A f \in DOMAIN Zero : c[f] = d[f]
    PROVE  c = d
  BY CountFields DEF Counts

-----------------------------------------------------------------------------
(* The types: what each part of an action leaves behind.                   *)
Figures == [hour : Nat, errors : Nat, stages : Nat, kinds : Nat]

LEMMA RestartType ==
    ASSUME SchedulerTypeOK, NEW w \in Workers, NEW phase \in Phases, Restart(w, phase)
    PROVE  /\ loop' \in [Workers -> Phases]
           /\ metrics' \in [Workers -> Figures]
           /\ tally' \in [Workers -> Counts]
<1>1. NoMetrics \in Figures
  BY DEF NoMetrics, Figures
<1>2. QED
  BY <1>1, CountFields DEF SchedulerTypeOK, Restart, Figures

LEMMA RaisesType ==
    ASSUME SchedulerTypeOK, NEW w \in Workers, Raises(w)
    PROVE  /\ loop' \in [Workers -> Phases]
           /\ metrics' \in [Workers -> Figures]
           /\ tally' \in [Workers -> Counts]
           /\ status' \in [Processes -> [count : Counts, cycles_failed : Nat]]
           /\ client' \in [Workers -> {"open", "closed"}]
<1>1. (IF w \in Requests THEN "failed" ELSE "due") \in Phases
  BY DEF Phases
<1>2. \A p \in Processes :
          [status[p] EXCEPT !.cycles_failed = IF p = w THEN @ + 1 ELSE @]
              \in [count : Counts, cycles_failed : Nat]
  <2> SUFFICES ASSUME NEW p \in Processes
               PROVE  [status[p] EXCEPT !.cycles_failed = IF p = w THEN @ + 1 ELSE @]
                          \in [count : Counts, cycles_failed : Nat]
    OBVIOUS
  <2>1. status[p] \in [count : Counts, cycles_failed : Nat]
    BY DEF SchedulerTypeOK
  <2>2. CASE p = w
    BY <2>1, <2>2
  <2>3. CASE p # w
    BY <2>1, <2>3
  <2>4. QED
    BY <2>2, <2>3
<1>3. status' \in [Processes -> [count : Counts, cycles_failed : Nat]]
  BY <1>2 DEF Raises
<1>4. client' \in [Workers -> {"open", "closed"}]
  BY DEF Raises, SchedulerTypeOK
<1>5. QED
  BY <1>1, <1>3, <1>4, RestartType DEF Raises

LEMMA NotedType ==
    ASSUME SchedulerTypeOK, NEW w, NEW field \in DOMAIN Zero, Noted(w, field)
    PROVE  made' \in [Processes -> Counts]
<1>1. \A p \in Processes :
          [made[p] EXCEPT ![field] = IF p = w THEN @ + 1 ELSE @] \in Counts
  <2> SUFFICES ASSUME NEW p \in Processes
               PROVE  [made[p] EXCEPT ![field] = IF p = w THEN @ + 1 ELSE @] \in Counts
    OBVIOUS
  <2>1. made[p] \in Counts
    BY DEF SchedulerTypeOK
  <2>2. CASE p = w
    BY <2>1, <2>2, CountUp
  <2>3. CASE p # w
    BY <2>1, <2>3 DEF Counts
  <2>4. QED
    BY <2>2, <2>3
<1>2. QED
  BY <1>1 DEF Noted

LEMMA TallyType ==
    ASSUME SchedulerTypeOK, NEW w \in Workers, NEW field \in DOMAIN Zero, Counted(w, field)
    PROVE  tally' \in [Workers -> Counts]
<1>1. [tally[w] EXCEPT ![field] = @ + 1] \in Counts
  BY CountUp DEF SchedulerTypeOK
<1>2. QED
  BY <1>1 DEF SchedulerTypeOK, Counted

LEMMA OutcomeCounts == \A w : Outcome(w) \in DOMAIN Zero
  BY CountFields DEF Outcome

LEMMA AfterQueueingType ==
    ASSUME SchedulerTypeOK, NEW w \in Workers, AfterQueueing(w)
    PROVE  loop' \in [Workers -> Phases] /\ metrics' \in [Workers -> Figures]
<1>1. NoMetrics \in Figures
  BY DEF NoMetrics, Figures
<1>2. CASE w \in Requests
  BY <1>2 DEF AfterQueueing, Goto, SchedulerTypeOK, Phases, Figures
<1>3. CASE w \notin Requests
  <2>1. loop' = [loop EXCEPT ![w] = "draining"]
    BY <1>3 DEF AfterQueueing, Goto
  <2>2. metrics' = [metrics EXCEPT ![w] = NoMetrics]
    BY <1>3 DEF AfterQueueing
  <2>3. QED
    BY <1>1, <2>1, <2>2 DEF SchedulerTypeOK, Phases, Figures
<1>4. QED
  BY <1>2, <1>3

(* The events of a window are finitely many, and more events are no fewer. *)
LEMMA EventsCounted ==
    ASSUME NEW E \in Seq(Alerts), NEW h
    PROVE  /\ IsFiniteSet({i \in DOMAIN E : E[i] + WindowHours > h})
           /\ Cardinality({i \in DOMAIN E : E[i] + WindowHours > h}) \in Nat
<1>1. DOMAIN E = 1..Len(E) /\ Len(E) \in Nat
  OBVIOUS
<1>2. IsFiniteSet(1..Len(E))
  BY <1>1, FS_Interval
<1>3. IsFiniteSet({i \in DOMAIN E : E[i] + WindowHours > h})
  BY <1>1, <1>2, FS_Subset
<1>4. QED
  BY <1>3, FS_CardinalityType

LEMMA ErrorsSinceType == SchedulerTypeOK => \A h : ErrorsSince(h) \in Nat
  BY EventsCounted DEF SchedulerTypeOK, ErrorsSince

LEMMA HoursAreNumbers == \A h \in Alerts : h \in Nat
  BY HoursAssumption

(* A figure may be replaced by a number.                                   *)
LEMMA FiguresType ==
    ASSUME NEW m \in Figures, NEW n \in Nat, NEW k \in Nat
    PROVE  /\ [m EXCEPT !.hour = k, !.errors = n] \in Figures
           /\ [m EXCEPT !.stages = n] \in Figures
           /\ [m EXCEPT !.kinds = n] \in Figures
  BY DEF Figures

(* Every step keeps the types.                                             *)
LEMMA SchedulerTypeStep ==
    ASSUME SchedulerTypeOK, [ComposedNext]_allVars
    PROVE  SchedulerTypeOK'
<1>t. /\ hour \in Alerts
      /\ events \in Seq(Alerts)
      /\ app \in [Processes -> {"down", "serving", "stopping"}]
      /\ loop \in [Workers -> Phases]
      /\ metrics \in [Workers -> Figures]
      /\ tally \in [Workers -> Counts]
      /\ status \in [Processes -> [count : Counts, cycles_failed : Nat]]
      /\ client \in [Workers -> {"open", "closed"}]
      /\ made \in [Processes -> Counts]
      /\ breaks \in 0..MaxBreaks /\ MaxBreaks \in Nat
  BY BoundsAssumption DEF SchedulerTypeOK, Figures
<1>f. \A h : ErrorsSince(h) \in Nat
  BY ErrorsSinceType
<1>s. SUFFICES
      /\ hour' \in Alerts
      /\ events' \in Seq(Alerts)
      /\ app' \in [Processes -> {"down", "serving", "stopping"}]
      /\ loop' \in [Workers -> Phases]
      /\ metrics' \in [Workers -> Figures]
      /\ tally' \in [Workers -> Counts]
      /\ status' \in [Processes -> [count : Counts, cycles_failed : Nat]]
      /\ client' \in [Workers -> {"open", "closed"}]
      /\ made' \in [Processes -> Counts]
      /\ breaks' \in 0..MaxBreaks
  BY DEF SchedulerTypeOK, Figures
<1> DEFINE Typed ==
      /\ hour' \in Alerts
      /\ events' \in Seq(Alerts)
      /\ app' \in [Processes -> {"down", "serving", "stopping"}]
      /\ loop' \in [Workers -> Phases]
      /\ metrics' \in [Workers -> Figures]
      /\ tally' \in [Workers -> Counts]
      /\ status' \in [Processes -> [count : Counts, cycles_failed : Nat]]
      /\ client' \in [Workers -> {"open", "closed"}]
      /\ made' \in [Processes -> Counts]
      /\ breaks' \in 0..MaxBreaks
<1> USE WhoWorks
<1>1. ASSUME RunFails PROVE Typed
  BY <1>1, <1>t DEF RunFails
<1>2. ASSUME NextHour PROVE Typed
  BY <1>2, <1>t DEF NextHour
<1>3. ASSUME TimePasses \/ UNCHANGED allVars PROVE Typed
  BY <1>3, <1>t DEF TimePasses, allVars, schedulerVars
<1>4. ASSUME NEW p \in Processes, Startup(p) PROVE Typed
  <2>1. NewScheduler \in [count : Counts, cycles_failed : Nat]
    BY CountFields DEF NewScheduler
  <2>2. "due" \in Phases
    BY DEF Phases
  <2>3. loop' \in [Workers -> Phases] /\ metrics' \in [Workers -> Figures]
        /\ tally' \in [Workers -> Counts]
    BY <1>4, <2>2, RestartType DEF Startup
  <2>4. QED
    BY <1>4, <1>t, <2>1, <2>3, CountFields DEF Startup
<1>5. ASSUME NEW p \in Processes, Stop(p) PROVE Typed
  BY <1>5, <1>t DEF Stop
<1>6. ASSUME NEW p \in Processes, Cancelled(p) PROVE Typed
  <2>1. "cancelled" \in Phases
    BY DEF Phases
  <2>2. loop' \in [Workers -> Phases] /\ metrics' \in [Workers -> Figures]
        /\ tally' \in [Workers -> Counts]
    BY <1>6, <2>1, RestartType DEF Cancelled
  <2>3. QED
    BY <1>6, <1>t, <2>2 DEF Cancelled
<1>7. ASSUME NEW p \in Processes, CloseClient(p) PROVE Typed
  BY <1>7, <1>t DEF CloseClient
<1>8. ASSUME NEW p \in Processes, Closed(p) PROVE Typed
  BY <1>8, <1>t DEF Closed, Goto, Phases
<1>9. ASSUME NEW p \in Processes, Crash(p) PROVE Typed
  <2>1. "off" \in Phases
    BY DEF Phases
  <2>2. loop' \in [Workers -> Phases] /\ metrics' \in [Workers -> Figures]
        /\ tally' \in [Workers -> Counts]
    BY <1>9, <2>1, RestartType DEF Crash
  <2>3. QED
    BY <1>9, <1>t, <2>2 DEF Crash
<1>10. ASSUME NEW q \in Requests, Evaluates(q) PROVE Typed
  BY <1>10, <1>t DEF Evaluates, Goto, Phases
<1>11. ASSUME NEW q \in Requests, Drains(q) PROVE Typed
  BY <1>11, <1>t DEF Drains, Goto, Phases
<1>12. ASSUME NEW w \in Workers, SnapshotTotals(w) PROVE Typed
  <2>1. [metrics[w] EXCEPT !.hour = hour, !.errors = ErrorsSince(hour)] \in Figures
    BY <1>t, <1>f, HoursAreNumbers, FiguresType
  <2>2. metrics' \in [Workers -> Figures]
    BY <1>12, <1>t, <2>1 DEF SnapshotTotals
  <2>3. QED
    BY <1>12, <1>t, <2>2 DEF SnapshotTotals, Goto, Phases
<1>13. ASSUME NEW w \in Workers, SnapshotStages(w) PROVE Typed
  <2>1. [metrics[w] EXCEPT !.stages = ErrorsSince(metrics[w].hour)] \in Figures
    BY <1>t, <1>f, FiguresType
  <2>2. metrics' \in [Workers -> Figures]
    BY <1>13, <1>t, <2>1 DEF SnapshotStages
  <2>3. QED
    BY <1>13, <1>t, <2>2 DEF SnapshotStages, Goto, Phases
<1>14. ASSUME NEW w \in Workers, SnapshotKinds(w) PROVE Typed
  <2>1. [metrics[w] EXCEPT !.kinds = ErrorsSince(metrics[w].hour)] \in Figures
    BY <1>t, <1>f, FiguresType
  <2>2. metrics' \in [Workers -> Figures]
    BY <1>14, <1>t, <2>1 DEF SnapshotKinds
  <2>3. loop' \in [Workers -> Phases]
    BY <1>14, <1>t DEF SnapshotKinds, Goto, Phases
  <2>4. QED
    BY <1>14, <1>t, <2>2, <2>3 DEF SnapshotKinds
<1>15. ASSUME NEW w \in Workers, QueueFound(w) PROVE Typed
  BY <1>15, <1>t, AfterQueueingType DEF QueueFound
<1>16. ASSUME NEW w \in Workers, QueueCheck(w) \/ DrainClaim(w) \/ DrainPost(w) PROVE Typed
  BY <1>16, <1>t DEF QueueCheck, DrainClaim, DrainPost, schedulerVars
<1>17. ASSUME NEW w \in Workers, QueueInsert(w) PROVE Typed
  <2>1. CASE Counted(w, "queued")
    BY <1>17, <2>1, <1>t, AfterQueueingType, TallyType, NotedType, CountFields
    DEF QueueInsert, Counted
  <2>2. CASE UNCHANGED <<tally, made>>
    BY <1>17, <2>2, <1>t, AfterQueueingType DEF QueueInsert
  <2>3. QED
    BY <1>17, <2>1, <2>2 DEF QueueInsert
<1>18. ASSUME NEW w \in Workers, DrainRecord(w) PROVE Typed
  <2>1. Counted(w, Outcome(w)) /\ UNCHANGED <<hour, events, app, loop, metrics, status, client, breaks>>
    BY <1>18 DEF DrainRecord
  <2>2. QED
    BY <2>1, <1>t, TallyType, NotedType, OutcomeCounts DEF Counted
<1>19. ASSUME NEW w \in Workers, DrainLeaseLost(w) PROVE Typed
  BY <1>19, <1>t, RaisesType DEF DrainLeaseLost
<1>20. ASSUME NEW w \in Workers, DrainAckLost(w) PROVE Typed
  <2>1. /\ Noted(w, Outcome(w)) /\ Raises(w) /\ UNCHANGED <<hour, events, app>>
        /\ breaks < MaxBreaks /\ breaks' = breaks + 1
    BY <1>20 DEF DrainAckLost
  <2>2. QED
    BY <2>1, <1>t, RaisesType, NotedType, OutcomeCounts
<1>21. ASSUME NEW w \in Workers, Breaks(w) PROVE Typed
  BY <1>21, <1>t, RaisesType DEF Breaks
<1>22. ASSUME NEW w \in Workers, CycleReturns(w) PROVE Typed
  <2>1. CASE w \in Requests
    <3>1. Restart(w, "answered") /\ "answered" \in Phases
      BY <1>22, <2>1 DEF CycleReturns, Phases
    <3>2. QED
      BY <1>22, <2>1, <3>1, <1>t, RestartType DEF CycleReturns
  <2>2. CASE w \notin Requests
    <3>1. Restart(w, "due") /\ "due" \in Phases
      BY <1>22, <2>2 DEF CycleReturns, Phases
    <3>2. w \in Processes
      BY <2>2
    <3>3. Add(status[w].count, tally[w]) \in Counts
      BY <3>2, <1>t, AddUp
    <3>4. status' \in [Processes -> [count : Counts, cycles_failed : Nat]]
      <4>1. status' = [status EXCEPT ![w].count = Add(status[w].count, tally[w])]
        BY <1>22, <2>2 DEF CycleReturns
      <4>2. [status[w] EXCEPT !.count = Add(status[w].count, tally[w])]
                \in [count : Counts, cycles_failed : Nat]
        BY <3>2, <3>3, <1>t
      <4>3. QED
        BY <4>1, <4>2, <1>t
    <3>5. QED
      BY <1>22, <2>2, <3>1, <3>4, <1>t, RestartType DEF CycleReturns
  <2>3. QED
    BY <2>1, <2>2
<1>23. QED
  BY <1>1, <1>2, <1>3, <1>4, <1>5, <1>6, <1>7, <1>8, <1>9, <1>10, <1>11, <1>12, <1>13,
     <1>14, <1>15, <1>16, <1>17, <1>18, <1>19, <1>20, <1>21, <1>22
  DEF ComposedNext, Cycle, Shutdown

-----------------------------------------------------------------------------
(* What a statement does to the worker that runs it, and to no other.      *)
LEMMA StatementEffect ==
    ASSUME Store!OutboxInv, NEW w \in Workers
    PROVE  /\ \A a : EnqueueCheck(w, a) =>
                  /\ worker'[w].phase = "inserting"
                  /\ \A v \in Workers \ {w} : worker'[v] = worker[v]
           /\ EnqueueInsert(w) \/ MarkDelivered(w) \/ MarkFailed(w) \/ LeaseLost(w)
                 \/ Interrupted(w) =>
                  /\ worker'[w].phase = "ready"
                  /\ \A v \in Workers \ {w} : worker'[v] = worker[v]
           /\ Claim(w) =>
                  /\ worker'[w].phase \in {"locked", "refreshing", "posting"}
                  /\ \A v \in Workers \ {w} : worker'[v] = worker[v]
           /\ Post(w) =>
                  /\ worker'[w].phase = "answered"
                  /\ \A v \in Workers \ {w} : worker'[v] = worker[v]
<1>t. worker \in [Workers -> WorkerState]
  BY StoreTypes
<1>1. ASSUME NEW a, EnqueueCheck(w, a)
      PROVE  /\ worker'[w].phase = "inserting"
             /\ \A v \in Workers \ {w} : worker'[v] = worker[v]
  BY <1>1, <1>t DEF EnqueueCheck, WorkerState
<1>2. ASSUME \/ EnqueueInsert(w) \/ MarkDelivered(w) \/ MarkFailed(w) \/ LeaseLost(w)
             \/ Interrupted(w)
      PROVE  /\ worker'[w].phase = "ready"
             /\ \A v \in Workers \ {w} : worker'[v] = worker[v]
  <2>1. worker' = [worker EXCEPT ![w] = Ready] \/ (worker[w].phase = "ready" /\ worker' = worker)
    BY <1>2 DEF EnqueueInsert, MarkDelivered, MarkFailed, LeaseLost, Interrupted, vars
  <2>2. QED
    BY <2>1, <1>t DEF Ready
<1>3. ASSUME Claim(w)
      PROVE  /\ worker'[w].phase \in {"locked", "refreshing", "posting"}
             /\ \A v \in Workers \ {w} : worker'[v] = worker[v]
  <2>1. ASSUME NEW a \in Alerts, ClaimSelect(w, a)
        PROVE  /\ worker'[w].phase = "locked"
               /\ \A v \in Workers \ {w} : worker'[v] = worker[v]
    BY <2>1, <1>t DEF ClaimSelect, WorkerState
  <2>2. ASSUME ClaimCommit(w)
        PROVE  /\ worker'[w].phase = "refreshing"
               /\ \A v \in Workers \ {w} : worker'[v] = worker[v]
    BY <2>2, <1>t DEF ClaimCommit, WorkerState
  <2>r. ASSUME ClaimRefresh(w)
        PROVE  /\ worker'[w].phase = "posting"
               /\ \A v \in Workers \ {w} : worker'[v] = worker[v]
    BY <2>r, <1>t DEF ClaimRefresh, WorkerState
  <2>3. QED
    BY <1>3, <2>1, <2>2, <2>r DEF Claim
<1>4. ASSUME Post(w)
      PROVE  /\ worker'[w].phase = "answered"
             /\ \A v \in Workers \ {w} : worker'[v] = worker[v]
  BY <1>4, <1>t DEF Post, Deliver, WorkerState
<1>5. QED
  BY <1>1, <1>2, <1>3, <1>4

(* The part of TaskInv that concerns one worker.                           *)
TaskOf(w) ==
    /\ w \in Processes =>
        /\ app[w] = "down" => loop[w] = "off"
        /\ app[w] = "serving" => loop[w] \in Busy
        /\ app[w] = "stopping" => loop[w] \in Busy \cup {"cancelled"}
        /\ loop[w] \in Busy => client[w] = "open"
    /\ w \in Requests => (loop[w] = "draining" => client[w] = "open")
    /\ worker[w].phase = "inserting" => loop[w] = "queueing"
    /\ Attempting(w) \/ worker[w].phase = "locked" => loop[w] = "draining"

LEMMA TasksApart == TaskInv <=> \A w \in Workers : TaskOf(w)
  BY WhoWorks DEF TaskInv, TaskOf, Attempting

LEMMA TasksApartNext == TaskInv' <=> \A w \in Workers : TaskOf(w)'
  BY WhoWorks DEF TaskInv, TaskOf, Attempting

(* A step that leaves the other workers alone keeps their part.            *)
LEMMA TaskFrame ==
    ASSUME TaskInv, NEW w \in Workers, TaskOf(w)',
           \A v \in Workers \ {w} : /\ worker'[v] = worker[v]
                                    /\ loop'[v] = loop[v]
                                    /\ client'[v] = client[v],
           \A p \in Processes \ {w} : app'[p] = app[p]
    PROVE  TaskInv'
<1>1. ASSUME NEW v \in Workers, v # w PROVE TaskOf(v)'
  <2>1. TaskOf(v)
    BY TasksApart
  <2>2. QED
    BY <1>1, <2>1 DEF TaskOf, Attempting
<1>2. QED
  BY <1>1, TasksApartNext

(* Every step keeps tasks, workers and clients in agreement.               *)
LEMMA TaskStep ==
    ASSUME Store!OutboxInv, SchedulerTypeOK, TaskInv, [ComposedNext]_allVars
    PROVE  TaskInv'
<1>t. /\ app \in [Processes -> {"down", "serving", "stopping"}]
      /\ loop \in [Workers -> Phases]
      /\ client \in [Workers -> {"open", "closed"}]
      /\ worker \in [Workers -> WorkerState]
  BY StoreTypes DEF SchedulerTypeOK
<1>o. \A w \in Workers : TaskOf(w)
  BY TasksApart
<1>p. \A w \in Workers : worker[w].phase \in {"ready", "inserting", "locked", "refreshing",
                                               "posting", "answered"}
  BY <1>t DEF WorkerState
<1> USE WhoWorks
<1>1. ASSUME RunFails \/ NextHour \/ TimePasses \/ UNCHANGED allVars PROVE TaskInv'
  BY <1>1 DEF RunFails, NextHour, TimePasses, Tick, allVars, schedulerVars, vars, TaskInv, Attempting
<1>2. ASSUME NEW p \in Processes, Startup(p) PROVE TaskInv'
  <2>1. TaskOf(p)'
    BY <1>2, <1>t, <1>o, <1>p DEF Startup, Restart, TaskOf, Attempting, Busy, vars
  <2>2. QED
    BY <1>2, <2>1, <1>t, TaskFrame DEF Startup, Restart, vars
<1>3. ASSUME NEW p \in Processes, Stop(p) PROVE TaskInv'
  <2>1. TaskOf(p)'
    BY <1>3, <1>t, <1>o DEF Stop, TaskOf, Attempting, Busy, vars
  <2>2. QED
    BY <1>3, <2>1, <1>t, TaskFrame DEF Stop, vars
<1>4. ASSUME NEW p \in Processes, Cancelled(p) PROVE TaskInv'
  <2>1. TaskOf(p)'
    BY <1>4, <1>t, <1>o, StatementEffect DEF Cancelled, Restart, TaskOf, Attempting, Busy
  <2>2. QED
    BY <1>4, <2>1, <1>t, TaskFrame, StatementEffect DEF Cancelled, Restart
<1>5. ASSUME NEW p \in Processes, CloseClient(p) PROVE TaskInv'
  <2>1. TaskOf(p)'
    BY <1>5, <1>t, <1>o DEF CloseClient, Working, TaskOf, Attempting, Busy, vars
  <2>2. QED
    BY <1>5, <2>1, <1>t, TaskFrame DEF CloseClient, vars
<1>6. ASSUME NEW p \in Processes, Closed(p) PROVE TaskInv'
  <2>1. TaskOf(p)'
    BY <1>6, <1>t, <1>o, <1>p DEF Closed, Working, Goto, TaskOf, Attempting, Busy, vars
  <2>2. QED
    BY <1>6, <2>1, <1>t, TaskFrame DEF Closed, Goto, vars
<1>7. ASSUME NEW p \in Processes, Crash(p) PROVE TaskInv'
  <2>1. TaskOf(p)'
    BY <1>7, <1>t, <1>o, StatementEffect DEF Crash, Restart, TaskOf, Attempting, Busy
  <2>2. QED
    BY <1>7, <2>1, <1>t, TaskFrame, StatementEffect DEF Crash, Restart
<1>8. ASSUME NEW q \in Requests, Evaluates(q) PROVE TaskInv'
  <2>1. TaskOf(q)'
    BY <1>8, <1>t, <1>o DEF Evaluates, Goto, TaskOf, Attempting, vars
  <2>2. QED
    BY <1>8, <2>1, <1>t, TaskFrame DEF Evaluates, Goto, vars
<1>9. ASSUME NEW q \in Requests, Drains(q) PROVE TaskInv'
  <2>1. TaskOf(q)'
    BY <1>9, <1>t, <1>o DEF Drains, Goto, TaskOf, Attempting, vars
  <2>2. QED
    BY <1>9, <2>1, <1>t, TaskFrame DEF Drains, Goto, vars
<1>10. ASSUME NEW w \in Workers, SnapshotTotals(w) \/ SnapshotStages(w) PROVE TaskInv'
  <2>1. TaskOf(w)'
    BY <1>10, <1>t, <1>o DEF SnapshotTotals, SnapshotStages, Runs, Goto, TaskOf, Attempting, Busy, vars
  <2>2. QED
    BY <1>10, <2>1, <1>t, TaskFrame DEF SnapshotTotals, SnapshotStages, Goto, vars
<1>11. ASSUME NEW w \in Workers, SnapshotKinds(w) PROVE TaskInv'
  <2>1. TaskOf(w)'
    BY <1>11, <1>t, <1>o, <1>p DEF SnapshotKinds, Runs, Goto, TaskOf, Attempting, Busy, vars
  <2>2. QED
    BY <1>11, <2>1, <1>t, TaskFrame DEF SnapshotKinds, Goto, vars
<1>12. ASSUME NEW w \in Workers, QueueFound(w) PROVE TaskInv'
  <2>1. TaskOf(w)'
    BY <1>12, <1>t, <1>o DEF QueueFound, AfterQueueing, Runs, Goto, TaskOf, Attempting, Busy, vars
  <2>2. QED
    BY <1>12, <2>1, <1>t, TaskFrame DEF QueueFound, AfterQueueing, Goto, vars
<1>13. ASSUME NEW w \in Workers, QueueCheck(w) PROVE TaskInv'
  <2>1. TaskOf(w)'
    BY <1>13, <1>t, <1>o, StatementEffect DEF QueueCheck, schedulerVars, TaskOf, Attempting
  <2>2. QED
    BY <1>13, <2>1, <1>t, TaskFrame, StatementEffect DEF QueueCheck, schedulerVars
<1>14. ASSUME NEW w \in Workers, QueueInsert(w) PROVE TaskInv'
  <2>1. TaskOf(w)'
    BY <1>14, <1>t, <1>o, StatementEffect
    DEF QueueInsert, AfterQueueing, Runs, Goto, TaskOf, Attempting, Busy
  <2>2. QED
    BY <1>14, <2>1, <1>t, TaskFrame, StatementEffect DEF QueueInsert, AfterQueueing, Goto
<1>15. ASSUME NEW w \in Workers, DrainClaim(w) \/ DrainPost(w) PROVE TaskInv'
  <2>1. TaskOf(w)'
    BY <1>15, <1>t, <1>o, StatementEffect
    DEF DrainClaim, DrainPost, Draining, schedulerVars, TaskOf, Attempting
  <2>2. QED
    BY <1>15, <2>1, <1>t, TaskFrame, StatementEffect DEF DrainClaim, DrainPost, schedulerVars
<1>16. ASSUME NEW w \in Workers, DrainRecord(w) PROVE TaskInv'
  <2>1. TaskOf(w)'
    BY <1>16, <1>t, <1>o, StatementEffect DEF DrainRecord, Draining, TaskOf, Attempting
  <2>2. QED
    BY <1>16, <2>1, <1>t, TaskFrame, StatementEffect DEF DrainRecord
<1>17. ASSUME NEW w \in Workers, DrainLeaseLost(w) \/ DrainAckLost(w) \/ Breaks(w)
       PROVE  TaskInv'
  <2>1. /\ Runs(w) /\ loop[w] \in Busy /\ Raises(w) /\ UNCHANGED app
        /\ worker'[w].phase = "ready"
        /\ \A v \in Workers \ {w} : worker'[v] = worker[v]
    BY <1>17, StatementEffect
    DEF DrainLeaseLost, DrainAckLost, Breaks, Draining, Busy
  <2>2. TaskOf(w)'
    BY <2>1, <1>t, <1>o DEF Raises, Restart, Runs, TaskOf, Attempting, Busy
  <2>3. QED
    BY <2>1, <2>2, <1>t, TaskFrame DEF Raises, Restart
<1>18. ASSUME NEW w \in Workers, CycleReturns(w) PROVE TaskInv'
  <2>1. TaskOf(w)'
    BY <1>18, <1>t, <1>o DEF CycleReturns, Draining, Restart, Runs, TaskOf, Attempting, Busy, vars
  <2>2. QED
    BY <1>18, <2>1, <1>t, TaskFrame DEF CycleReturns, Restart, vars
<1>19. QED
  BY <1>1, <1>2, <1>3, <1>4, <1>5, <1>6, <1>7, <1>8, <1>9, <1>10, <1>11, <1>12, <1>13,
     <1>14, <1>15, <1>16, <1>17, <1>18
  DEF ComposedNext, Cycle, Shutdown

-----------------------------------------------------------------------------
(* The counters of one process: what CountInv and StatusAgreesWithTable    *)
(* say of it, count by count.                                              *)
CountOf(p) ==
    /\ loop[p] # "draining" => tally[p] = Zero
    /\ \A f \in DOMAIN Zero : status[p].count[f] + tally[p][f] <= made[p][f]
    /\ app[p] = "serving" /\ status[p].cycles_failed = 0 =>
          \A f \in DOMAIN Zero : status[p].count[f] + tally[p][f] = made[p][f]

LEMMA CountersOf ==
    ASSUME SchedulerTypeOK, NEW p \in Processes
    PROVE  /\ status[p].count \in Counts /\ tally[p] \in Counts /\ made[p] \in Counts
           /\ status[p].cycles_failed \in Nat
           /\ status[p] \in [count : Counts, cycles_failed : Nat]
  BY WhoWorks DEF SchedulerTypeOK

LEMMA CountsApart ==
    ASSUME SchedulerTypeOK, CountInv, StatusAgreesWithTable, NEW p \in Processes
    PROVE  CountOf(p)
<1>1. /\ loop[p] # "draining" => tally[p] = Zero
      /\ \A f \in DOMAIN Zero : status[p].count[f] + tally[p][f] <= made[p][f]
  BY DEF CountInv
<1>2. ASSUME app[p] = "serving", status[p].cycles_failed = 0
      PROVE  \A f \in DOMAIN Zero : status[p].count[f] + tally[p][f] = made[p][f]
  <2>1. Add(status[p].count, tally[p]) = made[p]
    BY <1>2 DEF StatusAgreesWithTable, Snapshot
  <2>2. QED
    BY <2>1, CountersOf, AddUp
<1>3. QED
  BY <1>1, <1>2 DEF CountOf

LEMMA CountsTogether ==
    ASSUME SchedulerTypeOK', TaskInv', \A p \in Processes : CountOf(p)'
    PROVE  CountInv' /\ StatusAgreesWithTable'
<1>1. CountInv'
  BY DEF CountOf, CountInv
<1>2. ASSUME NEW p \in Processes, app'[p] = "serving"
      PROVE  /\ Working(p)'
             /\ \A f \in DOMAIN Zero : Add(status'[p].count, tally'[p])[f] <= made'[p][f]
             /\ status'[p].cycles_failed = 0 => Add(status'[p].count, tally'[p]) = made'[p]
  <2>t. status'[p].count \in Counts /\ tally'[p] \in Counts /\ made'[p] \in Counts
    BY WhoWorks DEF SchedulerTypeOK
  <2>1. Working(p)'
    BY <1>2 DEF TaskInv, Working, Busy
  <2>2. \A f \in DOMAIN Zero :
            Add(status'[p].count, tally'[p])[f] = status'[p].count[f] + tally'[p][f]
    BY <2>t, AddUp
  <2>3. \A f \in DOMAIN Zero : Add(status'[p].count, tally'[p])[f] <= made'[p][f]
    BY <2>2 DEF CountOf
  <2>4. ASSUME status'[p].cycles_failed = 0
        PROVE  Add(status'[p].count, tally'[p]) = made'[p]
    <3>1. \A f \in DOMAIN Zero : Add(status'[p].count, tally'[p])[f] = made'[p][f]
      BY <1>2, <2>2, <2>4 DEF CountOf
    <3>2. QED
      BY <3>1, <2>t, AddUp, SameCounts
  <2>5. QED
    BY <2>1, <2>3, <2>4
<1>3. StatusAgreesWithTable'
  BY <1>2 DEF StatusAgreesWithTable, Snapshot
<1>4. QED
  BY <1>1, <1>3

(* A process whose counters stay, while its cycle counts on or is not      *)
(* draining, keeps its part.                                               *)
LEMMA CountFrame ==
    ASSUME NEW p \in Processes, CountOf(p), tally'[p] = tally[p], made'[p] = made[p],
           status'[p] = status[p], app'[p] = "serving" => app[p] = "serving",
           loop'[p] # "draining" => loop[p] # "draining"
    PROVE  CountOf(p)'
  BY DEF CountOf

(* A cycle that is given up takes its counts with it, and what was shown   *)
(* so far stays below the table; it is either noted as failed or its       *)
(* process no longer serves.                                               *)
LEMMA CountGivenUp ==
    ASSUME SchedulerTypeOK, NEW p \in Processes, CountOf(p), tally'[p] = Zero,
           made'[p] \in Counts, \A f \in DOMAIN Zero : made[p][f] <= made'[p][f],
           status'[p].count = status[p].count,
           app'[p] = "serving" => status'[p].cycles_failed # 0
    PROVE  CountOf(p)'
<1>1. ASSUME NEW f \in DOMAIN Zero
      PROVE  status'[p].count[f] + tally'[p][f] <= made'[p][f]
  <2>1. /\ status[p].count[f] \in Nat /\ tally[p][f] \in Nat /\ made[p][f] \in Nat
        /\ made'[p][f] \in Nat /\ Zero[f] = 0
    BY CountersOf, CountFields
  <2>2. /\ status[p].count[f] + tally[p][f] <= made[p][f]
        /\ made[p][f] <= made'[p][f]
    BY DEF CountOf
  <2>3. QED
    BY <2>1, <2>2
<1>2. QED
  BY <1>1 DEF CountOf

(* What noting a row, or an exception, does to the history and the status. *)
LEMMA NotedEffect ==
    ASSUME SchedulerTypeOK, NEW w, NEW field \in DOMAIN Zero, Noted(w, field),
           NEW p \in Processes
    PROVE  /\ p # w => made'[p] = made[p]
           /\ \A f \in DOMAIN Zero : made'[p][f] =
                 IF p = w /\ f = field THEN made[p][f] + 1 ELSE made[p][f]
           /\ made'[p] \in Counts
<1>t. made[p] \in Counts
  BY CountersOf
<1>1. CASE p = w
  <2>1. made'[p] = [made[p] EXCEPT ![field] = @ + 1]
    BY <1>1 DEF Noted
  <2>2. QED
    BY <1>1, <1>t, <2>1, CountUp
<1>2. CASE p # w
  <2>1. made'[p] = made[p]
    BY <1>2, <1>t DEF Noted, Counts
  <2>2. QED
    BY <1>2, <1>t, <2>1
<1>3. QED
  BY <1>1, <1>2

LEMMA RaisesEffect ==
    ASSUME SchedulerTypeOK, NEW w \in Workers, Raises(w), NEW p \in Processes
    PROVE  /\ status'[p].count = status[p].count
           /\ p = w => status'[p].cycles_failed # 0 /\ tally'[p] = Zero
           /\ p # w => /\ status'[p] = status[p] /\ tally'[p] = tally[p]
                       /\ loop'[p] = loop[p]
<1>t. /\ status[p] \in [count : Counts, cycles_failed : Nat]
      /\ loop \in [Workers -> Phases] /\ tally \in [Workers -> Counts]
  BY CountersOf DEF SchedulerTypeOK
<1>1. CASE p = w
  <2>1. status'[p] = [status[p] EXCEPT !.cycles_failed = @ + 1]
    BY <1>1 DEF Raises
  <2>2. QED
    BY <1>1, <1>t, <2>1 DEF Raises, Restart
<1>2. CASE p # w
  <2>1. status'[p] = status[p]
    BY <1>2, <1>t DEF Raises
  <2>2. QED
    BY <1>2, <1>t, <2>1, WhoWorks DEF Raises, Restart
<1>3. QED
  BY <1>1, <1>2

(* An alert that is counted as it is noted keeps both sums together.       *)
LEMMA CountedEffect ==
    ASSUME SchedulerTypeOK, NEW w \in Workers, NEW field \in DOMAIN Zero,
           Counted(w, field), NEW p \in Processes, CountOf(p),
           status'[p] = status[p], app'[p] = app[p],
           p = w => loop'[p] = "draining",
           p # w => loop'[p] = loop[p]
    PROVE  CountOf(p)'
<1>t. /\ tally \in [Workers -> Counts] /\ tally[p] \in Counts /\ made[p] \in Counts
      /\ status[p].count \in Counts
  BY CountersOf DEF SchedulerTypeOK
<1>1. CASE p = w
  <2>1. tally'[p] = [tally[p] EXCEPT ![field] = @ + 1]
    BY <1>1, <1>t DEF Counted
  <2>2. ASSUME NEW f \in DOMAIN Zero
        PROVE  /\ tally'[p][f] = tally[p][f] + (IF f = field THEN 1 ELSE 0)
               /\ made'[p][f] = made[p][f] + (IF f = field THEN 1 ELSE 0)
               /\ tally[p][f] \in Int /\ made[p][f] \in Int
               /\ status[p].count[f] \in Int /\ status'[p].count[f] = status[p].count[f]
    BY <1>1, <1>t, <2>1, CountUp, NotedEffect, CountFields DEF Counted
  <2>3. \A f \in DOMAIN Zero :
            /\ status[p].count[f] + tally[p][f] <= made[p][f] =>
                  status'[p].count[f] + tally'[p][f] <= made'[p][f]
            /\ status[p].count[f] + tally[p][f] = made[p][f] =>
                  status'[p].count[f] + tally'[p][f] = made'[p][f]
    <3> SUFFICES ASSUME NEW f \in DOMAIN Zero
                 PROVE  /\ status[p].count[f] + tally[p][f] <= made[p][f] =>
                              status'[p].count[f] + tally'[p][f] <= made'[p][f]
                        /\ status[p].count[f] + tally[p][f] = made[p][f] =>
                              status'[p].count[f] + tally'[p][f] = made'[p][f]
      OBVIOUS
    <3> QED
      BY <2>2
  <2>4. QED
    BY <1>1, <2>3 DEF CountOf
<1>2. CASE p # w
  <2>1. tally'[p] = tally[p] /\ made'[p] = made[p]
    BY <1>2, <1>t, NotedEffect, WhoWorks DEF Counted
  <2>2. QED
    BY <1>2, <2>1, CountFrame
<1>3. QED
  BY <1>1, <1>2

(* Every step keeps the counters within the table, and exact where no      *)
(* cycle failed.                                                           *)
LEMMA CountStep ==
    ASSUME SchedulerTypeOK, TaskInv, [ComposedNext]_allVars,
           NEW p \in Processes, CountOf(p)
    PROVE  CountOf(p)'
<1>t. /\ loop \in [Workers -> Phases] /\ tally \in [Workers -> Counts]
      /\ app \in [Processes -> {"down", "serving", "stopping"}]
      /\ made \in [Processes -> Counts] /\ made[p] \in Counts
      /\ status \in [Processes -> [count : Counts, cycles_failed : Nat]]
      /\ status[p].count \in Counts /\ tally[p] \in Counts
  BY CountersOf DEF SchedulerTypeOK
<1> USE WhoWorks
<1>m. \A f \in DOMAIN Zero : made[p][f] <= made[p][f]
  BY <1>t, CountFields
<1>1. ASSUME \/ RunFails \/ NextHour \/ TimePasses \/ UNCHANGED allVars
             \/ \E q \in Requests : Evaluates(q) \/ Drains(q)
             \/ \E r \in Processes : Stop(r) \/ CloseClient(r) \/ Closed(r)
      PROVE  CountOf(p)'
  <2>1. /\ tally' = tally /\ made' = made /\ status' = status
        /\ app'[p] = "serving" => app[p] = "serving"
        /\ loop'[p] # "draining" => loop[p] # "draining"
    BY <1>1, <1>t
    DEF RunFails, NextHour, TimePasses, allVars, schedulerVars, Evaluates, Drains, Stop,
        CloseClient, Closed, Goto, Working
  <2>2. QED
    BY <2>1, CountFrame
<1>2. ASSUME NEW r \in Processes, Startup(r) PROVE CountOf(p)'
  <2>1. CASE p = r
    <3>1. /\ tally'[p] = Zero /\ made'[p] = Zero /\ status'[p].count = Zero
      BY <1>2, <1>t, <2>1 DEF Startup, Restart, NewScheduler
    <3>2. QED
      BY <3>1, CountFields DEF CountOf
  <2>2. CASE p # r
    BY <1>2, <1>t, <2>2, CountFrame DEF Startup, Restart
  <2>3. QED
    BY <2>1, <2>2
<1>3. ASSUME NEW r \in Processes, Cancelled(r) \/ Crash(r) PROVE CountOf(p)'
  <2>1. CASE p = r
    <3>1. tally'[p] = Zero /\ made' = made /\ status' = status /\ app'[p] # "serving"
      BY <1>3, <1>t, <2>1 DEF Cancelled, Crash, Restart
    <3>2. QED
      BY <3>1, <1>t, <1>m, CountGivenUp
  <2>2. CASE p # r
    BY <1>3, <1>t, <2>2, CountFrame DEF Cancelled, Crash, Restart
  <2>3. QED
    BY <2>1, <2>2
<1>4. ASSUME NEW w \in Workers,
             \/ SnapshotTotals(w) \/ SnapshotStages(w) \/ SnapshotKinds(w)
             \/ QueueFound(w) \/ QueueCheck(w) \/ DrainClaim(w) \/ DrainPost(w)
      PROVE  CountOf(p)'
  <2>1. /\ tally' = tally /\ made' = made /\ status' = status /\ app' = app
        /\ loop'[p] # "draining" => loop[p] # "draining"
    BY <1>4, <1>t
    DEF SnapshotTotals, SnapshotStages, SnapshotKinds, QueueFound, QueueCheck, DrainClaim,
        DrainPost, schedulerVars, AfterQueueing, Goto
  <2>2. QED
    BY <2>1, CountFrame
<1>5. ASSUME NEW w \in Workers, QueueInsert(w) PROVE CountOf(p)'
  <2>1. /\ app' = app /\ status' = status
        /\ p # w => loop'[p] = loop[p]
        /\ p = w => loop'[p] = "draining" /\ loop[p] # "draining"
    BY <1>5, <1>t DEF QueueInsert, AfterQueueing, Goto
  <2>2. CASE Counted(w, "queued")
    BY <2>1, <2>2, CountedEffect, CountFields
  <2>3. CASE UNCHANGED <<tally, made>>
    BY <2>1, <2>3, CountFrame
  <2>4. QED
    BY <1>5, <2>2, <2>3 DEF QueueInsert
<1>6. ASSUME NEW w \in Workers, DrainRecord(w) PROVE CountOf(p)'
  BY <1>6, CountedEffect, OutcomeCounts DEF DrainRecord, Draining
<1>7. ASSUME NEW w \in Workers, DrainLeaseLost(w) \/ Breaks(w) PROVE CountOf(p)'
  <2>1. Raises(w) /\ made' = made /\ app' = app
    BY <1>7 DEF DrainLeaseLost, Breaks
  <2>2. CASE p = w
    BY <2>1, <2>2, <1>t, <1>m, RaisesEffect, CountGivenUp
  <2>3. CASE p # w
    BY <2>1, <2>3, RaisesEffect, CountFrame
  <2>4. QED
    BY <2>2, <2>3
<1>8. ASSUME NEW w \in Workers, DrainAckLost(w) PROVE CountOf(p)'
  <2>1. Raises(w) /\ Noted(w, Outcome(w)) /\ app' = app
    BY <1>8 DEF DrainAckLost
  <2>2. CASE p = w
    <3>1. made'[p] \in Counts /\ \A f \in DOMAIN Zero : made[p][f] <= made'[p][f]
      BY <2>1, <1>t, NotedEffect, OutcomeCounts, CountFields
    <3>2. QED
      BY <2>1, <2>2, <3>1, RaisesEffect, CountGivenUp
  <2>3. CASE p # w
    BY <2>1, <2>3, RaisesEffect, NotedEffect, OutcomeCounts, CountFrame
  <2>4. QED
    BY <2>2, <2>3
<1>9. ASSUME NEW w \in Workers, CycleReturns(w) PROVE CountOf(p)'
  <2>1. CASE p = w
    <3>1. /\ status'[p].count = Add(status[p].count, tally[p]) /\ tally'[p] = Zero
          /\ status'[p].cycles_failed = status[p].cycles_failed
          /\ made' = made /\ app' = app
      BY <1>9, <1>t, <2>1 DEF CycleReturns, Restart
    <3>2. \A f \in DOMAIN Zero :
              /\ status'[p].count[f] + tally'[p][f] = status[p].count[f] + tally[p][f]
      BY <3>1, <1>t, AddUp, CountFields
    <3>3. QED
      BY <3>1, <3>2 DEF CountOf
  <2>2. CASE p # w
    BY <1>9, <1>t, <2>2, CountFrame DEF CycleReturns, Restart
  <2>3. QED
    BY <2>1, <2>2
<1>10. QED
  BY <1>1, <1>2, <1>3, <1>4, <1>5, <1>6, <1>7, <1>8, <1>9
  DEF ComposedNext, Cycle, Shutdown

-----------------------------------------------------------------------------
(* The snapshot of one worker: what SnapshotInv and BreakdownsCoverTotal   *)
(* say of it.                                                              *)
SnapshotOf(w) ==
    /\ loop[w] \in {"stages", "kinds", "queueing"} => metrics[w].hour \in Alerts
    /\ loop[w] = "stages" => metrics[w].errors <= ErrorsSince(metrics[w].hour)
    /\ loop[w] = "kinds" => /\ metrics[w].errors <= metrics[w].stages
                            /\ metrics[w].stages <= ErrorsSince(metrics[w].hour)
    /\ loop[w] \in {"queueing", "answered"} /\ metrics[w].hour # 0 =>
          metrics[w].errors <= metrics[w].stages /\ metrics[w].stages <= metrics[w].kinds

LEMMA SnapshotsApart ==
    SnapshotInv /\ BreakdownsCoverTotal <=> \A w \in Workers : SnapshotOf(w)
  BY DEF SnapshotInv, BreakdownsCoverTotal, SnapshotOf

LEMMA SnapshotsTogether ==
    (\A w \in Workers : SnapshotOf(w)') => SnapshotInv' /\ BreakdownsCoverTotal'
  BY DEF SnapshotInv, BreakdownsCoverTotal, SnapshotOf

(* No event that counts is ever taken out of a window.                     *)
LEMMA EventsGrow ==
    ASSUME SchedulerTypeOK, [ComposedNext]_allVars
    PROVE  \A h : ErrorsSince(h) <= ErrorsSince(h)'
<1>e. events \in Seq(Alerts) /\ hour \in Alerts
  BY DEF SchedulerTypeOK
<1>1. CASE UNCHANGED events
  <2>1. \A h : ErrorsSince(h)' = ErrorsSince(h) /\ ErrorsSince(h) \in Nat
    BY <1>1, <1>e, EventsCounted DEF ErrorsSince
  <2>2. QED
    BY <2>1
<1>2. CASE RunFails
  <2> SUFFICES ASSUME NEW h PROVE ErrorsSince(h) <= ErrorsSince(h)'
    OBVIOUS
  <2>1. events' = Append(events, hour) /\ events' \in Seq(Alerts)
    BY <1>2, <1>e DEF RunFails
  <2> DEFINE before == {i \in DOMAIN events : events[i] + WindowHours > h}
             after == {i \in DOMAIN events' : events'[i] + WindowHours > h}
  <2>2. before \subseteq after
    <3>1. /\ DOMAIN events = 1..Len(events) /\ DOMAIN events' = 1..(Len(events) + 1)
          /\ \A i \in DOMAIN events : events'[i] = events[i]
          /\ Len(events) \in Nat
      BY <1>e, <2>1
    <3>2. QED
      BY <3>1
  <2>3. IsFiniteSet(after)
    BY <2>1, EventsCounted
  <2>4. Cardinality(before) <= Cardinality(after)
    BY <2>2, <2>3, FS_Subset
  <2>5. QED
    BY <2>4 DEF ErrorsSince
<1>3. UNCHANGED events \/ RunFails
  BY DEF ComposedNext, NextHour, TimePasses, Startup, Stop, Shutdown, Cancelled,
     CloseClient, Closed, Crash, Evaluates, Drains, Cycle, SnapshotTotals, SnapshotStages,
     SnapshotKinds, QueueFound, QueueCheck, QueueInsert, DrainClaim, DrainPost,
     DrainRecord, DrainLeaseLost, CycleReturns, DrainAckLost, Breaks, allVars,
     schedulerVars
<1>4. QED
  BY <1>1, <1>2, <1>3

(* A snapshot that is left alone stays good, one that is forgotten is too. *)
LEMMA SnapshotFrame ==
    ASSUME SchedulerTypeOK, SchedulerTypeOK', [ComposedNext]_allVars, NEW w \in Workers,
           SnapshotOf(w), metrics'[w] = metrics[w], loop'[w] = loop[w]
    PROVE  SnapshotOf(w)'
<1>1. metrics[w] \in Figures
  BY DEF SchedulerTypeOK, Figures
<1>2. /\ metrics[w].errors \in Nat /\ metrics[w].stages \in Nat
      /\ \A h : ErrorsSince(h) \in Nat
      /\ \A h : ErrorsSince(h)' \in Nat
  BY <1>1, ErrorsSinceType, EventsCounted DEF Figures, SchedulerTypeOK, ErrorsSince
<1>3. \A h : ErrorsSince(h) <= ErrorsSince(h)'
  BY EventsGrow
<1>4. loop[w] = "stages" => metrics[w].errors <= ErrorsSince(metrics[w].hour)'
  BY <1>2, <1>3 DEF SnapshotOf
<1>5. loop[w] = "kinds" => metrics[w].stages <= ErrorsSince(metrics[w].hour)'
  BY <1>2, <1>3 DEF SnapshotOf
<1>6. QED
  BY <1>4, <1>5 DEF SnapshotOf, ErrorsSince

LEMMA SnapshotForgotten ==
    ASSUME NEW w \in Workers, metrics'[w] = NoMetrics \/ loop'[w] # "answered",
           loop'[w] \notin {"stages", "kinds", "queueing"}
    PROVE  SnapshotOf(w)'
  BY DEF SnapshotOf, NoMetrics

(* Every step of a snapshot keeps its statements in order.                 *)
LEMMA SnapshotStep ==
    ASSUME SchedulerTypeOK, [ComposedNext]_allVars, NEW w \in Workers, SnapshotOf(w)
    PROVE  SnapshotOf(w)'
<1>t. /\ loop \in [Workers -> Phases]
      /\ metrics \in [Workers -> Figures] /\ metrics[w] \in Figures
      /\ hour \in Alerts /\ \A h : ErrorsSince(h) \in Nat
  BY ErrorsSinceType DEF SchedulerTypeOK, Figures
<1>n. SchedulerTypeOK'
  BY SchedulerTypeStep
<1> USE WhoWorks
<1>1. CASE metrics'[w] = metrics[w] /\ loop'[w] = loop[w]
  BY <1>1, <1>n, SnapshotFrame
<1>2. ASSUME NEW v \in Workers, v # w, Cycle(v) \/ DrainAckLost(v) \/ Breaks(v)
      PROVE  metrics'[w] = metrics[w] /\ loop'[w] = loop[w]
  BY <1>2, <1>t
  DEF Cycle, SnapshotTotals, SnapshotStages, SnapshotKinds, QueueFound, QueueCheck,
      QueueInsert, DrainClaim, DrainPost, DrainRecord, DrainLeaseLost, CycleReturns,
      DrainAckLost, Breaks, Restart, Raises, Goto, AfterQueueing, schedulerVars
<1>3. ASSUME SnapshotTotals(w) PROVE SnapshotOf(w)'
  <2>1. /\ loop'[w] = "stages" /\ metrics'[w].hour = hour
        /\ metrics'[w].errors = ErrorsSince(hour)
    BY <1>3, <1>t DEF SnapshotTotals, Goto, Figures
  <2>2. ErrorsSince(metrics[w].hour)' = ErrorsSince(hour)
    BY <1>3, <2>1 DEF SnapshotTotals, ErrorsSince
  <2>3. QED
    BY <1>t, <2>1, <2>2 DEF SnapshotOf
<1>4. ASSUME SnapshotStages(w) PROVE SnapshotOf(w)'
  <2>1. /\ loop'[w] = "kinds" /\ metrics'[w].hour = metrics[w].hour
        /\ metrics'[w].errors = metrics[w].errors
        /\ metrics'[w].stages = ErrorsSince(metrics[w].hour)
    BY <1>4, <1>t DEF SnapshotStages, Goto, Figures
  <2>2. ErrorsSince(metrics[w].hour)' = ErrorsSince(metrics[w].hour)
    BY <1>4, <2>1 DEF SnapshotStages, ErrorsSince
  <2>3. QED
    BY <1>4, <1>t, <2>1, <2>2 DEF SnapshotOf, SnapshotStages
<1>5. ASSUME SnapshotKinds(w) PROVE SnapshotOf(w)'
  <2>1. /\ loop'[w] \in {"queueing", "answered", "draining"}
        /\ metrics'[w].hour = metrics[w].hour
        /\ metrics'[w].errors = metrics[w].errors
        /\ metrics'[w].stages = metrics[w].stages
        /\ metrics'[w].kinds = ErrorsSince(metrics[w].hour)
    BY <1>5, <1>t DEF SnapshotKinds, Goto, Figures
  <2>2. QED
    BY <1>5, <1>t, <2>1 DEF SnapshotOf, SnapshotKinds
<1>6. ASSUME QueueFound(w) \/ QueueInsert(w) PROVE SnapshotOf(w)'
  <2>1. AfterQueueing(w) /\ loop[w] = "queueing"
    BY <1>6 DEF QueueFound, QueueInsert
  <2>2. CASE w \in Requests
    <3>1. loop'[w] = "answered" /\ metrics' = metrics
      BY <2>1, <2>2, <1>t DEF AfterQueueing, Goto
    <3>2. QED
      BY <2>1, <3>1 DEF SnapshotOf
  <2>3. CASE w \notin Requests
    <3>1. loop'[w] = "draining"
      BY <2>1, <2>3, <1>t DEF AfterQueueing, Goto
    <3>2. QED
      BY <3>1, SnapshotForgotten
  <2>4. QED
    BY <2>2, <2>3
<1>7. ASSUME QueueCheck(w) \/ DrainClaim(w) \/ DrainPost(w) \/ DrainRecord(w)
      PROVE  SnapshotOf(w)'
  BY <1>7, <1>1 DEF QueueCheck, DrainClaim, DrainPost, DrainRecord, schedulerVars
<1>8. ASSUME \/ DrainLeaseLost(w) \/ DrainAckLost(w) \/ Breaks(w) \/ CycleReturns(w)
      PROVE  SnapshotOf(w)'
  <2>1. metrics'[w] = NoMetrics /\ loop'[w] \in {"failed", "due", "answered"}
    BY <1>8, <1>t DEF DrainLeaseLost, DrainAckLost, Breaks, CycleReturns, Raises, Restart
  <2>2. QED
    BY <2>1, SnapshotForgotten
<1>9. ASSUME NEW p \in Processes, Startup(p) \/ Stop(p) \/ Shutdown(p) \/ Crash(p)
      PROVE  SnapshotOf(w)'
  <2>1. CASE p = w
    <3>1. CASE Startup(p) \/ Cancelled(p) \/ Crash(p) \/ Closed(p)
      <4>1. loop'[w] \in {"due", "cancelled", "off"}
        BY <3>1, <1>t, <2>1 DEF Startup, Cancelled, Crash, Closed, Restart, Goto
      <4>2. QED
        BY <4>1, SnapshotForgotten
    <3>2. CASE Stop(p) \/ CloseClient(p)
      BY <3>2, <1>1 DEF Stop, CloseClient
    <3>3. QED
      BY <1>9, <3>1, <3>2 DEF Shutdown
  <2>2. CASE p # w
    <3>1. metrics'[w] = metrics[w] /\ loop'[w] = loop[w]
      BY <1>9, <2>2, <1>t
      DEF Startup, Stop, Shutdown, Cancelled, CloseClient, Closed, Crash, Restart, Goto
    <3>2. QED
      BY <3>1, <1>1
  <2>3. QED
    BY <2>1, <2>2
<1>10. ASSUME NEW q \in Requests, Evaluates(q) \/ Drains(q) PROVE SnapshotOf(w)'
  <2>1. CASE q = w
    <3>1. loop'[w] \in {"due", "draining", "refused"}
      BY <1>10, <2>1, <1>t DEF Evaluates, Drains, Goto
    <3>2. QED
      BY <3>1, SnapshotForgotten
  <2>2. CASE q # w
    <3>1. metrics'[w] = metrics[w] /\ loop'[w] = loop[w]
      BY <1>10, <2>2, <1>t DEF Evaluates, Drains, Goto
    <3>2. QED
      BY <3>1, <1>1
  <2>3. QED
    BY <2>1, <2>2
<1>11. ASSUME RunFails \/ NextHour \/ TimePasses \/ UNCHANGED allVars
       PROVE  SnapshotOf(w)'
  BY <1>11, <1>1 DEF RunFails, NextHour, TimePasses, allVars, schedulerVars
<1>12. QED
  BY <1>1, <1>2, <1>3, <1>4, <1>5, <1>6, <1>7, <1>8, <1>9, <1>10, <1>11
  DEF ComposedNext, Cycle

-----------------------------------------------------------------------------
(* A step that neither stops nor cancels leaves the same tasks to cancel.  *)
LEMMA ToBeCancelledFrame ==
    ASSUME SchedulerTypeOK, TaskInv, [ComposedNext]_allVars,
           \A p \in Processes : ~Stop(p) /\ ~Cancelled(p) /\ ~Crash(p)
    PROVE  ToBeCancelled' = ToBeCancelled
<1>t. /\ loop \in [Workers -> Phases]
      /\ app \in [Processes -> {"down", "serving", "stopping"}]
  BY DEF SchedulerTypeOK
<1> USE WhoWorks
<1> SUFFICES ASSUME NEW p \in Processes
             PROVE  (app[p] = "stopping" /\ Working(p))
                        <=> (app'[p] = "stopping" /\ Working(p)')
  BY DEF ToBeCancelled
<1>1. CASE app'[p] = app[p] /\ loop'[p] = loop[p]
  BY <1>1 DEF Working
<1>2. CASE app'[p] = app[p] /\ app[p] # "stopping"
  BY <1>2
<1>3. ASSUME NEW w \in Workers, Cycle(w) \/ DrainAckLost(w) \/ Breaks(w)
      PROVE  /\ app'[p] = app[p]
             /\ app[p] # "stopping" \/ loop'[p] = loop[p]
  <2>1. Runs(w) /\ app' = app
    BY <1>3
    DEF Cycle, SnapshotTotals, SnapshotStages, SnapshotKinds, QueueFound, QueueCheck,
        QueueInsert, DrainClaim, DrainPost, DrainRecord, DrainLeaseLost, CycleReturns,
        DrainAckLost, Breaks, Draining, schedulerVars
  <2>2. p # w => loop'[p] = loop[p]
    BY <1>3, <1>t
    DEF Cycle, SnapshotTotals, SnapshotStages, SnapshotKinds, QueueFound, QueueCheck,
        QueueInsert, DrainClaim, DrainPost, DrainRecord, DrainLeaseLost, CycleReturns,
        DrainAckLost, Breaks, Restart, Raises, Goto, AfterQueueing, schedulerVars
  <2>3. QED
    BY <2>1, <2>2 DEF Runs
<1>4. ASSUME NEW r \in Processes, Startup(r) \/ CloseClient(r) \/ Closed(r)
      PROVE  (app[p] = "stopping" /\ Working(p)) <=> (app'[p] = "stopping" /\ Working(p)')
  BY <1>4, <1>t DEF Startup, CloseClient, Closed, Restart, Goto, Working
<1>5. ASSUME NEW q \in Requests, Evaluates(q) \/ Drains(q)
      PROVE  app'[p] = app[p] /\ loop'[p] = loop[p]
  BY <1>5, <1>t DEF Evaluates, Drains, Goto
<1>6. ASSUME RunFails \/ NextHour \/ TimePasses \/ UNCHANGED allVars
      PROVE  app'[p] = app[p] /\ loop'[p] = loop[p]
  BY <1>6 DEF RunFails, NextHour, TimePasses, allVars, schedulerVars
<1>7. QED
  BY <1>1, <1>2, <1>3, <1>4, <1>5, <1>6 DEF ComposedNext, Shutdown

(* How many faults a step may add, and for which of them it pays.          *)
LEMMA FaultsPaid ==
    ASSUME Store!OutboxInv, SchedulerInv, [ComposedNext]_allVars
    PROVE  /\ breaks' \in {breaks, breaks + 1} /\ faults' \in {faults, faults + 1}
           /\ faults' = faults + 1 =>
                 \/ faults < MaxFaults
                 \/ breaks' = breaks + 1
                 \/ \E p \in Processes : Cancelled(p)
<1>t. faults \in Nat /\ breaks \in Nat
  BY StoreTypes, BreakTypes
<1>1. ASSUME NEW w, Interrupted(w) PROVE faults' \in {faults, faults + 1}
  BY <1>1 DEF Interrupted, vars
<1>2. ASSUME NEW p \in Processes, Cancelled(p)
      PROVE  breaks' = breaks /\ faults' \in {faults, faults + 1}
  BY <1>2, <1>1 DEF Cancelled
<1>3. ASSUME NEW p \in Processes, Crash(p)
      PROVE  breaks' = breaks + 1 /\ faults' \in {faults, faults + 1}
  BY <1>3, <1>1 DEF Crash
<1>4. ASSUME NEW w \in Workers, Breaks(w)
      PROVE  breaks' = breaks + 1 /\ faults' \in {faults, faults + 1}
  BY <1>4, <1>1 DEF Breaks
<1>5. ASSUME NEW w \in Workers, DrainAckLost(w)
      PROVE  breaks' = breaks + 1 /\ faults' = faults
  BY <1>5 DEF DrainAckLost, MarkDelivered, MarkFailed
<1>6. ASSUME TimePasses
      PROVE  breaks' = breaks /\ (faults' = faults \/ (faults' = faults + 1 /\ faults < MaxFaults))
  BY <1>6 DEF TimePasses, Tick, schedulerVars
<1>7. ASSUME NEW p \in Processes, Stop(p)
      PROVE  breaks' = breaks + 1 /\ faults' = faults
  BY <1>7 DEF Stop, vars
<1>8. ASSUME NEW w \in Workers, Cycle(w) PROVE breaks' = breaks /\ faults' = faults
  BY <1>8
  DEF Cycle, SnapshotTotals, SnapshotStages, SnapshotKinds, QueueFound, QueueCheck,
      QueueInsert, DrainClaim, DrainPost, DrainRecord, DrainLeaseLost, CycleReturns,
      schedulerVars, vars, EnqueueCheck, EnqueueInsert, Claim, ClaimSelect, ClaimCommit,
      ClaimRefresh, Post, Deliver, MarkDelivered, MarkFailed, LeaseLost
<1>9. ASSUME NEW p \in Processes, Startup(p) \/ CloseClient(p) \/ Closed(p)
      PROVE  breaks' = breaks /\ faults' = faults
  BY <1>9 DEF Startup, CloseClient, Closed, vars
<1>10. ASSUME NEW q \in Requests, Evaluates(q) \/ Drains(q)
       PROVE  breaks' = breaks /\ faults' = faults
  BY <1>10 DEF Evaluates, Drains, vars
<1>11. ASSUME RunFails \/ NextHour \/ UNCHANGED allVars
       PROVE  breaks' = breaks /\ faults' = faults
  BY <1>11 DEF RunFails, NextHour, allVars, schedulerVars, vars
<1>12. QED
  BY <1>t, <1>2, <1>3, <1>4, <1>5, <1>6, <1>7, <1>8, <1>9, <1>10, <1>11
  DEF ComposedNext, Shutdown

(* Every step keeps the account of faults and breaks.                      *)
LEMMA BreakStep ==
    ASSUME Store!OutboxInv, SchedulerInv, [ComposedNext]_allVars
    PROVE  BreakInv'
<1>t. /\ loop \in [Workers -> Phases]
      /\ app \in [Processes -> {"down", "serving", "stopping"}]
      /\ faults \in Nat
  BY StoreTypes DEF SchedulerInv, SchedulerTypeOK
<1>c. /\ breaks \in Nat /\ MaxFaults \in Nat
      /\ IsFiniteSet(ToBeCancelled) /\ Cardinality(ToBeCancelled) \in Nat
      /\ Cardinality(ToBeCancelled) <= breaks
      /\ faults + Cardinality(ToBeCancelled) <= MaxFaults + breaks
  BY BreakTypes
<1> USE WhoWorks
<1>1. ASSUME NEW p \in Processes, Stop(p) PROVE BreakInv'
  <2>1. ToBeCancelled' = ToBeCancelled \cup {p} /\ p \notin ToBeCancelled
    BY <1>1, <1>t DEF Stop, ToBeCancelled, Working, SchedulerInv, TaskInv, Busy
  <2>2. /\ IsFiniteSet(ToBeCancelled')
        /\ Cardinality(ToBeCancelled') = Cardinality(ToBeCancelled) + 1
    BY <2>1, <1>c, FS_AddElement
  <2>3. breaks' = breaks + 1 /\ faults' = faults
    BY <1>1 DEF Stop, vars
  <2>4. QED
    BY <2>2, <2>3, <1>c, <1>t DEF BreakInv
<1>2. ASSUME NEW p \in Processes, Cancelled(p) PROVE BreakInv'
  <2>1. ToBeCancelled' = ToBeCancelled \ {p} /\ p \in ToBeCancelled
    BY <1>2, <1>t DEF Cancelled, Restart, ToBeCancelled, Working
  <2>2. /\ IsFiniteSet(ToBeCancelled')
        /\ Cardinality(ToBeCancelled') = Cardinality(ToBeCancelled) - 1
    BY <2>1, <1>c, FS_RemoveElement
  <2>3. breaks' = breaks /\ faults' \in {faults, faults + 1}
    BY <1>2, FaultsPaid DEF Cancelled
  <2>4. QED
    BY <2>2, <2>3, <1>c, <1>t DEF BreakInv
<1>3. ASSUME NEW p \in Processes, Crash(p) PROVE BreakInv'
  <2>1. ToBeCancelled' = ToBeCancelled \ {p}
    BY <1>3, <1>t DEF Crash, Restart, ToBeCancelled, Working
  <2>2. /\ IsFiniteSet(ToBeCancelled')
        /\ Cardinality(ToBeCancelled') \in {Cardinality(ToBeCancelled), Cardinality(ToBeCancelled) - 1}
    BY <2>1, <1>c, FS_RemoveElement
  <2>3. breaks' = breaks + 1 /\ faults' \in {faults, faults + 1}
    BY <1>3, FaultsPaid DEF Crash
  <2>4. QED
    BY <2>2, <2>3, <1>c, <1>t DEF BreakInv
<1>4. ASSUME \A p \in Processes : ~Stop(p) /\ ~Cancelled(p) /\ ~Crash(p) PROVE BreakInv'
  <2>1. ToBeCancelled' = ToBeCancelled
    BY <1>4, ToBeCancelledFrame DEF SchedulerInv
  <2>2. /\ breaks' \in {breaks, breaks + 1} /\ faults' \in {faults, faults + 1}
        /\ faults' = faults + 1 => faults < MaxFaults \/ breaks' = breaks + 1
    BY <1>4, FaultsPaid
  <2>3. QED
    BY <2>1, <2>2, <1>c, <1>t DEF BreakInv
<1>5. QED
  BY <1>1, <1>2, <1>3, <1>4

-----------------------------------------------------------------------------
(* The invariant of the composition: the outbox and the scheduler need     *)
(* each other's part, the one for what the other does to its rows and      *)
(* workers, the other for the types of the rows and the room for faults.   *)
ComposedInv == Store!OutboxInv /\ SchedulerInv /\ BreakdownsCoverTotal

(* The initial state satisfies the invariant.                              *)
LEMMA ComposedInitInv == ComposedInit => Store!Init /\ ComposedInv
<1> SUFFICES ASSUME ComposedInit PROVE Store!Init /\ ComposedInv
  OBVIOUS
<1> USE WhoWorks
<1>1. Store!Init
  BY DEF ComposedInit, Init, Store!Init, Ready, Store!Ready, NoRow, Store!NoRow
<1>2. Store!OutboxInv
  BY <1>1, StoreAssumptions, Store!InitInv
<1>3. SchedulerTypeOK
  <2>1. NoMetrics \in [hour : Nat, errors : Nat, stages : Nat, kinds : Nat]
    BY DEF NoMetrics
  <2>2. NewScheduler \in [count : Counts, cycles_failed : Nat]
    BY CountFields DEF NewScheduler
  <2>3. "off" \in Phases /\ <<>> \in Seq(Alerts) /\ 1 \in Alerts /\ 0 \in 0..MaxBreaks
    BY HoursAssumption, BoundsAssumption DEF Phases
  <2>4. QED
    BY <2>1, <2>2, <2>3, CountFields DEF ComposedInit, SchedulerTypeOK
<1>4. StatusAgreesWithTable /\ SnapshotInv /\ BreakdownsCoverTotal
  BY DEF ComposedInit, StatusAgreesWithTable, SnapshotInv, BreakdownsCoverTotal
<1>5. TaskInv
  BY DEF ComposedInit, Init, Ready, TaskInv, Attempting, Busy
<1>6. CountInv
  BY CountFields DEF ComposedInit, NewScheduler, CountInv
<1>7. BreakInv
  <2>1. ToBeCancelled = {}
    BY DEF ComposedInit, ToBeCancelled
  <2>2. QED
    BY <2>1, FS_EmptySet, SettingsAssumption DEF ComposedInit, Init, BreakInv
<1>8. QED
  BY <1>1, <1>2, <1>3, <1>4, <1>5, <1>6, <1>7 DEF ComposedInv, SchedulerInv

(* Every step keeps the invariant, and is a step of the outbox.            *)
LEMMA ComposedStep ==
    ComposedInv /\ [ComposedNext]_allVars => [Store!Next]_(Store!vars) /\ ComposedInv'
<1> SUFFICES ASSUME ComposedInv, [ComposedNext]_allVars
             PROVE  [Store!Next]_(Store!vars) /\ ComposedInv'
  OBVIOUS
<1>i. /\ Store!OutboxInv /\ SchedulerInv /\ BreakdownsCoverTotal
      /\ SchedulerTypeOK /\ StatusAgreesWithTable /\ TaskInv /\ CountInv /\ SnapshotInv
  BY DEF ComposedInv, SchedulerInv
<1>1. [Store!Next]_(Store!vars)
  BY <1>i, StoreStep
<1>2. Store!OutboxInv'
  BY <1>i, <1>1, StoreInvStep
<1>3. SchedulerTypeOK' /\ TaskInv'
  BY <1>i, SchedulerTypeStep, TaskStep
<1>4. CountInv' /\ StatusAgreesWithTable'
  BY <1>i, <1>3, CountsApart, CountStep, CountsTogether
<1>5. SnapshotInv' /\ BreakdownsCoverTotal'
  BY <1>i, SnapshotsApart, SnapshotStep, SnapshotsTogether
<1>6. BreakInv'
  BY <1>i, BreakStep
<1>7. QED
  BY <1>1, <1>2, <1>3, <1>4, <1>5, <1>6 DEF ComposedInv, SchedulerInv

LEMMA ComposedInvariance == ComposedSpec => []ComposedInv
  BY ComposedInitInv, ComposedStep, PTL DEF ComposedSpec

(* The status of a serving process agrees with the table, tasks, workers   *)
(* and clients with the lifespan, and every fault is paid for.             *)
THEOREM SchedulerAgrees == ComposedSpec => []SchedulerInv
<1>1. ComposedInv => SchedulerInv
  BY DEF ComposedInv
<1>2. QED
  BY <1>1, ComposedInvariance, PTL

(* No warning counts an error that a breakdown of its snapshot lacks.      *)
THEOREM BreakdownsCover == ComposedSpec => []BreakdownsCoverTotal
<1>1. ComposedInv => BreakdownsCoverTotal
  BY DEF ComposedInv
<1>2. QED
  BY <1>1, ComposedInvariance, PTL

(* A client is open from before the POST of its task until after it.       *)
THEOREM PostsHaveAClient == ComposedSpec => []ClientOpenWhilePosting
<1>1. ASSUME TaskInv, NEW w \in Workers, worker[w].phase = "posting"
      PROVE  client[w] = "open"
  <2>1. loop[w] = "draining"
    BY <1>1 DEF TaskInv, Attempting
  <2>2. QED
    BY <1>1, <2>1, WhoWorks DEF TaskInv, Busy
<1>2. ComposedInv => ClientOpenWhilePosting
  BY <1>1 DEF ComposedInv, SchedulerInv, ClientOpenWhilePosting
<1>3. QED
  BY <1>2, ComposedInvariance, PTL

(* Schedulers, requests, stops and crashes do to the outbox only what its  *)
(* own specification allows, with one more fault for each break.           *)
THEOREM SchedulerImplementsOutbox == ComposedSpec => ImplementsOutbox
<1>1. ComposedSpec => Store!Spec
  BY ComposedInitInv, ComposedStep, ComposedInvariance, PTL DEF ComposedSpec, Store!Spec
<1>2. QED
  BY <1>1, SameSpec DEF ImplementsOutbox

(* So what AlertOutboxProofs shows of the outbox holds of the outbox that  *)
(* schedulers and requests work on: leases protect their rows and the      *)
(* latest attempt decides unless a late worker has read another's claim,   *)
(* settled rows stay, and every attempt beyond the maximum answers for a   *)
(* fault.                                                                  *)
COROLLARY SchedulerInherits ==
    ComposedSpec => /\ LeaseProtects /\ LatestAttemptDecides /\ SettledIsFinal
                    /\ []FailedIsJustified /\ []AttemptsBoundedByFaults
<1>1. ComposedSpec => Store!Spec
  BY SchedulerImplementsOutbox, SameSpec DEF ImplementsOutbox
<1>2. Store!Spec => Store!LeaseProtects
  BY StoreAssumptions, Store!LeaseIsExclusive
<1>3. Store!Spec => Store!LatestAttemptDecides
  BY StoreAssumptions, Store!LatestAttemptWins
<1>4. Store!Spec => Store!SettledIsFinal
  BY StoreAssumptions, Store!SettledStays
<1>5. Store!Spec => []Store!FailedIsJustified
  BY StoreAssumptions, Store!FailuresJustified
<1>6. Store!Spec => []Store!AttemptsBoundedByFaults
  BY StoreAssumptions, Store!AttemptsAnswerForFaults
<1>7. Store!LeaseProtects => LeaseProtects
  BY DEF Store!LeaseProtects, LeaseProtects, Store!Entitled, Entitled, Store!HoldsLease,
         HoldsLease, Store!OwnsClaim, OwnsClaim, Store!vars, vars
<1>8. Store!LatestAttemptDecides => LatestAttemptDecides
  BY DEF Store!LatestAttemptDecides, LatestAttemptDecides, Store!IsError, IsError,
         Store!Entitled, Entitled, Store!HoldsLease, HoldsLease, Store!OwnsClaim, OwnsClaim,
         Store!vars, vars
<1>9. Store!SettledIsFinal => SettledIsFinal
  BY DEF Store!SettledIsFinal, SettledIsFinal, Store!vars, vars
<1>10. Store!FailedIsJustified => FailedIsJustified
  BY DEF Store!FailedIsJustified, FailedIsJustified
<1>11. Store!AttemptsBoundedByFaults => AttemptsBoundedByFaults
  BY DEF Store!AttemptsBoundedByFaults, AttemptsBoundedByFaults
<1>12. QED
  BY <1>1, <1>2, <1>3, <1>4, <1>5, <1>6, <1>7, <1>8, <1>9, <1>10, <1>11, PTL
=============================================================================
