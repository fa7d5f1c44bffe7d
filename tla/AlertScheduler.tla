--------------------------- MODULE AlertScheduler ---------------------------
(***************************************************************************)
(* The background scheduler of alerts (backend/app/agent/alert_scheduler.  *)
(* py), the lifespan that starts and stops it (backend/app/main.py), the   *)
(* metrics it evaluates (backend/app/agent/metrics.py) and the routes that *)
(* do the same on request (backend/app/api/routes/agent_alerts.py),        *)
(* composed with the outbox they share.                                    *)
(*                                                                         *)
(* A cycle evaluates the metrics of the last hours, queues the alert of    *)
(* the hour and drains a batch of due alerts.  It may break anywhere: the  *)
(* database raises, the lease of an alert is lost, the task is cancelled,  *)
(* the process dies.  The counters of a cycle are added up when it returns.*)
(***************************************************************************)
EXTENDS AlertOutbox, Sequences

CONSTANTS
    Processes,    \* backend processes, each with a scheduler of its own
    Requests,     \* requests to the routes under /agent/alerts
    Principals,   \* who sends requests: whether authenticated, and the roles
    Threshold,    \* agent_error_alert_threshold
    WindowHours,  \* agent_alert_scheduler_window_hours
    BatchSize,    \* agent_alert_scheduler_batch_size, or limit of a request
    MaxErrors,    \* bound: error events
    MaxBreaks     \* bound: stops, crashes and calls that raise

AllRoles == {"quality_approver", "alert_operator", "alert_viewer",
             "retention_operator", "retention_reader", "agent_admin"}

ASSUME WorkersAssumption ==
    Workers = Processes \cup Requests /\ Processes \cap Requests = {}
ASSUME HoursAssumption == 1 \in Alerts /\ Alerts \subseteq Nat \ {0}
ASSUME PrincipalsAssumption ==
    Principals \subseteq [authenticated : BOOLEAN, roles : SUBSET AllRoles]
ASSUME BoundsAssumption ==
    /\ {Threshold, WindowHours, BatchSize} \subseteq Nat \ {0}
    /\ {MaxErrors, MaxBreaks} \subseteq Nat

VARIABLES
    hour,     \* the hour it is; the hour of a snapshot is an alert's fingerprint
    events,   \* agent_run_error_events: the hour each occurred in
    app,      \* the lifespan of each process
    loop,     \* where the task of each process, or each request, is
    metrics,  \* what its snapshot has read
    tally,    \* what its cycle has counted
    status,   \* the counters of each scheduler
    client,   \* the httpx client of each process or request
    made,     \* history: the rows each scheduler has queued and settled
    breaks    \* stops, crashes and calls that raised so far

schedulerVars == <<hour, events, app, loop, metrics, tally, status, client, made, breaks>>
allVars == <<vars, schedulerVars>>

Phases == {"off", "due", "stages", "kinds", "queueing", "draining", "cancelled",
           "answered", "failed", "refused"}

Counts == [queued : Nat, delivered : Nat, retry_scheduled : Nat, failed : Nat]

Zero == [queued |-> 0, delivered |-> 0, retry_scheduled |-> 0, failed |-> 0]

Add(c, d) == [f \in DOMAIN c |-> c[f] + d[f]]

NoMetrics == [hour |-> 0, errors |-> 0, stages |-> 0, kinds |-> 0]

(* Every alert that is processed is counted under one of three outcomes.   *)
Handled(c) == c.delivered + c.retry_scheduled + c.failed

NewScheduler == [count |-> Zero, cycles_failed |-> 0]

ComposedInit ==
    /\ Init
    /\ hour = 1
    /\ events = <<>>
    /\ app = [p \in Processes |-> "down"]
    /\ loop = [w \in Workers |-> "off"]
    /\ metrics = [w \in Workers |-> NoMetrics]
    /\ tally = [w \in Workers |-> Zero]
    /\ status = [p \in Processes |-> NewScheduler]
    /\ client = [w \in Workers |-> "closed"]
    /\ made = [p \in Processes |-> Zero]
    /\ breaks = 0

-----------------------------------------------------------------------------
(* Runs that fail append error events, and hours pass.                     *)

RunFails ==
    /\ Len(events) < MaxErrors
    /\ events' = Append(events, hour)
    /\ UNCHANGED <<vars, hour, app, loop, metrics, tally, status, client, made, breaks>>

NextHour ==
    /\ hour + 1 \in Alerts
    /\ hour' = hour + 1
    /\ UNCHANGED <<vars, events, app, loop, metrics, tally, status, client, made, breaks>>

-----------------------------------------------------------------------------
(* What ends the work of w early: its transaction rolls back, a lease it   *)
(* holds stays on the row, a POST under way may be acted upon.             *)

(* A bug to catch: a cancelled cycle gives its alert back to the queue.    *)
InterruptedReleasing(w) ==
    IF worker[w].phase = "ready" THEN UNCHANGED vars
    ELSE /\ worker' = [worker EXCEPT ![w] = Ready]
         /\ faults' = faults + 1
         /\ outbox' = [outbox EXCEPT ![worker[w].alert].status =
                          IF @ = "delivering" THEN "pending" ELSE @]
         /\ UNCHANGED <<clock, tokens, processed, overtaken>>

Interrupted(w) ==
    IF worker[w].phase = "ready" THEN UNCHANGED vars
    ELSE /\ worker' = [worker EXCEPT ![w] = Ready]
         /\ faults' = faults + 1
         /\ processed' \in {processed} \cup
               (IF worker[w].phase = "posting" THEN {processed \cup {worker[w].alert}} ELSE {})
         /\ UNCHANGED <<clock, outbox, tokens, overtaken>>

(* What the next step of w sees of the cycle it begins or ends.            *)

(* A bug to catch: the counts of a cycle start where the last one ended.   *)
RestartCounting(w, phase) ==
    /\ loop' = [loop EXCEPT ![w] = phase]
    /\ metrics' = [metrics EXCEPT ![w] = NoMetrics]
    /\ UNCHANGED tally

Restart(w, phase) ==
    /\ loop' = [loop EXCEPT ![w] = phase]
    /\ metrics' = [metrics EXCEPT ![w] = NoMetrics]
    /\ tally' = [tally EXCEPT ![w] = Zero]

Goto(w, phase) == loop' = [loop EXCEPT ![w] = phase]

(* The exception leaves run_cycle: the loop goes on without its counts,    *)
(* a request is answered 500 and its client closed.                        *)

(* A bug to catch: an error ends the task of the scheduler.                *)
RaisesForGood(w) ==
    /\ Restart(w, IF w \in Requests THEN "failed" ELSE "cancelled")
    /\ status' = [p \in Processes |->
            [status[p] EXCEPT !.cycles_failed = IF p = w THEN @ + 1 ELSE @]]
    /\ client' = IF w \in Requests THEN [client EXCEPT ![w] = "closed"] ELSE client

Raises(w) ==
    /\ Restart(w, IF w \in Requests THEN "failed" ELSE "due")
    /\ status' = [p \in Processes |->
            [status[p] EXCEPT !.cycles_failed = IF p = w THEN @ + 1 ELSE @]]
    /\ client' = IF w \in Requests THEN [client EXCEPT ![w] = "closed"] ELSE client

-----------------------------------------------------------------------------
(* The lifespan of a process.                                              *)

Startup(p) ==
    /\ app[p] = "down"
    /\ app' = [app EXCEPT ![p] = "serving"]
    /\ Restart(p, "due")
    /\ status' = [status EXCEPT ![p] = NewScheduler]
    /\ client' = [client EXCEPT ![p] = "open"]
    /\ made' = [made EXCEPT ![p] = Zero]
    /\ UNCHANGED <<vars, hour, events, breaks>>

(* The lifespan ends: stop() cancels the task and waits for it.            *)
Stop(p) ==
    /\ app[p] = "serving"
    /\ breaks < MaxBreaks
    /\ breaks' = breaks + 1
    /\ app' = [app EXCEPT ![p] = "stopping"]
    /\ UNCHANGED <<vars, hour, events, loop, metrics, tally, status, client, made>>

Working(p) == loop[p] \notin {"off", "cancelled"}

(* A bug to catch: the cancellation is handled like any other error.       *)
CancelledIsRaised(p) ==
    /\ app[p] = "stopping"
    /\ Working(p) /\ loop[p] # "due"
    /\ Interrupted(p)
    /\ Raises(p)
    /\ UNCHANGED <<hour, events, app, made, breaks>>

(* CancelledError is thrown where the task waits, and passes through.      *)
Cancelled(p) ==
    /\ app[p] = "stopping"
    /\ Working(p)
    /\ Interrupted(p)
    /\ Restart(p, "cancelled")
    /\ UNCHANGED <<hour, events, app, status, client, made, breaks>>

(* A bug to catch: the client is closed before the task has ended.         *)
CloseClientFirst(p) ==
    /\ app[p] = "stopping"
    /\ client[p] = "open"
    /\ client' = [client EXCEPT ![p] = "closed"]
    /\ UNCHANGED <<vars, hour, events, app, loop, metrics, tally, status, made, breaks>>

CloseClient(p) ==
    /\ app[p] = "stopping"
    /\ ~Working(p)
    /\ client[p] = "open"
    /\ client' = [client EXCEPT ![p] = "closed"]
    /\ UNCHANGED <<vars, hour, events, app, loop, metrics, tally, status, made, breaks>>

Closed(p) ==
    /\ app[p] = "stopping"
    /\ ~Working(p)
    /\ client[p] = "closed"
    /\ app' = [app EXCEPT ![p] = "down"]
    /\ Goto(p, "off")
    /\ UNCHANGED <<vars, hour, events, metrics, tally, status, client, made, breaks>>

Crash(p) ==
    /\ app[p] # "down"
    /\ breaks < MaxBreaks
    /\ breaks' = breaks + 1
    /\ Interrupted(p)
    /\ app' = [app EXCEPT ![p] = "down"]
    /\ Restart(p, "off")
    /\ client' = [client EXCEPT ![p] = "closed"]
    /\ UNCHANGED <<hour, events, status, made>>

-----------------------------------------------------------------------------
(* The routes: who may operate alerts, and what a request does first.      *)

HasAnyRole(principal, roles) ==
    "agent_admin" \in principal.roles \/ principal.roles \cap roles # {}

CanOperateAlerts(principal) == HasAnyRole(principal, {"alert_operator"})

Evaluates(q) ==
    /\ loop[q] = "off"
    /\ \E principal \in Principals :
          Goto(q, IF principal.authenticated /\ CanOperateAlerts(principal)
                  THEN "due" ELSE "refused")
    /\ UNCHANGED <<vars, hour, events, app, metrics, tally, status, client, made, breaks>>

(* The client of the request is opened before its role is checked and      *)
(* closed when it is refused.                                              *)
Drains(q) ==
    /\ loop[q] = "off"
    /\ \E principal \in Principals :
          IF principal.authenticated /\ CanOperateAlerts(principal)
          THEN Goto(q, "draining") /\ client' = [client EXCEPT ![q] = "open"]
          ELSE Goto(q, "refused") /\ UNCHANGED client
    /\ UNCHANGED <<vars, hour, events, app, metrics, tally, status, made, breaks>>

-----------------------------------------------------------------------------
(* snapshot(): its statements see what is committed when each begins.  A   *)
(* scheduler forgets it when the alert is queued.                          *)

(* A task that was cancelled runs nothing but its end.                     *)
Runs(w) == w \in Processes => app[w] = "serving"

ErrorsSince(h) == Cardinality({i \in DOMAIN events : events[i] + WindowHours > h})

SnapshotTotals(w) ==
    /\ Runs(w)
    /\ loop[w] = "due"
    /\ Goto(w, "stages")
    /\ metrics' = [metrics EXCEPT ![w].hour = hour, ![w].errors = ErrorsSince(hour)]
    /\ UNCHANGED <<vars, hour, events, app, tally, status, client, made, breaks>>

(* A bug to catch: each statement computes its own window.                 *)
SnapshotStagesNow(w) ==
    /\ Runs(w)
    /\ loop[w] = "stages"
    /\ Goto(w, "kinds")
    /\ metrics' = [metrics EXCEPT ![w].stages = ErrorsSince(hour)]
    /\ UNCHANGED <<vars, hour, events, app, tally, status, client, made, breaks>>

SnapshotStages(w) ==
    /\ Runs(w)
    /\ loop[w] = "stages"
    /\ Goto(w, "kinds")
    /\ metrics' = [metrics EXCEPT ![w].stages = ErrorsSince(metrics[w].hour)]
    /\ UNCHANGED <<vars, hour, events, app, tally, status, client, made, breaks>>

(* A bug to catch: a warning only above the threshold.                     *)
AlertStatusAbove(m) == IF m.errors > Threshold THEN "warning" ELSE "ok"

AlertStatus(m) == IF m.errors >= Threshold THEN "warning" ELSE "ok"

SnapshotKinds(w) ==
    /\ Runs(w)
    /\ loop[w] = "kinds"
    /\ metrics' = [metrics EXCEPT ![w].kinds = ErrorsSince(metrics[w].hour)]
    /\ Goto(w, IF AlertStatus(metrics[w]) = "warning" THEN "queueing"
               ELSE IF w \in Requests THEN "answered" ELSE "draining")
    /\ UNCHANGED <<vars, hour, events, app, tally, status, client, made, breaks>>

-----------------------------------------------------------------------------
(* enqueue() of the snapshot's hour, by the actions of the outbox.         *)

Noted(w, field) ==
    made' = [p \in Processes |-> [made[p] EXCEPT ![field] = IF p = w THEN @ + 1 ELSE @]]

Counted(w, field) ==
    /\ tally' = [tally EXCEPT ![w][field] = @ + 1]
    /\ Noted(w, field)

AfterQueueing(w) ==
    IF w \in Requests THEN Goto(w, "answered") /\ UNCHANGED metrics
    ELSE /\ Goto(w, "draining")
         /\ metrics' = [metrics EXCEPT ![w] = NoMetrics]

QueueFound(w) ==
    /\ Runs(w)
    /\ loop[w] = "queueing"
    /\ worker[w].phase = "ready"
    /\ outbox[metrics[w].hour].status # "absent"
    /\ AfterQueueing(w)
    /\ UNCHANGED <<vars, hour, events, app, tally, status, client, made, breaks>>

QueueCheck(w) ==
    /\ Runs(w)
    /\ loop[w] = "queueing"
    /\ EnqueueCheck(w, metrics[w].hour)
    /\ UNCHANGED schedulerVars

QueueInsert(w) ==
    /\ Runs(w)
    /\ loop[w] = "queueing"
    /\ EnqueueInsert(w)
    /\ AfterQueueing(w)
    /\ IF outbox' = outbox THEN UNCHANGED <<tally, made>> ELSE Counted(w, "queued")
    /\ UNCHANGED <<hour, events, app, status, client, breaks>>

-----------------------------------------------------------------------------
(* process_one(), as often as the batch allows and while a row is due.     *)

Draining(w) == Runs(w) /\ loop[w] = "draining"

DrainClaim(w) ==
    /\ Draining(w)
    /\ Handled(tally[w]) < BatchSize
    /\ Claim(w)
    /\ UNCHANGED schedulerVars

DrainPost(w) ==
    /\ Draining(w)
    /\ Post(w)
    /\ UNCHANGED schedulerVars

Outcome(w) ==
    IF ~IsError(worker[w].outcome) THEN "delivered"
    ELSE IF Terminal(w) THEN "failed" ELSE "retry_scheduled"

DrainRecord(w) ==
    /\ Draining(w)
    /\ MarkDelivered(w) \/ MarkFailed(w)
    /\ Counted(w, Outcome(w))
    /\ UNCHANGED <<hour, events, app, loop, metrics, status, client, breaks>>

(* The UPDATE matches no row: process_one raises ValueError.               *)
DrainLeaseLost(w) ==
    /\ Draining(w)
    /\ LeaseLost(w)
    /\ Raises(w)
    /\ UNCHANGED <<hour, events, app, made, breaks>>

(* The UPDATE is committed and its acknowledgement lost.                   *)
DrainAckLost(w) ==
    /\ Draining(w)
    /\ breaks < MaxBreaks
    /\ breaks' = breaks + 1
    /\ MarkDelivered(w) \/ MarkFailed(w)
    /\ Noted(w, Outcome(w))
    /\ Raises(w)
    /\ UNCHANGED <<hour, events, app>>

(* A statement of the database raises.                                     *)
Breaks(w) ==
    /\ Runs(w)
    /\ loop[w] \in {"due", "stages", "kinds", "queueing", "draining"}
    /\ breaks < MaxBreaks
    /\ breaks' = breaks + 1
    /\ Interrupted(w)
    /\ Raises(w)
    /\ UNCHANGED <<hour, events, app, made>>

(* The batch is full or nothing is due: run_cycle returns and its counts   *)
(* are added up, or the request is answered.                               *)
CycleReturns(w) ==
    /\ Draining(w)
    /\ worker[w].phase = "ready"
    /\ Handled(tally[w]) = BatchSize \/ Claimable = {}
    /\ IF w \in Requests
       THEN /\ Restart(w, "answered")
            /\ client' = [client EXCEPT ![w] = "closed"]
            /\ UNCHANGED status
       ELSE /\ Restart(w, "due")
            /\ status' = [status EXCEPT ![w].count = Add(@, tally[w])]
            /\ UNCHANGED client
    /\ UNCHANGED <<vars, hour, events, app, made, breaks>>

TimePasses == Tick /\ UNCHANGED schedulerVars

-----------------------------------------------------------------------------
Cycle(w) ==
    \/ SnapshotTotals(w) \/ SnapshotStages(w) \/ SnapshotKinds(w)
    \/ QueueFound(w) \/ QueueCheck(w) \/ QueueInsert(w)
    \/ DrainClaim(w) \/ DrainPost(w) \/ DrainRecord(w) \/ DrainLeaseLost(w)
    \/ CycleReturns(w)

Shutdown(p) == Cancelled(p) \/ CloseClient(p) \/ Closed(p)

ComposedNext ==
    \/ RunFails \/ NextHour \/ TimePasses
    \/ \E p \in Processes : Startup(p) \/ Stop(p) \/ Shutdown(p) \/ Crash(p)
    \/ \E q \in Requests : Evaluates(q) \/ Drains(q)
    \/ \E w \in Workers : Cycle(w) \/ DrainAckLost(w) \/ Breaks(w)

ComposedSpec == ComposedInit /\ [][ComposedNext]_allVars

(* A process that is down is started again, a task that is not cancelled   *)
(* goes from one await to the next, and so does a shutdown.                *)
FairComposedSpec ==
    /\ ComposedSpec
    /\ WF_allVars(TimePasses)
    /\ \A p \in Processes : WF_allVars(Startup(p)) /\ WF_allVars(Shutdown(p))
    /\ \A w \in Workers : WF_allVars(Cycle(w))

-----------------------------------------------------------------------------
(* Every variable of the scheduler has its type.                           *)
SchedulerTypeOK ==
    /\ hour \in Alerts
    /\ events \in Seq(Alerts)
    /\ app \in [Processes -> {"down", "serving", "stopping"}]
    /\ loop \in [Workers -> Phases]
    /\ metrics \in [Workers -> [hour : Nat, errors : Nat, stages : Nat, kinds : Nat]]
    /\ tally \in [Workers -> Counts]
    /\ status \in [Processes -> [count : Counts, cycles_failed : Nat]]
    /\ client \in [Workers -> {"open", "closed"}]
    /\ made \in [Processes -> Counts]
    /\ breaks \in 0..MaxBreaks

(* What GET /agent/alerts/scheduler reports.                               *)
Snapshot(p) == [enabled |-> app[p] # "down", running |-> Working(p),
                count |-> status[p].count, cycles_failed |-> status[p].cycles_failed]

(* The status of a process that serves says that its scheduler runs; its   *)
(* counters and the cycle under way never exceed what the process did to   *)
(* the table, and equal it unless a cycle failed: the counts of an alert   *)
(* settled before a later one of the batch raises are lost (run_cycle,     *)
(* run_cycle_once).                                                        *)
StatusAgreesWithTable ==
    \A p \in Processes :
        LET shown == Add(Snapshot(p).count, tally[p]) IN
        app[p] = "serving" =>
            /\ Snapshot(p).running
            /\ \A f \in DOMAIN Zero : shown[f] <= made[p][f]
            /\ Snapshot(p).cycles_failed = 0 => shown = made[p]

(* A task is where its process lets it be, its worker in the middle of     *)
(* what the task waits for, and its client open while it may post.         *)
Busy == {"due", "stages", "kinds", "queueing", "draining"}

TaskInv ==
    /\ \A p \in Processes :
        /\ app[p] = "down" => loop[p] = "off"
        /\ app[p] = "serving" => loop[p] \in Busy
        /\ app[p] = "stopping" => loop[p] \in Busy \cup {"cancelled"}
        /\ loop[p] \in Busy => client[p] = "open"
    /\ \A q \in Requests : loop[q] = "draining" => client[q] = "open"
    /\ \A w \in Workers :
        /\ worker[w].phase = "inserting" => loop[w] = "queueing"
        /\ Attempting(w) \/ worker[w].phase = "locked" => loop[w] = "draining"

(* A cycle counts from zero, and no sum of counts exceeds the table.       *)
CountInv ==
    \A p \in Processes :
        /\ loop[p] # "draining" => tally[p] = Zero
        /\ \A f \in DOMAIN Zero : status[p].count[f] + tally[p][f] <= made[p][f]

(* Events are appended only, so a later statement counts no fewer.         *)
SnapshotInv ==
    \A w \in Workers :
        /\ loop[w] \in {"stages", "kinds", "queueing"} => metrics[w].hour \in Alerts
        /\ loop[w] = "stages" => metrics[w].errors <= ErrorsSince(metrics[w].hour)
        /\ loop[w] = "kinds" => metrics[w].stages <= ErrorsSince(metrics[w].hour)

(* Every interruption of a worker is paid for by a break: a cancellation   *)
(* that is yet to be thrown by the stop that asked for it.                 *)
ToBeCancelled == {p \in Processes : app[p] = "stopping" /\ Working(p)}

BreakInv ==
    /\ IsFiniteSet(ToBeCancelled)
    /\ Cardinality(ToBeCancelled) <= breaks
    /\ faults + Cardinality(ToBeCancelled) <= MaxFaults + breaks

(* The types of the scheduler's variables, the agreement of its status     *)
(* with the table (snapshot, run_cycle_once), and what their induction     *)
(* needs.                                                                  *)
SchedulerInv ==
    /\ SchedulerTypeOK /\ StatusAgreesWithTable
    /\ TaskInv /\ CountInv /\ SnapshotInv /\ BreakInv

(* No POST goes through a client that is closed, or closes under it: the   *)
(* lifespan ends the task first (main.py), a request its dependency last.  *)
ClientOpenWhilePosting ==
    \A w \in Workers : worker[w].phase = "posting" => client[w] = "open"

(* The statements of a snapshot are not one: the breakdowns by stage and   *)
(* kind may count events the total has missed, never the other way round,  *)
(* so a warning is never raised on events the breakdown lacks.             *)
BreakdownsCoverTotal ==
    \A w \in Workers :
        /\ loop[w] = "kinds" => metrics[w].errors <= metrics[w].stages
        /\ loop[w] \in {"queueing", "answered"} /\ metrics[w].hour # 0 =>
              metrics[w].errors <= metrics[w].stages /\ metrics[w].stages <= metrics[w].kinds

(* Stops and broken cycles are to the outbox what deaths of workers are:   *)
(* the composition implements AlertOutbox, and so has its properties.      *)
Outbox == INSTANCE AlertOutbox WITH MaxFaults <- MaxFaults + MaxBreaks

ImplementsOutbox == Outbox!Spec

(* Enough errors in the window of an hour put the alert of that hour into  *)
(* the outbox before the hour is over, whatever cycles raise.              *)
WarningIsQueued ==
    \A h \in Alerts :
        (hour = h /\ ErrorsSince(h) >= Threshold) ~> (hour # h \/ outbox[h].status # "absent")

(* A shutdown comes to its end: nothing swallows the cancellation.         *)
StopCompletes == \A p \in Processes : app[p] = "stopping" ~> app[p] = "down"

(* Every queued alert is settled by the loop alone, batch by batch, over   *)
(* broken cycles, cancelled ones and restarts (EventuallySettled, here     *)
(* with the fairness of the scheduler's loop instead of its statements').  *)
LoopSettlesAlerts == EventuallySettled
=============================================================================
