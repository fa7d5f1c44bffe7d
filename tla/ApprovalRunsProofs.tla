------------------------- MODULE ApprovalRunsProofs -------------------------
(***************************************************************************)
(* Proofs about ApprovalRuns: ApprovalInv is inductive, and with it hold   *)
(* the agreement of accepted requests, the agreement of the two stores,    *)
(* the fate of retransmissions and the refinement of DecisionRegister, for *)
(* any number of runs, requests and deliveries.                            *)
(***************************************************************************)
EXTENDS ApprovalRuns, TLAPS

(* The initial state satisfies the invariant: no run exists, no request is *)
(* being served.                                                           *)
LEMMA InitInv == Init => ApprovalInv
<1> SUFFICES ASSUME Init PROVE ApprovalInv
  OBVIOUS
<1> USE CarriesAssumption, NoEventAssumption, MaxCrashesAssumption DEF Init
<1>1. TypeOK
  BY DEF TypeOK, Idle, NoThread, HandlerState, Checkpoint, Statuses
<1>2. RunInv
  BY DEF RunInv, RunOK, NoThread
<1>3. HandlerInv
  BY DEF HandlerInv, HandlerOK, Idle
<1> QED
  BY <1>1, <1>2, <1>3 DEF ApprovalInv

(* Every operation of the endpoint and of the workflow keeps the types.    *)
LEMMA TypeStep ==
  ASSUME TypeOK, [Next]_vars
  PROVE  TypeOK'
<1> USE CarriesAssumption, NoEventAssumption, MaxCrashesAssumption DEF TypeOK
<1>1. ASSUME NEW r \in Runs, StartRun(r) PROVE TypeOK'
  BY <1>1 DEF StartRun
<1>2. ASSUME NEW r \in Runs, RunNode(r) PROVE TypeOK'
  BY <1>2 DEF RunNode, Checkpoint
<1>3. ASSUME NEW r \in Runs, StartReturns(r) PROVE TypeOK'
  BY <1>3 DEF StartReturns
<1>4. ASSUME NEW r \in Runs, NEW stage \in Stages, StartFails(r, stage) PROVE TypeOK'
  BY <1>4 DEF StartFails
<1>5. ASSUME NEW h \in Handlers, Receive(h) PROVE TypeOK'
  BY <1>5, SMTT(30) DEF Receive, Move, HandlerState, Answers, Payload
<1>6. ASSUME NEW h \in Handlers, Handle(h) PROVE TypeOK'
  <2>1. CASE Judge(h)
    BY <2>1 DEF Judge, Move, HandlerState, Answers
  <2>2. CASE CheckExisting(h)
    BY <2>2 DEF CheckExisting, Existing, Move, HandlerState, Answers
  <2>3. CASE InsertEvent(h)
    <3>1. Carries[h] \in Payload /\ Carries[h].run \in Runs
      BY DEF Payload
    <3>2. audit' \in [Runs -> Payload \cup {NoEvent}]
      BY <2>3, <3>1 DEF InsertEvent
    <3>3. \E phase \in {"resuming", "conflict"} : Move(h, phase)
      BY <2>3 DEF InsertEvent, Existing
    <3>4. handler' \in [Handlers -> HandlerState]
      BY <3>3 DEF Move, HandlerState, Answers
    <3> QED
      BY <2>3, <3>2, <3>4 DEF InsertEvent
  <2>4. CASE Approve(h)
    BY <2>4 DEF Approve, Move, HandlerState, Answers
  <2>5. CASE Recheck(h)
    BY <2>5 DEF Recheck, Move, HandlerState, Answers
  <2>6. CASE Load(h)
    BY <2>6 DEF Load, Move, HandlerState, Answers, Payload
  <2>7. CASE RequestApproval(h)
    BY <2>7 DEF RequestApproval, HandlerState, Checkpoint, Statuses, Payload
  <2>8. CASE Finalize(h)
    <3>1. handler[h].seen \in Checkpoint
      BY DEF HandlerState
    <3>2. [status |-> FinalStatus(handler[h].seen.approved),
           approved |-> handler[h].seen.approved] \in Checkpoint
      BY <3>1 DEF Checkpoint, Statuses, FinalStatus
    <3>3. checkpoint' \in [Runs -> Checkpoint]
      BY <2>8, <3>2 DEF Finalize
    <3> QED
      BY <2>8, <3>3 DEF Finalize, Move, HandlerState, Answers
  <2> QED
    BY <1>6, <2>1, <2>2, <2>3, <2>4, <2>5, <2>6, <2>7, <2>8 DEF Handle
<1>7. ASSUME NEW h \in Handlers, Crash(h) PROVE TypeOK'
  BY <1>7 DEF Crash, Idle, NoThread, HandlerState, Checkpoint, Statuses
<1>8. CASE UNCHANGED vars
  BY <1>8 DEF vars
<1> QED
  BY <1>1, <1>2, <1>3, <1>4, <1>5, <1>6, <1>7, <1>8 DEF Next

(* The facts a request relies on between two of its steps are stable: an   *)
(* event is never replaced, a decided checkpoint keeps its decision, and a *)
(* run whose start has returned neither becomes nor ceases to be decidable.*)
Stable(r) ==
    /\ audit[r] # NoEvent => audit'[r] = audit[r]
    /\ checkpoint[r].approved # "none" => checkpoint'[r].approved = checkpoint[r].approved
    /\ start[r] = "returned" => start'[r] = "returned"
    /\ start[r] = "returned" => (Decidable(r)' <=> Decidable(r))

LEMMA StableStep ==
  ASSUME ApprovalInv, [Next]_vars
  PROVE  \A r \in Runs : Stable(r)
<1> USE CarriesAssumption, NoEventAssumption DEF ApprovalInv, TypeOK, Payload
<1>1. ASSUME NEW r \in Runs, StartRun(r) PROVE \A s \in Runs : Stable(s)
  BY <1>1 DEF StartRun, Stable, Decidable
<1>2. ASSUME NEW r \in Runs, RunNode(r) PROVE \A s \in Runs : Stable(s)
  BY <1>2 DEF RunNode, Stable, Decidable, Checkpoint
<1>3. ASSUME NEW r \in Runs, StartReturns(r) PROVE \A s \in Runs : Stable(s)
  BY <1>3 DEF StartReturns, Stable, Decidable
<1>4. ASSUME NEW r \in Runs, NEW stage \in Stages, StartFails(r, stage)
      PROVE  \A s \in Runs : Stable(s)
  BY <1>4 DEF StartFails, Stable, Decidable
<1>5. ASSUME NEW h \in Handlers, Receive(h) PROVE \A s \in Runs : Stable(s)
  BY <1>5 DEF Receive, Stable, Decidable
<1>6. ASSUME NEW h \in Handlers, Handle(h) PROVE \A s \in Runs : Stable(s)
  <2>1. CASE Judge(h)
    BY <2>1 DEF Judge, Stable, Decidable
  <2>2. CASE CheckExisting(h)
    BY <2>2 DEF CheckExisting, Stable, Decidable
  <2>3. CASE InsertEvent(h)
    BY <2>3 DEF InsertEvent, Insertable, Stable, Decidable
  <2>4. CASE Approve(h)
    BY <2>4 DEF Approve, Stable, Decidable
  <2>5. CASE Recheck(h)
    BY <2>5 DEF Recheck, Stable, Decidable
  <2>6. CASE Load(h)
    BY <2>6 DEF Load, Stable, Decidable
  <2>7. CASE RequestApproval(h)
    <3>1. HandlerOK(h) /\ RunOK(Carries[h].run)
      BY DEF HandlerInv, RunInv
    <3>2. audit[Carries[h].run] = Carries[h] /\ Decidable(Carries[h].run)
      BY <2>7, <3>1 DEF RequestApproval, HandlerOK, RunOK
    <3>3. checkpoint[Carries[h].run].approved \in {"none", Carries[h].approved}
      BY <3>1, <3>2 DEF RunOK, Checkpoint
    <3> QED
      BY <2>7, <3>2, <3>3 DEF RequestApproval, Stable, Decidable
  <2>8. CASE Finalize(h)
    <3>1. HandlerOK(h) /\ RunOK(Carries[h].run)
      BY DEF HandlerInv, RunInv
    <3>2. /\ handler[h].seen.approved = Carries[h].approved
          /\ checkpoint[Carries[h].run].approved = Carries[h].approved
          /\ audit[Carries[h].run] = Carries[h]
      BY <2>8, <3>1 DEF Finalize, HandlerOK
    <3>3. Decidable(Carries[h].run)
      BY <3>1, <3>2 DEF RunOK
    <3> QED
      BY <2>8, <3>2, <3>3 DEF Finalize, FinalStatus, Stable, Decidable
  <2> QED
    BY <1>6, <2>1, <2>2, <2>3, <2>4, <2>5, <2>6, <2>7, <2>8 DEF Handle
<1>7. ASSUME NEW h \in Handlers, Crash(h) PROVE \A s \in Runs : Stable(s)
  BY <1>7 DEF Crash, Stable, Decidable
<1>8. CASE UNCHANGED vars
  BY <1>8 DEF vars, Stable, Decidable
<1> QED
  BY <1>1, <1>2, <1>3, <1>4, <1>5, <1>6, <1>7, <1>8 DEF Next

(* A payload that can never be decided stays so (the replay of a refused   *)
(* request is refused).                                                    *)
LEMMA BarredStays ==
  ASSUME NEW h \in Handlers, \A r \in Runs : Stable(r), Barred(Carries[h])
  PROVE  Barred(Carries[h])'
<1>1. Carries[h] \in Payload /\ Carries[h].run \in Runs
  BY CarriesAssumption DEF Payload
<1> QED
  BY <1>1 DEF Barred, Stable

(* A request that takes no step keeps what it knows, whatever others do.   *)
LEMMA HandlerFrame ==
  ASSUME NEW h \in Handlers, \A r \in Runs : Stable(r), HandlerOK(h),
         handler'[h] = handler[h], TypeOK
  PROVE  HandlerOK(h)'
<1>1. Carries[h] \in Payload /\ Carries[h].run \in Runs /\ Carries[h] # NoEvent
  BY CarriesAssumption, NoEventAssumption DEF Payload
<1>2. Carries[h].approved # "none"
  BY <1>1 DEF Payload, Decisions
<1>3. Stable(Carries[h].run)
  BY <1>1
<1>4. Barred(Carries[h]) => Barred(Carries[h])'
  BY BarredStays
<1> QED
  BY <1>1, <1>2, <1>3, <1>4 DEF HandlerOK, Stable, Awaiting

(* The request that takes the step knows what its action has just read,    *)
(* and knew before what it still relies on.                                *)
LEMMA HandlerMoves ==
  ASSUME ApprovalInv, [Next]_vars, NEW h \in Handlers, Receive(h) \/ Handle(h) \/ Crash(h)
  PROVE  HandlerOK(h)'
<1> DEFINE p == Carries[h]
<1>1. p \in Payload /\ p.run \in Runs /\ p # NoEvent /\ p.approved \in Decisions
  BY CarriesAssumption, NoEventAssumption DEF Payload
<1>2. p.approved # "none"
  BY <1>1 DEF Decisions
<1>3. HandlerOK(h) /\ RunOK(p.run)
  BY <1>1 DEF ApprovalInv, HandlerInv, RunInv
<1>4. Stable(p.run) /\ \A r \in Runs : Stable(r)
  BY <1>1, StableStep
<1>5. handler \in [Handlers -> HandlerState] /\ checkpoint[p.run] \in Checkpoint
  BY <1>1 DEF ApprovalInv, TypeOK
<1> HIDE DEF p
<1>6. CASE Receive(h)
  <2>1. UNCHANGED <<audit, checkpoint, start>> /\ start[p.run] = "returned"
    BY <1>6 DEF Receive, p
  <2>2. \/ handler'[h].phase = "forbidden"
        \/ handler'[h].phase = "missing" /\ checkpoint[p.run].status = "none"
        \/ handler'[h] = [phase |-> "loaded", seen |-> checkpoint[p.run]]
    <3>1. \/ Move(h, "forbidden")
          \/ checkpoint[p.run].status = "none" /\ Move(h, "missing")
          \/ handler' = [handler EXCEPT ![h] =
                             [phase |-> "loaded", seen |-> checkpoint[p.run]]]
      BY <1>6 DEF Receive, p
    <3>2. ASSUME NEW phase, Move(h, phase) PROVE handler'[h].phase = phase
      BY <1>5, <3>2 DEF Move, HandlerState
    <3> QED
      BY <1>5, <3>1, <3>2
  <2>3. CASE handler'[h].phase = "forbidden"
    BY <2>1, <2>3 DEF HandlerOK, p
  <2>4. CASE handler'[h].phase = "missing" /\ checkpoint[p.run].status = "none"
    <3>1. Barred(p)'
      BY <2>1, <2>4 DEF Barred, Decidable
    <3> QED
      BY <2>1, <2>4, <3>1 DEF HandlerOK, p
  <2>5. CASE handler'[h] = [phase |-> "loaded", seen |-> checkpoint[p.run]]
    BY <1>3, <2>1, <2>5 DEF HandlerOK, RunOK, Decidable, Awaiting, p
  <2> QED
    BY <2>2, <2>3, <2>4, <2>5
<1>7. CASE Judge(h)
  <2>1. CASE Awaiting(handler[h].seen)
    BY <1>1, <1>3, <1>5, <1>7, <2>1 DEF Judge, Move, HandlerOK, Decidable, p
  <2>2. CASE /\ ~Awaiting(handler[h].seen)
             /\ IsIdempotentReplay(handler[h].seen, audit[p.run], p)
    BY <1>1, <1>2, <1>3, <1>5, <1>7, <2>2
    DEF Judge, Move, HandlerOK, IsIdempotentReplay, SameDecision, p
  <2>3. CASE /\ ~Awaiting(handler[h].seen)
             /\ ~IsIdempotentReplay(handler[h].seen, audit[p.run], p)
    <3>1. /\ handler'[h].phase = "conflict"
          /\ UNCHANGED <<audit, checkpoint, start>>
      BY <1>5, <1>7, <2>3 DEF Judge, Move, p
    <3>2. handler[h].phase = "loaded"
      BY <1>7 DEF Judge
    <3>3. Barred(p)
      BY <1>3, <2>3, <3>2 DEF HandlerOK, RunOK, IsIdempotentReplay, SameDecision, Barred, p
    <3>4. Barred(p)'
      BY <3>1, <3>3 DEF Barred, Decidable, p
    <3> QED
      BY <1>3, <3>1, <3>2, <3>4 DEF HandlerOK, p
  <2> QED
    BY <2>1, <2>2, <2>3
<1>8. CASE CheckExisting(h)
  <2>1. UNCHANGED <<audit, checkpoint, start>> /\ handler[h].phase = "checking"
    BY <1>8 DEF CheckExisting
  <2>2. \/ handler'[h].phase = "inserting" /\ audit[p.run] = NoEvent
        \/ handler'[h].phase = "resuming" /\ audit[p.run] = p
        \/ handler'[h].phase = "conflict" /\ Barred(p)
    BY <1>5, <1>8 DEF CheckExisting, Existing, SameDecision, Move, Barred, p
  <2>3. Barred(p) => Barred(p)'
    BY <2>1 DEF Barred, Decidable, p
  <2> QED
    BY <1>3, <2>1, <2>2, <2>3 DEF HandlerOK, Decidable, p
<1>9. CASE InsertEvent(h)
  <2>1. UNCHANGED <<checkpoint, start>> /\ handler[h].phase = "inserting"
    BY <1>9 DEF InsertEvent
  <2>2. \/ handler'[h].phase = "resuming" /\ audit'[p.run] = p
        \/ handler'[h].phase = "conflict" /\ Barred(p)
    <3>1. CASE Insertable(p)
      <4>1. audit' = [audit EXCEPT ![p.run] = p] /\ Move(h, "resuming")
        BY <1>9, <3>1 DEF InsertEvent, p
      <4>2. audit \in [Runs -> Payload \cup {NoEvent}]
        BY DEF ApprovalInv, TypeOK
      <4> QED
        BY <1>1, <1>5, <4>1, <4>2 DEF Move
    <3>2. CASE ~Insertable(p)
      <4>1. audit[p.run] # NoEvent \/ \E r \in Runs : audit[r] # NoEvent /\ audit[r].id = p.id
        BY <3>2 DEF Insertable, IdIsFree
      <4>2. audit[p.run] # p => Barred(p)
        BY <4>1 DEF Barred
      <4>3. /\ Move(h, Existing(audit[p.run], p))
            /\ UNCHANGED audit
        BY <1>9, <3>2 DEF InsertEvent, p
      <4> QED
        BY <1>5, <4>2, <4>3 DEF Existing, SameDecision, Move
    <3> QED
      BY <3>1, <3>2
  <2>3. Barred(p) => Barred(p)'
    BY <1>4, BarredStays DEF p
  <2> QED
    BY <1>3, <2>1, <2>2, <2>3 DEF HandlerOK, p
<1>10. CASE Approve(h)
  <2>1. UNCHANGED <<audit, checkpoint, start>> /\ handler[h].phase = "resuming"
    BY <1>10 DEF Approve
  <2>2. audit[p.run] = p /\ Decidable(p.run)
    BY <1>1, <1>3, <2>1 DEF HandlerOK, RunOK, p
  <2>3. \/ handler'[h].phase = "invoking"
        \/ handler'[h].phase = "rechecking" /\ checkpoint[p.run].approved = p.approved
    BY <1>3, <1>5, <1>10, <2>2 DEF Approve, Move, Awaiting, Decidable, RunOK, p
  <2> QED
    BY <1>3, <2>1, <2>2, <2>3 DEF HandlerOK, p
<1>11. CASE Recheck(h)
  BY <1>3, <1>5, <1>11 DEF Recheck, Move, IsIdempotentReplay, SameDecision, HandlerOK, p
<1>12. CASE Load(h)
  <2>1. UNCHANGED <<audit, checkpoint, start>> /\ handler[h].phase = "invoking"
    BY <1>12 DEF Load
  <2>2. audit[p.run] = p /\ Decidable(p.run)
    BY <1>1, <1>3, <2>1 DEF HandlerOK, RunOK, p
  <2>3. \/ handler'[h].phase = "deciding"
        \/ /\ handler'[h].phase \in {"finalizing", "ok"}
           /\ handler'[h].seen.approved = p.approved
           /\ checkpoint[p.run].approved = p.approved
    BY <1>3, <1>5, <1>12, <2>2 DEF Load, Decidable, RunOK, p
  <2> QED
    BY <1>3, <2>1, <2>2, <2>3 DEF HandlerOK, p
<1>13. CASE RequestApproval(h)
  BY <1>1, <1>3, <1>5, <1>13 DEF RequestApproval, HandlerOK, ApprovalInv, TypeOK, p
<1>14. CASE Finalize(h)
  BY <1>1, <1>3, <1>5, <1>14 DEF Finalize, Move, HandlerOK, ApprovalInv, TypeOK, p
<1>15. CASE Crash(h)
  BY <1>5, <1>15 DEF Crash, Idle, HandlerOK
<1> QED
  BY <1>6, <1>7, <1>8, <1>9, <1>10, <1>11, <1>12, <1>13, <1>14, <1>15 DEF Handle

(* What every request knows survives every step.                           *)
LEMMA HandlerStep ==
  ASSUME ApprovalInv, [Next]_vars
  PROVE  HandlerInv'
<1> SUFFICES ASSUME NEW h \in Handlers PROVE HandlerOK(h)'
  BY DEF HandlerInv
<1>1. CASE Receive(h) \/ Handle(h) \/ Crash(h)
  BY <1>1, HandlerMoves
<1>2. CASE ~(Receive(h) \/ Handle(h) \/ Crash(h))
  <2>1. handler'[h] = handler[h]
    <3>1. ASSUME NEW g \in Handlers, g # h, Receive(g) \/ Handle(g) \/ Crash(g)
          PROVE  handler'[h] = handler[h]
      BY <3>1 DEF Receive, Handle, Crash, Judge, CheckExisting, InsertEvent, Approve,
         Recheck, Load, RequestApproval, Finalize, Move, ApprovalInv, TypeOK
    <3>2. ASSUME NEW r \in Runs,
                 \/ StartRun(r) \/ RunNode(r) \/ StartReturns(r)
                 \/ \E stage \in Stages : StartFails(r, stage)
          PROVE  handler'[h] = handler[h]
      BY <3>2 DEF StartRun, RunNode, StartReturns, StartFails
    <3> QED
      BY <1>2, <3>1, <3>2 DEF Next, vars
  <2> QED
    BY <2>1, StableStep, HandlerFrame DEF ApprovalInv, HandlerInv
<1> QED
  BY <1>1, <1>2

(* Every step keeps the two stores and the error history consistent.       *)
LEMMA RunStep ==
  ASSUME ApprovalInv, [Next]_vars
  PROVE  RunInv'
<1> USE DEF ApprovalInv, TypeOK, RunInv
<1>1. ASSUME NEW r \in Runs, StartRun(r) PROVE RunInv'
  BY <1>1 DEF StartRun, RunOK, Decidable
<1>2. ASSUME NEW r \in Runs, RunNode(r) PROVE RunInv'
  <2>1. /\ UNCHANGED <<start, errors, audit>>
        /\ start[r] = "running"
        /\ \A s \in Runs \ {r} : checkpoint'[s] = checkpoint[s]
        /\ checkpoint'[r].approved = checkpoint[r].approved
        /\ checkpoint'[r].status \notin {"completed", "rejected"}
    BY <1>2 DEF RunNode, Checkpoint, Edges
  <2>2. audit[r] = NoEvent /\ errors[r] \ {"workflow"} = {}
    BY <2>1 DEF RunOK
  <2> QED
    BY <2>1, <2>2 DEF RunOK, Decidable
<1>3. ASSUME NEW r \in Runs, StartReturns(r) PROVE RunInv'
  BY <1>3 DEF StartReturns, RunOK, Decidable
<1>4. ASSUME NEW r \in Runs, NEW stage \in Stages, StartFails(r, stage) PROVE RunInv'
  <2>1. /\ UNCHANGED <<checkpoint, audit>>
        /\ start' = [start EXCEPT ![r] = "returned"]
        /\ errors' \in {errors, [errors EXCEPT ![r] = @ \cup {stage}]}
        /\ stage = "workflow" \/ ~Decidable(r)
        /\ start[r] = "running"
    BY <1>4 DEF StartFails, NodeStage, Decidable
  <2>2. audit[r] = NoEvent /\ errors[r] \ {"workflow"} = {}
    BY <2>1 DEF RunOK
  <2>3. RunOK(r)'
    BY <2>1, <2>2 DEF RunOK, Decidable
  <2>4. ASSUME NEW s \in Runs, s # r PROVE RunOK(s)'
    BY <2>1, <2>4 DEF RunOK, Decidable
  <2> QED
    BY <2>1, <2>3, <2>4
<1>5. ASSUME NEW h \in Handlers, Handle(h) PROVE RunInv'
  <2> DEFINE p == Carries[h]
  <2>1. p \in Payload /\ p.run \in Runs /\ p # NoEvent /\ p.approved \in Decisions
    BY CarriesAssumption, NoEventAssumption DEF Payload
  <2>2. HandlerOK(h) /\ RunOK(p.run)
    BY <2>1 DEF HandlerInv
  <2> HIDE DEF p
  <2>3. CASE UNCHANGED <<start, checkpoint, errors, audit>>
    BY <2>3 DEF RunOK, Decidable
  <2>4. CASE InsertEvent(h) /\ Insertable(p)
    <3>1. /\ UNCHANGED <<start, checkpoint, errors>>
          /\ audit' = [audit EXCEPT ![p.run] = p]
          /\ handler[h].phase = "inserting"
      BY <2>4 DEF InsertEvent, p
    <3>2. start[p.run] = "returned" /\ Decidable(p.run) /\ audit[p.run] = NoEvent
      BY <2>2, <2>4, <3>1 DEF HandlerOK, Insertable, p
    <3>3. RunOK(p.run)'
      BY <2>1, <2>2, <3>1, <3>2 DEF RunOK, Decidable
    <3>4. ASSUME NEW s \in Runs, s # p.run PROVE RunOK(s)'
      BY <3>1, <3>4 DEF RunOK, Decidable
    <3>5. ASSUME NEW r \in Runs, NEW s \in Runs, audit'[r] # NoEvent,
                 audit'[s] # NoEvent, audit'[r].id = audit'[s].id
          PROVE  r = s
      BY <2>1, <2>4, <3>1, <3>5 DEF Insertable, IdIsFree
    <3> QED
      BY <3>3, <3>4, <3>5
  <2>5. ASSUME NEW d, NEW status, d = p.approved, audit[p.run] = p,
               status \in {"pending_approval", FinalStatus(d)},
               checkpoint' = [checkpoint EXCEPT ![p.run] =
                                  [status |-> status, approved |-> d]],
               UNCHANGED <<start, errors, audit>>
        PROVE  RunInv'
    <3>1. Decidable(p.run) /\ start[p.run] = "returned"
      BY <2>1, <2>2, <2>5 DEF RunOK
    <3>2. checkpoint'[p.run] = [status |-> status, approved |-> d] /\ d \in Decisions
      BY <2>1, <2>5
    <3>3. RunOK(p.run)'
      BY <2>1, <2>2, <2>5, <3>1, <3>2 DEF RunOK, Decidable, FinalStatus, Decisions
    <3>4. ASSUME NEW s \in Runs, s # p.run PROVE RunOK(s)'
      BY <2>5, <3>4 DEF RunOK, Decidable
    <3> QED
      BY <2>5, <3>3, <3>4
  <2>6. CASE RequestApproval(h)
    BY <2>2, <2>5, <2>6 DEF RequestApproval, HandlerOK, p
  <2>7. CASE Finalize(h)
    BY <2>2, <2>5, <2>7 DEF Finalize, HandlerOK, p
  <2> QED
    BY <1>5, <2>3, <2>4, <2>6, <2>7 DEF Handle, Judge, CheckExisting, InsertEvent, Approve,
       Recheck, Load, p
<1>6. ASSUME NEW h \in Handlers, Receive(h) \/ Crash(h) PROVE RunInv'
  BY <1>6 DEF Receive, Crash, RunOK, Decidable
<1>7. CASE UNCHANGED vars
  BY <1>7 DEF vars, RunOK, Decidable
<1> QED
  BY <1>1, <1>2, <1>3, <1>4, <1>5, <1>6, <1>7 DEF Next

(* The audit table, the checkpoints, the error history and what requests   *)
(* in progress know of them are consistent at every step.                  *)
THEOREM ApprovalInvariance == Spec => []ApprovalInv
<1>1. ApprovalInv /\ [Next]_vars => ApprovalInv'
  BY TypeStep, RunStep, HandlerStep DEF ApprovalInv
<1> QED
  BY <1>1, InitInv, PTL DEF Spec

(* All requests accepted for a run carry the one decision on record.       *)
THEOREM AcceptedRequestsAgree == Spec => []AcceptedAgree
<1>1. ApprovalInv => AcceptedAgree
  BY DEF ApprovalInv, HandlerInv, HandlerOK, AcceptedAgree
<1> QED
  BY <1>1, ApprovalInvariance, PTL

(* An accepted decision is in the checkpoint, and stays there.             *)
THEOREM AcceptedRequestsApplied == Spec => []AcceptedIsApplied
<1>1. ApprovalInv => AcceptedIsApplied
  BY DEF ApprovalInv, HandlerInv, HandlerOK, AcceptedIsApplied
<1> QED
  BY <1>1, ApprovalInvariance, PTL

(* No delivery of an accepted request is refused, before or after.         *)
THEOREM RetriesNotRefused == Spec => []RetryNotRefused
<1>1. ASSUME ApprovalInv PROVE RetryNotRefused
  <2> SUFFICES ASSUME NEW h \in Handlers, NEW g \in Handlers, handler[h].phase = "ok",
                      handler[g].phase \in {"conflict", "missing"}, Carries[h] = Carries[g]
               PROVE  FALSE
    BY DEF RetryNotRefused
  <2>1. /\ Carries[h] \in Payload /\ Carries[h].run \in Runs /\ Carries[h] # NoEvent
    BY CarriesAssumption, NoEventAssumption DEF Payload
  <2>2. audit[Carries[h].run] = Carries[h] /\ Barred(Carries[h])
    BY <1>1 DEF ApprovalInv, HandlerInv, HandlerOK
  <2>3. Decidable(Carries[h].run)
    BY <1>1, <2>1, <2>2 DEF ApprovalInv, RunInv, RunOK
  <2> QED
    BY <1>1, <2>1, <2>2, <2>3 DEF Barred, ApprovalInv, RunInv
<1> QED
  BY <1>1, ApprovalInvariance, PTL

(* A run that one of its nodes failed is never decided.                    *)
THEOREM FailedRunsUndecided == Spec => []FailedRunsStayUndecided
<1>1. ApprovalInv => FailedRunsStayUndecided
  BY DEF ApprovalInv, RunInv, RunOK, FailedRunsStayUndecided
<1> QED
  BY <1>1, ApprovalInvariance, PTL

(* The two stores implement a decision that is taken once and then shown   *)
(* as it was taken.                                                        *)
THEOREM RegisterImplemented == Spec => ImplementsRegister
<1>1. Init => Register!Init
  BY DEF Init, NoThread, Register!Init
<1>2. ASSUME ApprovalInv, [Next]_vars PROVE [Register!Next]_(Register!vars)
  <2> USE DEF ApprovalInv, TypeOK
  <2>1. CASE UNCHANGED <<audit, checkpoint>>
    BY <2>1 DEF Register!vars
  <2>2. ASSUME NEW r \in Runs, RunNode(r) PROVE UNCHANGED Register!vars
    <3>1. UNCHANGED audit /\ \A s \in Runs : checkpoint'[s].approved = checkpoint[s].approved
      BY <2>2 DEF RunNode, Checkpoint
    <3> QED
      BY <3>1 DEF Register!vars
  <2>3. ASSUME NEW h \in Handlers, InsertEvent(h), Insertable(Carries[h])
        PROVE  Register!Next
    <3>1. Carries[h] \in Payload /\ Carries[h].run \in Runs /\ Carries[h] # NoEvent
          /\ Carries[h].approved \in Decisions
      BY CarriesAssumption, NoEventAssumption DEF Payload
    <3>2. /\ audit[Carries[h].run] = NoEvent /\ UNCHANGED checkpoint
          /\ audit' = [audit EXCEPT ![Carries[h].run] = Carries[h]]
      BY <2>3 DEF InsertEvent, Insertable
    <3>3. \A s \in Runs : audit'[s] = IF s = Carries[h].run THEN Carries[h] ELSE audit[s]
      BY <1>2, <3>1, <3>2
    <3>4. [r \in Runs |-> IF audit'[r] = NoEvent THEN "none" ELSE audit'[r].approved]
          = [[r \in Runs |-> IF audit[r] = NoEvent THEN "none" ELSE audit[r].approved]
                EXCEPT ![Carries[h].run] = Carries[h].approved]
      BY <3>1, <3>3
    <3>5. Register!Decide(Carries[h].run, Carries[h].approved)
      BY <3>1, <3>2, <3>4 DEF Register!Decide
    <3> QED
      BY <3>1, <3>5 DEF Register!Next, Register!Decisions, Decisions
  <2>4. ASSUME NEW h \in Handlers, RequestApproval(h) \/ Finalize(h)
        PROVE  Register!Next
    <3>1. Carries[h] \in Payload /\ Carries[h].run \in Runs /\ Carries[h] # NoEvent
          /\ Carries[h].approved \in Decisions
      BY CarriesAssumption, NoEventAssumption DEF Payload
    <3>2. HandlerOK(h)
      BY <1>2 DEF HandlerInv
    <3>3. /\ audit[Carries[h].run] = Carries[h] /\ UNCHANGED audit
          /\ \E status : checkpoint' = [checkpoint EXCEPT ![Carries[h].run] =
                                [status |-> status, approved |-> Carries[h].approved]]
      BY <2>4, <3>2 DEF RequestApproval, Finalize, HandlerOK
    <3>4. \A s \in Runs : checkpoint'[s].approved =
              IF s = Carries[h].run THEN Carries[h].approved ELSE checkpoint[s].approved
      BY <1>2, <3>1, <3>3
    <3>5. [r \in Runs |-> checkpoint'[r].approved]
          = [[r \in Runs |-> checkpoint[r].approved]
                EXCEPT ![Carries[h].run] = Carries[h].approved]
      BY <3>1, <3>4
    <3>6. Register!Publish(Carries[h].run)
      BY <3>1, <3>3, <3>5 DEF Register!Publish, Decisions
    <3> QED
      BY <3>1, <3>6 DEF Register!Next
  <2> QED
    BY <1>2, <2>1, <2>2, <2>3, <2>4 DEF Next, vars, StartRun, StartReturns, StartFails,
       Receive, Handle, Crash, Judge, CheckExisting, InsertEvent, Approve, Recheck, Load
<1> QED
  BY <1>1, <1>2, ApprovalInvariance, PTL DEF Spec, ImplementsRegister, Register!Spec
=============================================================================
