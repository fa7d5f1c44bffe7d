------------------------ MODULE CheckpointRetention ------------------------
(***************************************************************************)
(* Archiving and restoring the checkpoints of a run                        *)
(* (backend/app/agent/retention.py), next to requests that resume the run  *)
(* (workflow.approve, see ApprovalRuns).                                   *)
(*                                                                         *)
(* A thread's rows come in bundles, one per put of LangGraph.  For each    *)
(* node it runs it first commits what the node returned to                 *)
(* checkpoint_writes, and then, in another transaction, a row of           *)
(* checkpoints with its blobs.  The run up to its interrupt is step 0,     *)
(* request_approval and finalize are steps 1 and 2; a later checkpoint     *)
(* refers to blobs of step 0 and does not repeat them.  Archive and        *)
(* restore each run in one transaction under a SHARE ROW EXCLUSIVE lock on *)
(* the three tables, which holds up the writes of LangGraph but not its    *)
(* reads; a resumed run works on what it has read before its first write.  *)
(***************************************************************************)
EXTENDS Integers, FiniteSets

CONSTANTS
    Threads,      \* thread ids (run ids)
    Resumers,     \* approval requests that resume a thread
    Operators,    \* archive and restore requests
    None,         \* no thread, no operator
    RetainDays,   \* older_than_days
    MaxDays,      \* bound: days that pass
    MaxArchives   \* bound: manifests ever written

ASSUME NoneAssumption == None \notin Threads \cup Operators
ASSUME BoundsAssumption ==
    /\ RetainDays \in Nat \ {0}
    /\ MaxDays \in Nat
    /\ MaxArchives \in Nat \ {0}

VARIABLES
    today,     \* the database's date
    source,    \* the live bundles of each thread
    written,   \* every bundle LangGraph ever put on each thread
    archives,  \* agent_checkpoint_archives and its payload tables
    lock,      \* the operator whose transaction holds the table lock
    operator,  \* what each archive or restore request is doing
    resumer    \* what each approval request is doing

vars == <<today, source, written, archives, lock, operator, resumer>>

(* checkpoint_writes has no column created_at: 0 stands for nothing.       *)
Bundle == [no : Nat \ {0}, kind : {"writes", "checkpoint"}, step : 0..2,
           created_at : 0..MaxDays]

ArchiveIds == 1..MaxArchives

Archive == [thread : Threads \cup {None},
            status : {"free", "archived", "restored"},
            payload : SUBSET Bundle]

OperatorState ==
    [phase : {"ready", "waiting", "counted", "copied", "restoring",
              "done", "refused", "mismatch"},
     thread : Threads \cup {None},
     cutoff : Int,
     expected : Nat,
     copied : SUBSET Bundle,
     archive : ArchiveIds \cup {0}]

ResumerState == [phase : {"idle", "deciding", "finalizing", "done"},
                 wrote : BOOLEAN,
                 thread : Threads \cup {None}]

FreeArchive == [thread |-> None, status |-> "free", payload |-> {}]

Ready == [phase |-> "ready", thread |-> None, cutoff |-> 0,
          expected |-> 0, copied |-> {}, archive |-> 0]

Answered(phase) == [Ready EXCEPT !.phase = phase]

(* Every run has just come to its interrupt.                               *)
Init ==
    /\ today = 0
    /\ source = [t \in Threads |->
          {[no |-> 1, kind |-> "checkpoint", step |-> 0, created_at |-> 0]}]
    /\ written = source
    /\ archives = [a \in ArchiveIds |-> FreeArchive]
    /\ lock = None
    /\ operator = [o \in Operators |-> Ready]
    /\ resumer = [r \in Resumers |-> [phase |-> "idle", wrote |-> FALSE, thread |-> None]]

-----------------------------------------------------------------------------
(* Resuming a run: LangGraph reads the latest checkpoint of the thread     *)
(* once, then puts the writes and the checkpoint of each node it runs.  A  *)
(* request that dies takes no further step.                                *)

Checkpoints(t) == {b \in source[t] : b.kind = "checkpoint"}

Latest(t) == CHOOSE b \in Checkpoints(t) : \A c \in Checkpoints(t) : c.no <= b.no

LoadThread(r, t) ==
    /\ resumer[r].phase = "idle"
    /\ Checkpoints(t) # {}
    /\ Latest(t).step # 2
    /\ resumer' = [resumer EXCEPT ![r] =
          [phase |-> IF Latest(t).step = 0 THEN "deciding" ELSE "finalizing",
           wrote |-> FALSE, thread |-> t]]
    /\ UNCHANGED <<today, source, written, archives, lock, operator>>

(* A bug to catch: a lock mode that lets the puts of LangGraph through.    *)
OnlyReadersLocked == FALSE

TablesLocked == lock # None

Put(r, kind, step) ==
    LET t == resumer[r].thread
        b == [no |-> Cardinality(written[t]) + 1, kind |-> kind, step |-> step,
              created_at |-> IF kind = "checkpoint" THEN today ELSE 0] IN
    /\ ~TablesLocked
    /\ source' = [source EXCEPT ![t] = @ \cup {b}]
    /\ written' = [written EXCEPT ![t] = @ \cup {b}]
    /\ UNCHANGED <<today, archives, lock, operator>>

PutWrites(r) ==
    /\ resumer[r].phase \in {"deciding", "finalizing"}
    /\ ~resumer[r].wrote
    /\ Put(r, "writes", IF resumer[r].phase = "deciding" THEN 1 ELSE 2)
    /\ resumer' = [resumer EXCEPT ![r].wrote = TRUE]

RequestApproval(r) ==
    /\ resumer[r].phase = "deciding"
    /\ resumer[r].wrote
    /\ Put(r, "checkpoint", 1)
    /\ resumer' = [resumer EXCEPT ![r].phase = "finalizing", ![r].wrote = FALSE]

Finalize(r) ==
    /\ resumer[r].phase = "finalizing"
    /\ resumer[r].wrote
    /\ Put(r, "checkpoint", 2)
    /\ resumer' = [resumer EXCEPT ![r].phase = "done"]

-----------------------------------------------------------------------------
(* archive_thread: the cutoff is computed, the tables are locked, then an  *)
(* active manifest, the counts and the age of the checkpoints are looked   *)
(* up; copy, compare; delete, compare, commit.  A request that is refused  *)
(* (an archive is active, no checkpoint, too recent; for a restore: it is  *)
(* restored, or the thread is live) has changed nothing.                   *)

Between(o) ==
    operator[o].phase \notin {"waiting", "counted", "copied", "restoring"}

BeginArchive(o, t) ==
    /\ Between(o)
    /\ \E a \in ArchiveIds : archives[a].status = "free"
    /\ operator' = [operator EXCEPT ![o] =
          [Ready EXCEPT !.phase = "waiting", !.thread = t, !.cutoff = today - RetainDays]]
    /\ UNCHANGED <<today, source, written, archives, lock, resumer>>

Active(a, t) == archives[a].thread = t /\ archives[a].status = "archived"

(* A bug to catch: only the live rows are looked up, not the manifests.    *)
NeverActive(t) == FALSE

HasActive(t) == \E a \in ArchiveIds : Active(a, t)

(* A bug to catch: the age of the oldest checkpoint instead of the latest. *)
FirstIsOld(t, cutoff) == \E b \in Checkpoints(t) : b.created_at < cutoff

OldEnough(t, cutoff) == \A b \in Checkpoints(t) : b.created_at < cutoff

MayArchive(t, cutoff) ==
    ~HasActive(t) /\ Checkpoints(t) # {} /\ OldEnough(t, cutoff)

LockAndCount(o) ==
    LET t == operator[o].thread IN
    /\ operator[o].phase = "waiting"
    /\ lock = None
    /\ \/ /\ ~MayArchive(t, operator[o].cutoff)
          /\ operator' = [operator EXCEPT ![o] = Answered("refused")]
          /\ UNCHANGED lock
       \/ /\ MayArchive(t, operator[o].cutoff)
          /\ operator' = [operator EXCEPT ![o].phase = "counted",
                                          ![o].expected = Cardinality(source[t])]
          /\ lock' = o
    /\ UNCHANGED <<today, source, written, archives, resumer>>

Rollback(o, phase) ==
    /\ operator' = [operator EXCEPT ![o] = Answered(phase)]
    /\ lock' = None
    /\ UNCHANGED <<source, archives>>

CountAgrees(o) == Cardinality(source[operator[o].thread]) = operator[o].expected

CopyToArchive(o) ==
    /\ operator[o].phase = "counted"
    /\ IF CountAgrees(o)
       THEN /\ operator' = [operator EXCEPT ![o].phase = "copied",
                                            ![o].copied = source[operator[o].thread]]
            /\ UNCHANGED <<source, archives, lock>>
       ELSE Rollback(o, "mismatch")
    /\ UNCHANGED <<today, written, resumer>>

DeleteSource(o) ==
    LET t == operator[o].thread
        manifest == [thread |-> t, status |-> "archived", payload |-> operator[o].copied] IN
    /\ operator[o].phase = "copied"
    /\ IF CountAgrees(o)
       THEN /\ \E a \in ArchiveIds : /\ archives[a].status = "free"
                                     /\ archives' = [archives EXCEPT ![a] = manifest]
            /\ source' = [source EXCEPT ![t] = {}]
            /\ operator' = [operator EXCEPT ![o] = Answered("done")]
            /\ lock' = None
       ELSE Rollback(o, "mismatch")
    /\ UNCHANGED <<today, written, resumer>>

-----------------------------------------------------------------------------
(* restore_archive: the tables are locked, the manifest is read, and the   *)
(* restore is refused when any row of the thread is live; copy back, mark  *)
(* restored, commit.                                                       *)

(* A bug to catch: only live checkpoints are in the way of a restore.      *)
CheckpointExists(t) == Checkpoints(t) # {}

SourceExists(t) == source[t] # {}

MayRestore(a) ==
    archives[a].status = "archived" /\ ~SourceExists(archives[a].thread)

LockAndCheck(o, a) ==
    /\ Between(o)
    /\ archives[a].status # "free"
    /\ lock = None
    /\ \/ /\ ~MayRestore(a)
          /\ operator' = [operator EXCEPT ![o] = Answered("refused")]
          /\ UNCHANGED lock
       \/ /\ MayRestore(a)
          /\ operator' = [operator EXCEPT ![o] =
                [Ready EXCEPT !.phase = "restoring", !.archive = a]]
          /\ lock' = o
    /\ UNCHANGED <<today, source, written, archives, resumer>>

(* A bug to catch: a manifest marked restored without its payload.         *)
RestoreManifest(o) ==
    LET a == operator[o].archive IN
    /\ operator[o].phase = "restoring"
    /\ archives' = [archives EXCEPT ![a].status = "restored"]
    /\ operator' = [operator EXCEPT ![o] = Answered("done")]
    /\ lock' = None
    /\ UNCHANGED <<today, source, written, resumer>>

CopyToSource(o) ==
    LET a == operator[o].archive IN
    /\ operator[o].phase = "restoring"
    /\ source' = [source EXCEPT ![archives[a].thread] = @ \cup archives[a].payload]
    /\ archives' = [archives EXCEPT ![a].status = "restored"]
    /\ operator' = [operator EXCEPT ![o] = Answered("done")]
    /\ lock' = None
    /\ UNCHANGED <<today, written, resumer>>

(* A statement fails or the process dies: the transaction rolls back.      *)
Abort(o) ==
    /\ lock = o
    /\ Rollback(o, "ready")
    /\ UNCHANGED <<today, written, resumer>>

DayPasses ==
    /\ today < MaxDays
    /\ today' = today + 1
    /\ UNCHANGED <<source, written, archives, lock, operator, resumer>>

-----------------------------------------------------------------------------
Operate(o) ==
    \/ \E t \in Threads : BeginArchive(o, t)
    \/ \E a \in ArchiveIds : LockAndCheck(o, a)
    \/ LockAndCount(o) \/ CopyToArchive(o) \/ DeleteSource(o) \/ CopyToSource(o) \/ Abort(o)

Resume(r) ==
    \/ \E t \in Threads : LoadThread(r, t)
    \/ PutWrites(r) \/ RequestApproval(r) \/ Finalize(r)

Next == \/ DayPasses
        \/ \E o \in Operators : Operate(o)
        \/ \E r \in Resumers : Resume(r)

Spec == Init /\ [][Next]_vars

-----------------------------------------------------------------------------
(* Every variable has its type.                                            *)
TypeOK ==
    /\ today \in 0..MaxDays
    /\ source \in [Threads -> SUBSET Bundle]
    /\ written \in [Threads -> SUBSET Bundle]
    /\ archives \in [ArchiveIds -> Archive]
    /\ lock \in Operators \cup {None}
    /\ operator \in [Operators -> OperatorState]
    /\ resumer \in [Resumers -> ResumerState]

(* Whatever LangGraph has put on a thread is live or in an archive that    *)
(* can still be restored, whoever archives, restores, dies or resumes.     *)
NothingLost ==
    \A t \in Threads : \A b \in written[t] :
        b \in source[t] \/ \E a \in ArchiveIds : Active(a, t) /\ b \in archives[a].payload

(* The table lock makes the comparisons of row counts succeed: no archive  *)
(* is ever refused because rows changed under it (_lock_checkpoint_tables).*)
CountsAgree == \A o \in Operators : operator[o].phase # "mismatch"

(* Under the lock, what an archive or a restore has read is still so, and  *)
(* nobody else is between its lock and its commit.                         *)
LockInv ==
    \A o \in Operators :
        LET op == operator[o] IN
        /\ lock = o <=> op.phase \in {"counted", "copied", "restoring"}
        /\ op.phase \in {"counted", "copied"} =>
              /\ ~HasActive(op.thread)
              /\ Checkpoints(op.thread) # {} /\ OldEnough(op.thread, op.cutoff)
              /\ op.expected = Cardinality(source[op.thread])
        /\ op.phase = "copied" => op.copied = source[op.thread]
        /\ op.phase = "restoring" =>
              archives[op.archive].status = "archived" /\ source[archives[op.archive].thread] = {}

(* A bundle number is used once; a live bundle was written; an archive     *)
(* holds at least one bundle, all written; a thread has one active archive *)
(* at most.                                                                *)
RowsInv ==
    /\ \A t \in Threads :
          /\ source[t] \subseteq written[t]
          /\ IsFiniteSet(written[t])
          /\ \A b \in written[t] : b.no \in 1..Cardinality(written[t])
          /\ \A b, c \in written[t] : b.no = c.no => b = c
    /\ \A a \in ArchiveIds : archives[a].status # "free" =>
          /\ archives[a].thread \in Threads
          /\ archives[a].payload # {} /\ archives[a].payload \subseteq written[archives[a].thread]
    /\ \A a, b \in ArchiveIds : \A t \in Threads : Active(a, t) /\ Active(b, t) => a = b

(* A request that waits for the lock or holds it, or resumes, names what   *)
(* exists; the cutoff of an archive is never later than the period allows. *)
RequestInv ==
    /\ \A o \in Operators :
          LET op == operator[o] IN
          /\ op.phase \in {"waiting", "counted", "copied"} =>
                op.thread \in Threads /\ op.cutoff + RetainDays <= today
          /\ op.phase = "restoring" => op.archive \in ArchiveIds
    /\ \A r \in Resumers :
          resumer[r].phase \in {"deciding", "finalizing"} => resumer[r].thread \in Threads

(* Between lock and commit, archive_thread and restore_archive act on what *)
(* they have read, and the rows they move were all put by LangGraph.       *)
RetentionInv == TypeOK /\ LockInv /\ RowsInv /\ RequestInv

(* A thread loses live rows only when it has checkpoints and all of them   *)
(* are older than the retention period, however long the archive waited    *)
(* for its lock.  Its rows of checkpoint_writes may be of any age: those   *)
(* of a resume that has not come to its checkpoint go with the thread.     *)
OnlyOldThreadsLeave ==
    [][\A t \in Threads :
          \/ source[t] \subseteq source'[t]
          \/ /\ Checkpoints(t) # {}
             /\ \A b \in Checkpoints(t) : b.created_at + RetainDays < today]_vars

(* A thread has at most one archive that can be restored.                  *)
OneActiveArchive ==
    \A t \in Threads : Cardinality({a \in ArchiveIds : Active(a, t)}) <= 1

(* A restore brings back the thread exactly as it was archived, and never  *)
(* on top of live rows.                                                    *)
RestoreIsExact ==
    [][\A a \in ArchiveIds :
          (archives[a].status = "archived" /\ archives'[a].status = "restored")
          => source'[archives[a].thread] = archives[a].payload]_vars
=============================================================================
