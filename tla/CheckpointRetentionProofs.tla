---------------------- MODULE CheckpointRetentionProofs ----------------------
(***************************************************************************)
(* Proofs about CheckpointRetention: RetentionInv is inductive, and with   *)
(* it no bundle is lost, row counts agree, only old threads leave and a    *)
(* restore is exact, for any number of threads, operators and requests.    *)
(***************************************************************************)
EXTENDS CheckpointRetention, FiniteSetTheorems, TLAPS

(* The initial state satisfies the invariant: one bundle per thread.       *)
LEMMA InitInv == Init => RetentionInv
<1> SUFFICES ASSUME Init PROVE RetentionInv
  OBVIOUS
<1> USE NoneAssumption, BoundsAssumption DEF Init
<1> DEFINE first == [no |-> 1, kind |-> "checkpoint", step |-> 0, created_at |-> 0]
<1>1. first \in Bundle
  BY DEF Bundle
<1>2. TypeOK
  BY <1>1 DEF TypeOK, Archive, FreeArchive, OperatorState, Ready, ResumerState
<1>3. LockInv
  BY DEF LockInv, Ready
<1>4. RowsInv
  <2>1. \A t \in Threads : /\ written[t] = {first} /\ source[t] = {first}
                           /\ IsFiniteSet(written[t]) /\ Cardinality(written[t]) = 1
    BY FS_Singleton
  <2> QED
    BY <2>1 DEF RowsInv, FreeArchive, Active
<1>5. RequestInv
  BY DEF RequestInv, Ready
<1> QED
  BY <1>2, <1>3, <1>4, <1>5 DEF RetentionInv

(* The count of rows that archive_thread keeps is a number.                *)
LEMMA SourceFinite ==
  ASSUME RetentionInv, NEW t \in Threads
  PROVE  IsFiniteSet(source[t]) /\ Cardinality(source[t]) \in Nat
<1>1. source[t] \in SUBSET written[t] /\ IsFiniteSet(written[t])
  BY DEF RetentionInv, RowsInv
<1> QED
  BY <1>1, FS_Subset, FS_CardinalityType

(* The bundle of a put is new, and numbered after all others.              *)
NewBundle(t, kind, step) ==
    [no |-> Cardinality(written[t]) + 1, kind |-> kind, step |-> step,
     created_at |-> IF kind = "checkpoint" THEN today ELSE 0]

LEMMA BundleIsNew ==
  ASSUME RetentionInv, NEW t \in Threads, NEW kind \in {"writes", "checkpoint"},
         NEW step \in 0..2
  PROVE  LET n == Cardinality(written[t])
             b == NewBundle(t, kind, step) IN
         /\ n \in Nat /\ b \in Bundle /\ b.no = n + 1 /\ b \notin written[t]
         /\ IsFiniteSet(written[t] \cup {b})
         /\ Cardinality(written[t] \cup {b}) = n + 1
<1> DEFINE n == Cardinality(written[t])
           b == NewBundle(t, kind, step)
           c == IF kind = "checkpoint" THEN today ELSE 0
<1>1. IsFiniteSet(written[t]) /\ \A d \in written[t] : d.no \in 1..n
  BY DEF RetentionInv, RowsInv
<1>2. n \in Nat
  BY <1>1, FS_CardinalityType
<1>3. c \in 0..MaxDays
  BY BoundsAssumption DEF RetentionInv, TypeOK
<1>4. b = [no |-> n + 1, kind |-> kind, step |-> step, created_at |-> c]
  BY DEF NewBundle
<1> HIDE DEF b, c
<1>5. b \in Bundle /\ b.no = n + 1
  BY <1>2, <1>3, <1>4 DEF Bundle
<1>6. b \notin written[t]
  BY <1>1, <1>2, <1>5
<1> QED
  BY <1>1, <1>2, <1>5, <1>6, FS_AddElement DEF b

(* The puts of LangGraph, whatever node makes them.                        *)
Puts(r) == PutWrites(r) \/ RequestApproval(r) \/ Finalize(r)

LEMMA PutsBundle ==
  ASSUME RetentionInv, NEW r \in Resumers, Puts(r)
  PROVE  /\ resumer[r].thread \in Threads
         /\ \E kind \in {"writes", "checkpoint"}, step \in 0..2 :
               LET t == resumer[r].thread
                   b == NewBundle(t, kind, step) IN
               /\ ~TablesLocked
               /\ source' = [source EXCEPT ![t] = @ \cup {b}]
               /\ written' = [written EXCEPT ![t] = @ \cup {b}]
               /\ UNCHANGED <<today, archives, lock, operator>>
<1>1. \E kind \in {"writes", "checkpoint"}, step \in 0..2 : Put(r, kind, step)
  BY DEF Puts, PutWrites, RequestApproval, Finalize
<1> QED
  BY <1>1 DEF Puts, PutWrites, RequestApproval, Finalize, Put, NewBundle,
              RetentionInv, RequestInv

(* What an operator is left with at the end of its request, and what a     *)
(* restore begins with.                                                    *)
Checking(a) == [Ready EXCEPT !.phase = "restoring", !.archive = a]

LEMMA AnsweredState ==
  ASSUME NEW phase \in {"ready", "done", "refused", "mismatch"}
  PROVE  Answered(phase) \in OperatorState /\ Answered(phase).phase = phase
BY NoneAssumption DEF Answered, Ready, OperatorState

LEMMA CheckingState ==
  ASSUME NEW a \in ArchiveIds
  PROVE  /\ Checking(a) \in OperatorState
         /\ Checking(a).phase = "restoring" /\ Checking(a).archive = a
<1>1. Ready \in OperatorState
  BY DEF Ready, OperatorState
<1> QED
  BY <1>1 DEF Checking, OperatorState

(* Every operation keeps the types.                                        *)
LEMMA TypeStep ==
  ASSUME RetentionInv, [Next]_vars
  PROVE  TypeOK'
<1> USE NoneAssumption, BoundsAssumption DEF RetentionInv, TypeOK
<1>1. CASE DayPasses
  BY <1>1 DEF DayPasses
<1>2. ASSUME NEW o \in Operators, NEW t \in Threads, BeginArchive(o, t) PROVE TypeOK'
  <2>1. today - RetainDays \in Int
    OBVIOUS
  <2> QED
    BY <1>2, <2>1 DEF BeginArchive, OperatorState, Ready
<1>3. ASSUME NEW o \in Operators, LockAndCount(o) PROVE TypeOK'
  <2>1. operator[o].phase = "waiting" /\ operator[o].thread \in Threads
    BY <1>3 DEF LockAndCount, RequestInv
  <2>2. Cardinality(source[operator[o].thread]) \in Nat
    BY <2>1, SourceFinite
  <2> QED
    BY <1>3, <2>2, AnsweredState DEF LockAndCount, OperatorState
<1>4. ASSUME NEW o \in Operators, CopyToArchive(o) PROVE TypeOK'
  <2>1. operator[o].phase = "counted" /\ operator[o].thread \in Threads
    BY <1>4 DEF CopyToArchive, RequestInv
  <2>2. source[operator[o].thread] \in SUBSET Bundle
    BY <2>1
  <2>3. [operator[o] EXCEPT !.phase = "copied", !.copied = source[operator[o].thread]]
            \in OperatorState
    BY <2>2 DEF OperatorState
  <2>4. operator' \in [Operators -> OperatorState]
    BY <1>4, <2>3, AnsweredState DEF CopyToArchive, Rollback
  <2> QED
    BY <1>4, <2>4 DEF CopyToArchive, Rollback
<1>5. ASSUME NEW o \in Operators, DeleteSource(o) PROVE TypeOK'
  <2>1. operator[o].phase = "copied" /\ operator[o].thread \in Threads
        /\ operator[o].copied \in SUBSET Bundle
    BY <1>5 DEF DeleteSource, RequestInv, OperatorState
  <2>2. [thread |-> operator[o].thread, status |-> "archived",
         payload |-> operator[o].copied] \in Archive
    BY <2>1 DEF Archive
  <2> QED
    BY <1>5, <2>1, <2>2, AnsweredState DEF DeleteSource, Rollback
<1>6. ASSUME NEW o \in Operators, NEW a \in ArchiveIds, LockAndCheck(o, a) PROVE TypeOK'
  <2>1. \/ operator' = [operator EXCEPT ![o] = Checking(a)]
        \/ operator' = [operator EXCEPT ![o] = Answered("refused")]
    BY <1>6 DEF LockAndCheck, Checking
  <2>2. lock' \in Operators \cup {None}
    BY <1>6 DEF LockAndCheck
  <2> QED
    BY <1>6, <2>1, <2>2, CheckingState, AnsweredState DEF LockAndCheck
<1>7. ASSUME NEW o \in Operators, CopyToSource(o) PROVE TypeOK'
  <2>1. operator[o].phase = "restoring" /\ operator[o].archive \in ArchiveIds
    BY <1>7 DEF CopyToSource, RequestInv
  <2>2. archives[operator[o].archive] \in Archive
    BY <2>1
  <2>3. archives' \in [ArchiveIds -> Archive]
    BY <1>7, <2>2 DEF CopyToSource, Archive
  <2>4. source' \in [Threads -> SUBSET Bundle]
    BY <1>7, <2>2 DEF CopyToSource, Archive
  <2>5. operator' \in [Operators -> OperatorState]
    BY <1>7, AnsweredState DEF CopyToSource
  <2> QED
    BY <1>7, <2>3, <2>4, <2>5 DEF CopyToSource
<1>8. ASSUME NEW o \in Operators, Abort(o) PROVE TypeOK'
  BY <1>8, AnsweredState DEF Abort, Rollback
<1>9. ASSUME NEW r \in Resumers, NEW t \in Threads, LoadThread(r, t) PROVE TypeOK'
  BY <1>9 DEF LoadThread, ResumerState
<1>10. ASSUME NEW r \in Resumers, Puts(r) PROVE TypeOK'
  <2>1. resumer[r].thread \in Threads
    BY <1>10, PutsBundle
  <2>2. PICK b \in Bundle :
            /\ source' = [source EXCEPT ![resumer[r].thread] = @ \cup {b}]
            /\ written' = [written EXCEPT ![resumer[r].thread] = @ \cup {b}]
            /\ UNCHANGED <<today, archives, lock, operator>>
    BY <1>10, <2>1, PutsBundle, BundleIsNew
  <2>3. resumer' \in [Resumers -> ResumerState]
    <3>1. CASE PutWrites(r)
      BY <3>1 DEF PutWrites, ResumerState
    <3>2. CASE RequestApproval(r)
      BY <3>2 DEF RequestApproval, ResumerState
    <3>3. CASE Finalize(r)
      BY <3>3 DEF Finalize, ResumerState
    <3> QED
      BY <1>10, <3>1, <3>2, <3>3 DEF Puts
  <2> QED
    BY <2>1, <2>2, <2>3
<1>11. CASE UNCHANGED vars
  BY <1>11 DEF vars
<1> QED
  BY <1>1, <1>2, <1>3, <1>4, <1>5, <1>6, <1>7, <1>8, <1>9, <1>10, <1>11
     DEF Next, Operate, Resume, Puts

(* Who waits for the lock or resumes still names what exists.              *)
LEMMA RequestStep ==
  ASSUME RetentionInv, [Next]_vars
  PROVE  RequestInv'
<1>0. /\ today \in Int /\ RetainDays \in Int
      /\ operator \in [Operators -> OperatorState]
      /\ resumer \in [Resumers -> ResumerState]
      /\ RequestInv
  BY BoundsAssumption DEF RetentionInv, TypeOK
<1> USE <1>0 DEF RequestInv, OperatorState, ResumerState
<1>1. CASE DayPasses
  BY <1>1 DEF DayPasses
<1>2. ASSUME NEW o \in Operators, NEW t \in Threads, BeginArchive(o, t) PROVE RequestInv'
  BY <1>2 DEF BeginArchive, Ready
<1>3. ASSUME NEW o \in Operators, LockAndCount(o) PROVE RequestInv'
  BY <1>3, AnsweredState DEF LockAndCount
<1>4. ASSUME NEW o \in Operators, CopyToArchive(o) PROVE RequestInv'
  BY <1>4, AnsweredState DEF CopyToArchive, Rollback
<1>5. ASSUME NEW o \in Operators, DeleteSource(o) PROVE RequestInv'
  BY <1>5, AnsweredState DEF DeleteSource, Rollback
<1>6. ASSUME NEW o \in Operators, NEW a \in ArchiveIds, LockAndCheck(o, a) PROVE RequestInv'
  <2>1. \/ operator' = [operator EXCEPT ![o] = Checking(a)]
        \/ operator' = [operator EXCEPT ![o] = Answered("refused")]
    BY <1>6 DEF LockAndCheck, Checking
  <2> QED
    BY <1>6, <2>1, CheckingState, AnsweredState DEF LockAndCheck
<1>7. ASSUME NEW o \in Operators, CopyToSource(o) PROVE RequestInv'
  BY <1>7, AnsweredState DEF CopyToSource
<1>8. ASSUME NEW o \in Operators, Abort(o) PROVE RequestInv'
  BY <1>8, AnsweredState DEF Abort, Rollback
<1>9. ASSUME NEW r \in Resumers, NEW t \in Threads, LoadThread(r, t) PROVE RequestInv'
  BY <1>9 DEF LoadThread
<1>10. ASSUME NEW r \in Resumers, Puts(r) PROVE RequestInv'
  BY <1>10 DEF Puts, PutWrites, RequestApproval, Finalize, Put
<1>11. CASE UNCHANGED vars
  BY <1>11 DEF vars
<1> QED
  BY <1>1, <1>2, <1>3, <1>4, <1>5, <1>6, <1>7, <1>8, <1>9, <1>10, <1>11
     DEF Next, Operate, Resume, Puts

(* An operation that moves no rows keeps them in order.                    *)
LEMMA RowsFrame ==
  ASSUME RowsInv, UNCHANGED <<source, written, archives>>
  PROVE  RowsInv'
BY DEF RowsInv, Active

(* A put adds a bundle with a new number to a thread.                      *)
LEMMA RowsPut ==
  ASSUME RetentionInv, NEW r \in Resumers, Puts(r)
  PROVE  RowsInv'
<1> DEFINE t == resumer[r].thread
           n == Cardinality(written[t])
<1>1. t \in Threads
  BY PutsBundle
<1>2. PICK kind \in {"writes", "checkpoint"}, step \in 0..2 :
          LET b == NewBundle(t, kind, step) IN
          /\ source' = [source EXCEPT ![t] = @ \cup {b}]
          /\ written' = [written EXCEPT ![t] = @ \cup {b}]
          /\ archives' = archives
  BY PutsBundle
<1> DEFINE b == NewBundle(t, kind, step)
<1>3. /\ n \in Nat /\ b \notin written[t] /\ b.no = n + 1
      /\ IsFiniteSet(written[t] \cup {b})
      /\ Cardinality(written[t] \cup {b}) = n + 1
  BY <1>1, BundleIsNew
<1>4. /\ source' = [source EXCEPT ![t] = @ \cup {b}]
      /\ written' = [written EXCEPT ![t] = @ \cup {b}]
      /\ archives' = archives
  BY <1>2
<1>5. /\ RowsInv
      /\ source \in [Threads -> SUBSET Bundle] /\ written \in [Threads -> SUBSET Bundle]
  BY DEF RetentionInv, TypeOK
<1>6. /\ source'[t] = source[t] \cup {b} /\ written'[t] = written[t] \cup {b}
      /\ \A u \in Threads \ {t} : source'[u] = source[u] /\ written'[u] = written[u]
  BY <1>1, <1>4, <1>5
<1>7. /\ source[t] \subseteq written[t]
      /\ \A c \in written[t] : c.no \in 1..n
      /\ \A c, d \in written[t] : c.no = d.no => c = d
  BY <1>1, <1>5 DEF RowsInv
<1> HIDE DEF t, n, b
<1>8. ASSUME NEW u \in Threads
      PROVE  /\ source'[u] \subseteq written'[u]
             /\ IsFiniteSet(written'[u])
             /\ \A c \in written'[u] : c.no \in 1..Cardinality(written'[u])
             /\ \A c, d \in written'[u] : c.no = d.no => c = d
  <2>1. CASE u = t
    <3>1. written'[t] = written[t] \cup {b} /\ Cardinality(written'[t]) = n + 1
      BY <1>3, <1>6
    <3>2. \A c \in written'[t] : c.no \in 1..(n + 1)
      BY <3>1, <1>3, <1>7
    <3>3. \A c, d \in written'[t] : c.no = d.no => c = d
      BY <3>1, <1>3, <1>7
    <3>4. source'[t] \subseteq written'[t] /\ IsFiniteSet(written'[t])
      BY <1>3, <1>6, <1>7
    <3> QED
      BY <2>1, <3>1, <3>2, <3>3, <3>4
  <2>2. CASE u # t
    BY <2>2, <1>5, <1>6 DEF RowsInv
  <2> QED
    BY <2>1, <2>2
<1>9. \A u \in Threads : written[u] \subseteq written'[u]
  BY <1>6
<1> QED
  BY <1>4, <1>5, <1>8, <1>9 DEF RowsInv, Active

(* The rows an archive takes were written, and its thread had no other.    *)
LEMMA RowsDelete ==
  ASSUME RetentionInv, NEW o \in Operators, DeleteSource(o)
  PROVE  RowsInv'
<1> DEFINE t == operator[o].thread
           manifest == [thread |-> t, status |-> "archived", payload |-> operator[o].copied]
<1>1. t \in Threads /\ operator[o].phase = "copied"
  BY DEF DeleteSource, RetentionInv, RequestInv
<1>2. /\ ~HasActive(t) /\ CountAgrees(o)
      /\ source[t] # {} /\ operator[o].copied = source[t]
  BY <1>1 DEF RetentionInv, LockInv, CountAgrees, Checkpoints
<1>3. PICK a \in ArchiveIds : /\ archives[a].status = "free"
                              /\ archives' = [archives EXCEPT ![a] = manifest]
  BY <1>2 DEF DeleteSource
<1>4. source' = [source EXCEPT ![t] = {}] /\ written' = written
  BY <1>2 DEF DeleteSource
<1>5. /\ RowsInv /\ source \in [Threads -> SUBSET Bundle]
      /\ archives \in [ArchiveIds -> Archive]
  BY DEF RetentionInv, TypeOK
<1>6. /\ archives'[a] = manifest
      /\ \A b \in ArchiveIds \ {a} : archives'[b] = archives[b]
  BY <1>3, <1>5
<1>7. /\ source'[t] = {}
      /\ \A u \in Threads \ {t} : source'[u] = source[u]
  BY <1>1, <1>4, <1>5
<1>8. \A u \in Threads :
          /\ source'[u] \subseteq written'[u]
          /\ IsFiniteSet(written'[u])
          /\ \A b \in written'[u] : b.no \in 1..Cardinality(written'[u])
          /\ \A b, c \in written'[u] : b.no = c.no => b = c
  BY <1>4, <1>5, <1>7 DEF RowsInv
<1>9. \A b \in ArchiveIds : archives'[b].status # "free" =>
          /\ archives'[b].thread \in Threads
          /\ archives'[b].payload # {}
          /\ archives'[b].payload \subseteq written'[archives'[b].thread]
  BY <1>1, <1>2, <1>4, <1>5, <1>6 DEF RowsInv
<1>10. ASSUME NEW b \in ArchiveIds, NEW c \in ArchiveIds, NEW u \in Threads,
              Active(b, u)', Active(c, u)'
       PROVE  b = c
  <2>1. \A d \in ArchiveIds : Active(d, u)' => (d = a /\ u = t) \/ (d # a /\ Active(d, u))
    BY <1>6 DEF Active
  <2> QED
    BY <2>1, <1>10, <1>2, <1>5 DEF RowsInv, HasActive
<1> QED
  BY <1>8, <1>9, <1>10 DEF RowsInv

(* A restore moves a payload back, which was written.                      *)
LEMMA RowsRestore ==
  ASSUME RetentionInv, NEW o \in Operators, CopyToSource(o)
  PROVE  RowsInv'
<1> DEFINE a == operator[o].archive
           t == archives[a].thread
<1>1. a \in ArchiveIds /\ operator[o].phase = "restoring"
  BY DEF CopyToSource, RetentionInv, RequestInv
<1>2. archives[a].status = "archived"
  BY <1>1 DEF RetentionInv, LockInv
<1>3. /\ source' = [source EXCEPT ![t] = @ \cup archives[a].payload]
      /\ archives' = [archives EXCEPT ![a].status = "restored"]
      /\ written' = written
  BY DEF CopyToSource
<1>4. /\ RowsInv /\ source \in [Threads -> SUBSET Bundle]
      /\ archives \in [ArchiveIds -> Archive]
  BY DEF RetentionInv, TypeOK
<1>5. /\ t \in Threads /\ archives[a].payload # {}
      /\ archives[a].payload \subseteq written[t]
  BY <1>1, <1>2, <1>4 DEF RowsInv
<1>6. /\ source'[t] = source[t] \cup archives[a].payload
      /\ \A u \in Threads \ {t} : source'[u] = source[u]
  BY <1>3, <1>4, <1>5
<1>7. /\ archives'[a].thread = t /\ archives'[a].payload = archives[a].payload
      /\ archives'[a].status = "restored"
      /\ \A b \in ArchiveIds \ {a} : archives'[b] = archives[b]
  BY <1>1, <1>3, <1>4 DEF Archive
<1> HIDE DEF a, t
<1>8. \A u \in Threads :
          /\ source'[u] \subseteq written'[u]
          /\ IsFiniteSet(written'[u])
          /\ \A b \in written'[u] : b.no \in 1..Cardinality(written'[u])
          /\ \A b, c \in written'[u] : b.no = c.no => b = c
  BY <1>3, <1>4, <1>5, <1>6 DEF RowsInv
<1>9. \A b \in ArchiveIds : archives'[b].status # "free" =>
          /\ archives'[b].thread \in Threads
          /\ archives'[b].payload # {}
          /\ archives'[b].payload \subseteq written'[archives'[b].thread]
  BY <1>3, <1>4, <1>5, <1>7 DEF RowsInv
<1>10. \A b \in ArchiveIds : \A u \in Threads : Active(b, u)' => Active(b, u)
  BY <1>7 DEF Active
<1> QED
  BY <1>4, <1>8, <1>9, <1>10 DEF RowsInv

LEMMA RowsStep ==
  ASSUME RetentionInv, [Next]_vars
  PROVE  RowsInv'
<1>1. RowsInv
  BY DEF RetentionInv
<1>2. ASSUME NEW o \in Operators, CopyToArchive(o) PROVE UNCHANGED <<source, written, archives>>
  BY <1>2 DEF CopyToArchive, Rollback
<1>3. CASE UNCHANGED <<source, written, archives>>
  BY <1>1, <1>3, RowsFrame
<1>4. ASSUME NEW r \in Resumers, Puts(r) PROVE RowsInv'
  BY <1>4, RowsPut
<1>5. ASSUME NEW o \in Operators, DeleteSource(o) PROVE RowsInv'
  BY <1>5, RowsDelete
<1>6. ASSUME NEW o \in Operators, CopyToSource(o) PROVE RowsInv'
  BY <1>6, RowsRestore
<1> QED
  BY <1>2, <1>3, <1>4, <1>5, <1>6
     DEF Next, vars, DayPasses, Operate, Resume, Puts, BeginArchive, LockAndCheck,
         LockAndCount, Abort, Rollback, LoadThread

(* What LockInv says of one operator.                                      *)
LockOK(o) ==
    LET op == operator[o] IN
    /\ lock = o <=> op.phase \in {"counted", "copied", "restoring"}
    /\ op.phase \in {"counted", "copied"} =>
          /\ ~HasActive(op.thread)
          /\ Checkpoints(op.thread) # {} /\ OldEnough(op.thread, op.cutoff)
          /\ op.expected = Cardinality(source[op.thread])
    /\ op.phase = "copied" => op.copied = source[op.thread]
    /\ op.phase = "restoring" =>
          archives[op.archive].status = "archived" /\ source[archives[op.archive].thread] = {}

(* Nothing moves under an operator that holds the lock, and the operators  *)
(* that do not hold it rely on nothing.                                    *)
LEMMA LockFrame ==
  ASSUME NEW o \in Operators, LockOK(o), operator'[o] = operator[o],
         lock = o <=> lock' = o, lock = o => UNCHANGED <<source, archives>>
  PROVE  LockOK(o)'
<1>1. CASE lock = o
  BY <1>1 DEF LockOK, HasActive, Active, OldEnough, Checkpoints
<1>2. CASE lock # o
  BY <1>2 DEF LockOK
<1> QED
  BY <1>1, <1>2

(* An operator that has neither counted nor copied nor begun to restore    *)
(* relies on nothing.                                                      *)
LEMMA LockFree ==
  ASSUME NEW o \in Operators, lock' # o,
         operator'[o].phase \notin {"counted", "copied", "restoring"}
  PROVE  LockOK(o)'
BY DEF LockOK

(* An operator that takes a step has just read what it relies on.          *)
LEMMA LockMoves ==
  ASSUME RetentionInv, NEW o \in Operators, Operate(o)
  PROVE  LockOK(o)'
<1> USE NoneAssumption
<1>1. operator \in [Operators -> OperatorState] /\ LockOK(o) /\ None # o
  BY DEF RetentionInv, TypeOK, LockInv, LockOK
<1>2. ASSUME NEW t \in Threads, BeginArchive(o, t) PROVE LockOK(o)'
  <2>1. operator'[o].phase = "waiting" /\ lock' # o
    BY <1>1, <1>2 DEF BeginArchive, Between, LockOK, Ready
  <2> QED
    BY <2>1, LockFree
<1>3. CASE LockAndCount(o)
  <2> DEFINE t == operator[o].thread
             cutoff == operator[o].cutoff
  <2>1. CASE ~MayArchive(t, cutoff)
    <3>1. operator'[o].phase = "refused" /\ lock' = None
      BY <1>1, <1>3, <2>1, AnsweredState DEF LockAndCount
    <3> QED
      BY <1>1, <3>1, LockFree
  <2>2. CASE MayArchive(t, cutoff)
    <3>1. ~HasActive(t) /\ Checkpoints(t) # {} /\ OldEnough(t, cutoff)
      BY <2>2 DEF MayArchive
    <3>2. /\ operator'[o].phase = "counted" /\ operator'[o].thread = t
          /\ operator'[o].cutoff = cutoff
          /\ operator'[o].expected = Cardinality(source[t])
          /\ lock' = o /\ source' = source /\ archives' = archives
      BY <1>1, <1>3, <2>2 DEF LockAndCount, OperatorState
    <3> HIDE DEF t, cutoff
    <3> QED
      BY <3>1, <3>2 DEF LockOK, HasActive, Active, OldEnough, Checkpoints
  <2> QED
    BY <2>1, <2>2
<1>4. CASE CopyToArchive(o)
  <2>1. CountAgrees(o) /\ operator[o].phase = "counted" /\ lock = o
    BY <1>1, <1>4 DEF CopyToArchive, LockOK, CountAgrees
  <2>2. /\ operator'[o] = [operator[o] EXCEPT !.phase = "copied",
                                              !.copied = source[operator[o].thread]]
        /\ source' = source /\ archives' = archives /\ lock' = lock
    BY <1>1, <1>4, <2>1 DEF CopyToArchive
  <2>3. /\ operator'[o].phase = "copied" /\ operator'[o].thread = operator[o].thread
        /\ operator'[o].cutoff = operator[o].cutoff
        /\ operator'[o].expected = operator[o].expected
        /\ operator'[o].copied = source[operator[o].thread]
    BY <1>1, <2>2 DEF OperatorState
  <2> QED
    BY <1>1, <2>1, <2>2, <2>3 DEF LockOK, HasActive, Active, OldEnough, Checkpoints
<1>5. CASE DeleteSource(o)
  <2>1. operator'[o].phase = "done" /\ lock' = None
    BY <1>1, <1>5, AnsweredState DEF DeleteSource, LockOK, CountAgrees
  <2> QED
    BY <1>1, <2>1, LockFree
<1>6. ASSUME NEW a \in ArchiveIds, LockAndCheck(o, a) PROVE LockOK(o)'
  <2>1. CASE lock' = o
    <3>1. /\ operator' = [operator EXCEPT ![o] =
                [Ready EXCEPT !.phase = "restoring", !.archive = a]]
          /\ archives[a].status = "archived" /\ source[archives[a].thread] = {}
          /\ source' = source /\ archives' = archives
      BY <1>1, <1>6, <2>1 DEF LockAndCheck, MayRestore, SourceExists
    <3>2. operator'[o].phase = "restoring" /\ operator'[o].archive = a
      BY <1>1, <3>1 DEF Ready
    <3> QED
      BY <2>1, <3>1, <3>2 DEF LockOK
  <2>2. CASE lock' # o
    <3>1. operator' = [operator EXCEPT ![o] = Answered("refused")]
      BY <1>6, <2>2 DEF LockAndCheck
    <3>2. operator'[o].phase = "refused"
      BY <1>1, <3>1, AnsweredState
    <3> QED
      BY <2>2, <3>2, LockFree
  <2> QED
    BY <2>1, <2>2
<1>7. CASE CopyToSource(o)
  <2>1. operator'[o].phase = "done" /\ lock' = None
    BY <1>1, <1>7, AnsweredState DEF CopyToSource
  <2> QED
    BY <1>1, <2>1, LockFree
<1>8. CASE Abort(o)
  <2>1. operator'[o].phase = "ready" /\ lock' = None
    BY <1>1, <1>8, AnsweredState DEF Abort, Rollback
  <2> QED
    BY <1>1, <2>1, LockFree
<1> QED
  BY <1>2, <1>3, <1>4, <1>5, <1>6, <1>7, <1>8 DEF Operate

(* While one operator moves, the others neither hold nor get the lock, or  *)
(* nothing happens to the rows.                                            *)
LEMMA LockOthers ==
  ASSUME RetentionInv, NEW o \in Operators, Operate(o), NEW q \in Operators, q # o
  PROVE  LockOK(q)'
<1> USE NoneAssumption
<1>1. operator \in [Operators -> OperatorState] /\ LockOK(o) /\ LockOK(q)
  BY DEF RetentionInv, TypeOK, LockInv, LockOK
<1>2. None # q /\ None # o
  OBVIOUS
<1>3. \/ lock = o /\ lock' \in {o, None}
      \/ lock = None /\ lock' \in {o, None} /\ UNCHANGED <<source, archives>>
      \/ UNCHANGED <<lock, source, archives>>
  <2>1. ASSUME NEW t \in Threads, BeginArchive(o, t)
        PROVE  UNCHANGED <<lock, source, archives>>
    BY <2>1 DEF BeginArchive
  <2>2. CASE LockAndCount(o)
    BY <2>2 DEF LockAndCount
  <2>3. CASE CopyToArchive(o)
    BY <2>3, <1>1 DEF CopyToArchive, Rollback, LockOK
  <2>4. CASE DeleteSource(o)
    BY <2>4, <1>1 DEF DeleteSource, Rollback, LockOK
  <2>5. ASSUME NEW a \in ArchiveIds, LockAndCheck(o, a)
        PROVE  lock = None /\ lock' \in {o, None} /\ UNCHANGED <<source, archives>>
    BY <2>5 DEF LockAndCheck
  <2>6. CASE CopyToSource(o)
    BY <2>6, <1>1 DEF CopyToSource, LockOK
  <2>7. CASE Abort(o)
    BY <2>7 DEF Abort, Rollback
  <2> QED
    BY <2>1, <2>2, <2>3, <2>4, <2>5, <2>6, <2>7 DEF Operate
<1>4. operator'[q] = operator[q]
  BY <1>1 DEF Operate, BeginArchive, LockAndCount, CopyToArchive, DeleteSource, Rollback,
              LockAndCheck, CopyToSource, Abort
<1> QED
  BY <1>1, <1>2, <1>3, <1>4, LockFrame

LEMMA LockStep ==
  ASSUME RetentionInv, [Next]_vars
  PROVE  LockInv'
<1> SUFFICES ASSUME NEW q \in Operators
             PROVE  LockOK(q)'
  BY DEF LockInv, LockOK
<1>1. LockOK(q) /\ None # q
  BY NoneAssumption DEF RetentionInv, LockInv, LockOK
<1>2. ASSUME NEW o \in Operators, Operate(o) PROVE LockOK(q)'
  BY <1>2, LockMoves, LockOthers
<1>3. ASSUME NEW r \in Resumers, Puts(r) PROVE LockOK(q)'
  <2>1. lock = None /\ UNCHANGED <<lock, operator>>
    BY <1>3, PutsBundle DEF TablesLocked
  <2> QED
    BY <1>1, <2>1, LockFrame
<1>4. CASE UNCHANGED <<lock, operator, source, archives>>
  <2>1. operator'[q] = operator[q] /\ lock' = lock /\ UNCHANGED <<source, archives>>
    BY <1>4
  <2> QED
    BY <1>1, <2>1, LockFrame
<1>5. \/ \E o \in Operators : Operate(o)
      \/ \E r \in Resumers : Puts(r)
      \/ UNCHANGED <<lock, operator, source, archives>>
  BY DEF Next, vars, DayPasses, Resume, Puts, LoadThread
<1> QED
  BY <1>2, <1>3, <1>4, <1>5

LEMMA InvStep == RetentionInv /\ [Next]_vars => RetentionInv'
BY TypeStep, LockStep, RowsStep, RequestStep DEF RetentionInv

(* Between its lock and its commit an archive or a restore acts on what it *)
(* has read, and moves only bundles that LangGraph has put.                *)
THEOREM RetentionInvariant == Spec => []RetentionInv
BY InitInv, InvStep, PTL DEF Spec

(* A step that neither takes live rows nor touches archives loses nothing. *)
LEMMA LostFrame ==
  ASSUME NothingLost, UNCHANGED <<source, written, archives>>
  PROVE  NothingLost'
BY DEF NothingLost, Active

(* What is put is live; what an archive deletes is in its payload; what a  *)
(* restore takes from an archive is live again.                            *)
LEMMA LostStep ==
  ASSUME RetentionInv, NothingLost, [Next]_vars
  PROVE  NothingLost'
<1>1. /\ source \in [Threads -> SUBSET Bundle] /\ written \in [Threads -> SUBSET Bundle]
      /\ archives \in [ArchiveIds -> Archive]
      /\ LockInv /\ RequestInv /\ RowsInv
  BY DEF RetentionInv, TypeOK
<1>2. ASSUME NEW r \in Resumers, Puts(r) PROVE NothingLost'
  <2> DEFINE t == resumer[r].thread
  <2>1. t \in Threads
    BY <1>2, PutsBundle
  <2>2. PICK b : /\ source' = [source EXCEPT ![t] = @ \cup {b}]
                 /\ written' = [written EXCEPT ![t] = @ \cup {b}]
                 /\ archives' = archives
    BY <1>2, PutsBundle
  <2> QED
    BY <1>1, <2>1, <2>2 DEF NothingLost, Active
<1>3. ASSUME NEW o \in Operators, DeleteSource(o) PROVE NothingLost'
  <2> DEFINE t == operator[o].thread
             manifest == [thread |-> t, status |-> "archived", payload |-> operator[o].copied]
  <2>1. /\ t \in Threads /\ operator[o].phase = "copied"
        /\ CountAgrees(o) /\ operator[o].copied = source[t]
    BY <1>1, <1>3 DEF DeleteSource, RequestInv, LockInv, CountAgrees
  <2>2. PICK a \in ArchiveIds : /\ archives[a].status = "free"
                                /\ archives' = [archives EXCEPT ![a] = manifest]
    BY <1>3, <2>1 DEF DeleteSource
  <2>3. source' = [source EXCEPT ![t] = {}] /\ written' = written
    BY <1>3, <2>1 DEF DeleteSource
  <2>4. ASSUME NEW u \in Threads, NEW b \in written[u]
        PROVE  \/ b \in source'[u]
               \/ \E c \in ArchiveIds : Active(c, u)' /\ b \in archives'[c].payload
    <3>1. CASE b \in source[u] /\ u = t
      <4>1. archives'[a] = manifest
        BY <1>1, <2>2
      <4>2. Active(a, u)' /\ b \in archives'[a].payload
        BY <2>1, <3>1, <4>1 DEF Active
      <4> QED
        BY <4>2
    <3>2. CASE b \in source[u] /\ u # t
      BY <1>1, <2>3, <3>2
    <3>3. CASE b \notin source[u]
      <4>1. PICK c \in ArchiveIds : Active(c, u) /\ b \in archives[c].payload
        BY <3>3 DEF NothingLost
      <4>2. c # a /\ archives'[c] = archives[c]
        BY <1>1, <2>2, <4>1 DEF Active
      <4> QED
        BY <4>1, <4>2 DEF Active
    <3> QED
      BY <3>1, <3>2, <3>3
  <2> QED
    BY <2>3, <2>4 DEF NothingLost
<1>4. ASSUME NEW o \in Operators, CopyToSource(o) PROVE NothingLost'
  <2> DEFINE a == operator[o].archive
             t == archives[a].thread
  <2>1. a \in ArchiveIds /\ archives[a].status = "archived"
    BY <1>1, <1>4 DEF CopyToSource, RequestInv, LockInv
  <2>2. /\ source' = [source EXCEPT ![t] = @ \cup archives[a].payload]
        /\ archives' = [archives EXCEPT ![a].status = "restored"]
        /\ written' = written
    BY <1>4 DEF CopyToSource
  <2>3. t \in Threads
    BY <1>1, <2>1 DEF RowsInv
  <2>4. /\ source'[t] = source[t] \cup archives[a].payload
        /\ \A u \in Threads \ {t} : source'[u] = source[u]
    BY <1>1, <2>2, <2>3
  <2>5. \A c \in ArchiveIds \ {a} : archives'[c] = archives[c]
    BY <1>1, <2>2
  <2> HIDE DEF a, t
  <2>6. ASSUME NEW u \in Threads, NEW b \in written[u]
        PROVE  \/ b \in source'[u]
               \/ \E c \in ArchiveIds : Active(c, u)' /\ b \in archives'[c].payload
    <3>1. CASE b \in source[u]
      BY <2>4, <3>1
    <3>2. CASE b \notin source[u]
      <4>1. PICK c \in ArchiveIds : Active(c, u) /\ b \in archives[c].payload
        BY <3>2 DEF NothingLost
      <4>2. CASE c = a
        BY <2>4, <4>1, <4>2 DEF Active, t
      <4>3. CASE c # a
        BY <2>5, <4>1, <4>3 DEF Active
      <4> QED
        BY <4>2, <4>3
    <3> QED
      BY <3>1, <3>2
  <2> QED
    BY <2>2, <2>6 DEF NothingLost
<1>5. ASSUME NEW o \in Operators, CopyToArchive(o) PROVE UNCHANGED <<source, written, archives>>
  BY <1>5 DEF CopyToArchive, Rollback
<1>6. CASE UNCHANGED <<source, written, archives>>
  BY <1>6, LostFrame
<1> QED
  BY <1>2, <1>3, <1>4, <1>5, <1>6
     DEF Next, vars, DayPasses, Operate, Resume, Puts, BeginArchive, LockAndCheck,
         LockAndCount, Abort, Rollback, LoadThread

(* No bundle is ever lost, whoever archives, restores, dies or resumes.    *)
THEOREM NothingIsLost == Spec => []NothingLost
<1>1. Init => NothingLost
  BY DEF Init, NothingLost
<1>2. RetentionInv /\ NothingLost /\ [Next]_vars => NothingLost'
  BY LostStep
<1> QED
  BY <1>1, <1>2, RetentionInvariant, PTL DEF Spec

(* Under the lock the row counts of an archive agree: none is refused for  *)
(* rows that changed between its count, its copy and its delete.           *)
THEOREM CountsAlwaysAgree == Spec => []CountsAgree
<1>1. Init => CountsAgree
  BY DEF Init, CountsAgree, Ready
<1>2. ASSUME RetentionInv, CountsAgree, [Next]_vars PROVE CountsAgree'
  <2> USE <1>2 DEF CountsAgree
  <2>1. operator \in [Operators -> OperatorState] /\ LockInv
    BY DEF RetentionInv, TypeOK
  <2>2. ASSUME NEW o \in Operators, Operate(o) PROVE CountsAgree'
    <3>1. operator[o].phase \in {"counted", "copied"} => CountAgrees(o)
      BY <2>1 DEF LockInv, CountAgrees
    <3>2. ASSUME NEW a \in ArchiveIds, LockAndCheck(o, a) PROVE CountsAgree'
      <4>1. \/ operator' = [operator EXCEPT ![o] = Checking(a)]
            \/ operator' = [operator EXCEPT ![o] = Answered("refused")]
        BY <3>2 DEF LockAndCheck, Checking
      <4> QED
        BY <2>1, <4>1, CheckingState, AnsweredState
    <3>3. ASSUME NEW t \in Threads, BeginArchive(o, t) PROVE CountsAgree'
      BY <2>1, <3>3 DEF BeginArchive, Ready
    <3>4. CASE LockAndCount(o)
      BY <2>1, <3>4, AnsweredState DEF LockAndCount, OperatorState
    <3>5. CASE CopyToArchive(o)
      BY <2>1, <3>1, <3>5 DEF CopyToArchive, OperatorState
    <3>6. CASE DeleteSource(o)
      BY <2>1, <3>1, <3>6, AnsweredState DEF DeleteSource
    <3>7. CASE CopyToSource(o)
      BY <2>1, <3>7, AnsweredState DEF CopyToSource
    <3>8. CASE Abort(o)
      BY <2>1, <3>8, AnsweredState DEF Abort, Rollback
    <3> QED
      BY <2>2, <3>2, <3>3, <3>4, <3>5, <3>6, <3>7, <3>8 DEF Operate
  <2>3. CASE UNCHANGED operator
    BY <2>3
  <2> QED
    BY <2>2, <2>3 DEF Next, vars, DayPasses, Resume, LoadThread, PutWrites, RequestApproval, Finalize,
       Put
<1> QED
  BY <1>1, <1>2, RetentionInvariant, PTL DEF Spec

(* A thread has one archive at most that can be restored: archive_thread   *)
(* looks for one under the lock before it writes a manifest.               *)
THEOREM AtMostOneArchive == Spec => []OneActiveArchive
<1>1. ASSUME RowsInv, NEW t \in Threads
      PROVE  Cardinality({a \in ArchiveIds : Active(a, t)}) <= 1
  <2> DEFINE active == {a \in ArchiveIds : Active(a, t)}
  <2>1. \A a, b \in active : a = b
    BY <1>1 DEF RowsInv
  <2>2. CASE active = {}
    BY <2>2, FS_EmptySet
  <2>3. CASE active # {}
    <3>1. PICK a : active = {a}
      BY <2>1, <2>3
    <3> QED
      BY <3>1, FS_Singleton
  <2> QED
    BY <2>2, <2>3
<1>2. RetentionInv => OneActiveArchive
  BY <1>1 DEF RetentionInv, OneActiveArchive
<1> QED
  BY <1>2, RetentionInvariant, PTL

(* Only threads that have checkpoints, all older than the retention        *)
(* period, lose live rows, however long the archive has waited for its     *)
(* lock.                                                                   *)
THEOREM OldThreadsLeave == Spec => OnlyOldThreadsLeave
<1> DEFINE Stays == \A t \in Threads :
               \/ source[t] \subseteq source'[t]
               \/ /\ Checkpoints(t) # {}
                  /\ \A b \in Checkpoints(t) : b.created_at + RetainDays < today
<1>1. ASSUME RetentionInv, [Next]_vars PROVE [Stays]_vars
  <2>1. /\ source \in [Threads -> SUBSET Bundle]
        /\ operator \in [Operators -> OperatorState]
        /\ archives \in [ArchiveIds -> Archive]
        /\ today \in Int /\ RetainDays \in Int
    BY <1>1, BoundsAssumption DEF RetentionInv, TypeOK
  <2>2. ASSUME NEW o \in Operators, DeleteSource(o) PROVE Stays
    <3> DEFINE t == operator[o].thread
               cutoff == operator[o].cutoff
    <3>1. /\ t \in Threads /\ cutoff + RetainDays <= today /\ OldEnough(t, cutoff)
          /\ Checkpoints(t) # {}
      BY <1>1, <2>2 DEF DeleteSource, RetentionInv, RequestInv, LockInv
    <3>2. cutoff \in Int /\ \A b \in Checkpoints(t) : b.created_at \in Int
      BY <2>1, <3>1 DEF OperatorState, Bundle, Checkpoints
    <3>3. \A b \in Checkpoints(t) : b.created_at + RetainDays < today
      <4> TAKE b \in Checkpoints(t)
      <4>1. b.created_at < cutoff /\ b.created_at \in Int
        BY <3>1, <3>2 DEF OldEnough
      <4> HIDE DEF cutoff
      <4> QED
        BY <2>1, <3>1, <3>2, <4>1
    <3>4. \A u \in Threads \ {t} : source'[u] = source[u]
      BY <2>1, <2>2 DEF DeleteSource, Rollback
    <3> QED
      BY <3>1, <3>3, <3>4
  <2>3. ASSUME NEW o \in Operators, CopyToSource(o) PROVE Stays
    BY <2>1, <2>3 DEF CopyToSource
  <2>4. ASSUME NEW r \in Resumers, Puts(r) PROVE Stays
    BY <2>1, <2>4, <1>1, PutsBundle
  <2>5. ASSUME NEW o \in Operators, CopyToArchive(o) PROVE UNCHANGED source
    BY <2>5 DEF CopyToArchive, Rollback
  <2>6. CASE UNCHANGED source
    BY <2>6
  <2> QED
    BY <1>1, <2>2, <2>3, <2>4, <2>5, <2>6
       DEF Next, vars, DayPasses, Operate, Resume, Puts, BeginArchive, LockAndCheck,
           LockAndCount, Abort, Rollback, LoadThread
<1> QED
  BY <1>1, RetentionInvariant, PTL DEF Spec, OnlyOldThreadsLeave

(* A restore gives back exactly what was archived, never on top of live    *)
(* rows.                                                                   *)
THEOREM RestoresAreExact == Spec => RestoreIsExact
<1> DEFINE Exact == \A a \in ArchiveIds :
               (archives[a].status = "archived" /\ archives'[a].status = "restored")
               => source'[archives[a].thread] = archives[a].payload
<1>1. ASSUME RetentionInv, [Next]_vars PROVE [Exact]_vars
  <2>1. /\ source \in [Threads -> SUBSET Bundle]
        /\ archives \in [ArchiveIds -> Archive]
        /\ LockInv /\ RequestInv /\ RowsInv
    BY <1>1 DEF RetentionInv, TypeOK
  <2>2. ASSUME NEW o \in Operators, DeleteSource(o) PROVE Exact
    <3>1. \A a \in ArchiveIds : archives'[a] = archives[a] \/ archives'[a].status = "archived"
      BY <2>1, <2>2 DEF DeleteSource, Rollback
    <3> QED
      BY <3>1
  <2>3. ASSUME NEW o \in Operators, CopyToSource(o) PROVE Exact
    <3> DEFINE c == operator[o].archive
    <3>1. /\ c \in ArchiveIds /\ archives[c].status = "archived"
          /\ source[archives[c].thread] = {}
      BY <2>1, <2>3 DEF CopyToSource, RequestInv, LockInv
    <3>2. archives[c].thread \in Threads
      BY <2>1, <3>1 DEF RowsInv
    <3>3. source'[archives[c].thread] = archives[c].payload
      BY <2>1, <2>3, <3>1, <3>2 DEF CopyToSource
    <3>4. \A a \in ArchiveIds \ {c} : archives'[a] = archives[a]
      BY <2>1, <2>3 DEF CopyToSource
    <3> QED
      BY <3>3, <3>4
  <2>4. ASSUME NEW r \in Resumers, Puts(r) PROVE UNCHANGED archives
    BY <2>4, <1>1, PutsBundle
  <2>5. ASSUME NEW o \in Operators, CopyToArchive(o) PROVE UNCHANGED archives
    BY <2>5 DEF CopyToArchive, Rollback
  <2>6. CASE UNCHANGED archives
    BY <2>6
  <2> QED
    BY <1>1, <2>2, <2>3, <2>4, <2>5, <2>6
       DEF Next, vars, DayPasses, Operate, Resume, Puts, BeginArchive, LockAndCheck,
           LockAndCount, Abort, Rollback, LoadThread
<1> QED
  BY <1>1, RetentionInvariant, PTL DEF Spec, RestoreIsExact
=============================================================================
