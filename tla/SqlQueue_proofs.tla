-------------------------- MODULE SqlQueue_proofs --------------------------
(***************************************************************************)
(* SqlQueue for any number of jobs and workers and any assignment of tags  *)
(* and handlers: a row belongs to whoever marked it until it is requeued,  *)
(* and the backends implement the abstract queue.                          *)
(***************************************************************************)
EXTENDS SqlQueue, TLAPS

\* A row that is selected in an open transaction is queued, and selected once:
\* every other writer waits for it.
SelectionLocks ==
    \A w \in Workers : worker[w].pc = "selected" =>
        /\ Status(worker[w].job) = "queued"
        /\ \A v \in Workers :
              worker[v].pc = "selected" /\ worker[v].job = worker[w].job => v = w

\* A job that a worker has was enqueued, and if it was not requeued it is marked
\* as processing or has been deleted.
HeldIsMarked ==
    \A w \in Workers, j \in Jobs : Holds(w, j) =>
        /\ Status(j) # "new"
        /\ j \notin seized => Status(j) \in {"processing", "deleted"}

Inv == TypeOK /\ SelectionLocks /\ HeldIsMarked /\ ExclusiveHold /\ StuckOnlyByFailure

-----------------------------------------------------------------------------
(* Type correctness.                                                       *)

\* What is written is a row.
LEMMA WrittenType == \A status \in Statuses : Written(status) \in Row
BY DEF Written, Row

\* The places of the line stay sets of jobs.
LEMMA LineType ==
    ASSUME due \subseteq Jobs, ahead \in [Jobs -> SUBSET Jobs],
           \/ \E j \in Jobs : Join(j)
           \/ \E S \in SUBSET Jobs : Leave(S)
           \/ UNCHANGED line
    PROVE  due' \subseteq Jobs /\ ahead' \in [Jobs -> SUBSET Jobs]
<1>1. CASE \E j \in Jobs : Join(j)
  BY <1>1 DEF Join
<1>2. CASE \E S \in SUBSET Jobs : Leave(S)
  BY <1>2 DEF Leave
<1>3. CASE UNCHANGED line
  BY <1>3 DEF line
<1> QED
  BY <1>1, <1>2, <1>3

\* A worker that drops its job is an idle worker.
LEMMA LetsGoType ==
    ASSUME worker \in [Workers -> WorkerState], NEW w \in Workers, LetsGo(w)
    PROVE  /\ worker' \in [Workers -> WorkerState]
           /\ worker'[w].pc = "idle"
           /\ \A v \in Workers : v # w => worker'[v] = worker[v]
BY DEF LetsGo, IdleWorker, WorkerState, WorkerStages

\* A worker that goes on keeps its job.
LEMMA WorkerGoesType ==
    ASSUME worker \in [Workers -> WorkerState], NEW w \in Workers, NEW stage \in WorkerStages,
           WorkerGoes(w, stage)
    PROVE  /\ worker' \in [Workers -> WorkerState]
           /\ worker'[w].pc = stage /\ worker'[w].job = worker[w].job
           /\ \A v \in Workers : v # w => worker'[v] = worker[v]
BY DEF WorkerGoes, WorkerState

\* The steps that leave the workers alone keep the types.
LEMMA TableType ==
    ASSUME TypeOK,
           \/ Setup \/ Clear \/ Requeue \/ ClearByStatus \/ ClearOlderThan
           \/ \E j \in Jobs : Enqueue(j) \/ FallsDue(j) \/ CancelJob(j) \/ Age(j)
    PROVE  TypeOK'
<1> USE WrittenType, RequeuesAssumption DEF TypeOK, Statuses, Terminal, Store, config
<1>1. CASE Setup
  BY <1>1 DEF Setup, line
<1>2. CASE Clear
  BY <1>2, LineType DEF Clear
<1>3. CASE Requeue
  <2>1. requeues' \in 0 .. MaxRequeues
    BY ONLY <1>3, TypeOK, RequeuesAssumption DEF Requeue, TypeOK
  <2>2. row' \in [Jobs -> Row]
    BY <1>3 DEF Requeue
  <2>3. seized' \subseteq Jobs
    BY <1>3 DEF Requeue, Stale
  <2> QED
    BY <1>3, <2>1, <2>2, <2>3 DEF Requeue, line
<1>4. ASSUME NEW S \in SUBSET Jobs, Delete(S) PROVE TypeOK'
  BY <1>4, LineType DEF Delete
<1>5. CASE ClearByStatus \/ ClearOlderThan
  BY <1>4, <1>5 DEF ClearByStatus, ClearOlderThan
<1>6. ASSUME NEW j \in Jobs, Enqueue(j) PROVE TypeOK'
  BY <1>6, LineType DEF Enqueue
<1>7. ASSUME NEW j \in Jobs, FallsDue(j) PROVE TypeOK'
  BY <1>7, LineType DEF FallsDue
<1>8. ASSUME NEW j \in Jobs, CancelJob(j) PROVE TypeOK'
  BY <1>8, LineType DEF CancelJob
<1>9. ASSUME NEW j \in Jobs, Age(j) PROVE TypeOK'
  <2>3. row[j] \in Row
    OBVIOUS
  <2>1. [row[j] EXCEPT !.old = TRUE] \in Row
    BY ONLY <2>3 DEF Row
  <2>2. row' = [row EXCEPT ![j] = [row[j] EXCEPT !.old = TRUE]]
    BY <1>9 DEF Age
  <2> QED
    BY <1>9, <2>1, <2>2 DEF Age, line
<1> QED
  BY <1>1, <1>2, <1>3, <1>5, <1>6, <1>7, <1>8, <1>9

\* The outcome of a job is written, and its worker goes on.
LEMMA OutcomeType ==
    ASSUME TypeOK, NEW w \in Workers, NEW status \in Statuses,
           worker[w].pc \in {"succeeded", "failed"}, WriteOutcome(w, status)
    PROVE  TypeOK'
<1> DEFINE j == worker[w].job
<1>1. j \in Jobs
  BY DEF TypeOK
<1>2. due' \subseteq Jobs /\ ahead' \in [Jobs -> SUBSET Jobs]
  BY <1>1, LineType DEF WriteOutcome, TypeOK
<1>3. row' \in [Jobs -> Row]
  BY <1>1, WrittenType DEF WriteOutcome, TypeOK
<1> QED
  BY <1>2, <1>3, LetsGoType DEF WriteOutcome, TypeOK, config

\* The steps of workers keep the types.
LEMMA WorkerType ==
    ASSUME TypeOK, NEW w \in Workers,
           Select(w) \/ Work(w) \/ Rollback(w) \/ Abandon(w) \/ Shutdown(w)
    PROVE  TypeOK'
<1> USE WrittenType, LetsGoType DEF TypeOK, Statuses, Terminal, config, line
<1>1. CASE Select(w)
  <2>1. PICK j \in Candidates(w) : worker' = [worker EXCEPT ![w] = [pc |-> "selected", job |-> j]]
    BY <1>1 DEF Select
  <2>2. j \in Jobs
    BY DEF Candidates
  <2> QED
    BY <1>1, <2>1, <2>2 DEF Select, WorkerState, WorkerStages
<1>2. CASE Commit(w)
  BY <1>2, WorkerGoesType DEF Commit, Store, WorkerStages
<1>3. CASE StartHandler(w)
  BY <1>3, WorkerGoesType DEF StartHandler, WorkerStages
<1>4. CASE NoHandler(w)
  BY <1>4 DEF NoHandler
<1>5. CASE HandlerEnds(w)
  BY <1>5, WorkerGoesType DEF HandlerEnds, WorkerStages
<1>6. CASE CompleteJob(w)
  BY <1>6, OutcomeType DEF CompleteJob
<1>7. CASE FailJob(w)
  BY <1>7, OutcomeType DEF FailJob
<1>8. CASE Rollback(w)
  BY <1>8 DEF Rollback
<1>9. CASE Abandon(w)
  BY <1>9 DEF Abandon, Holding
<1>10. CASE Shutdown(w)
  BY <1>10, WorkerGoesType DEF Shutdown, WorkerStages
<1> QED
  BY <1>1, <1>2, <1>3, <1>4, <1>5, <1>6, <1>7, <1>8, <1>9, <1>10 DEF Work

\* Every reachable state is well typed.
THEOREM TypeCorrect == Spec => []TypeOK
<1>1. Init => TypeOK
  <2> SUFFICES ASSUME Init PROVE TypeOK
    OBVIOUS
  <2>1. IdleWorker \in WorkerState /\ IdleWorker.pc = "idle"
    BY DEF WorkerState, WorkerStages, IdleWorker
  <2>2. Written("new") \in Row
    BY WrittenType DEF Statuses
  <2>3. 0 \in 0 .. MaxRequeues
    BY RequeuesAssumption
  <2> QED
    BY <2>1, <2>2, <2>3 DEF Init, TypeOK
<1>2. TypeOK /\ [Next]_vars => TypeOK'
  <2> SUFFICES ASSUME TypeOK, [Next]_vars PROVE TypeOK'
    OBVIOUS
  <2>1. CASE Next
    BY <2>1, TableType, WorkerType DEF Next
  <2>2. CASE UNCHANGED vars
    BY <2>2 DEF vars, config, TypeOK
  <2> QED
    BY <2>1, <2>2
<1> QED
  BY <1>1, <1>2, PTL DEF Spec

-----------------------------------------------------------------------------
(* The inductive invariant.                                                *)

\* A step of the table: the workers stay, a row that is selected stays queued, rows
\* that exist or were deleted are not new again, a row enters processing in no way, and leaves it while a worker has it only by a
\* deletion or a requeue.
TableStep ==
    /\ UNCHANGED << worker, abandoned >>
    /\ seized \subseteq seized'
    /\ \A j \in Jobs :
          /\ Status(j)' = "processing" => Status(j) = "processing"
          /\ Status(j) = "queued" /\ InTransaction(j) => Status(j)' = "queued"
          /\ Status(j) = "deleted" => Status(j)' = "deleted"
          /\ Status(j) # "new" => Status(j)' # "new"
          /\ Status(j) = "processing" /\ HoldersOf(j) # {} =>
                Status(j)' \in {"processing", "deleted"} \/ j \in seized'

\* The steps that leave the workers alone are steps of the table.
LEMMA TableSteps ==
    ASSUME Inv,
           \/ Setup \/ Clear \/ Requeue \/ ClearByStatus \/ ClearOlderThan
           \/ \E j \in Jobs : Enqueue(j) \/ FallsDue(j) \/ CancelJob(j) \/ Age(j)
    PROVE  TableStep
<1> USE DEF Inv, TypeOK, TableStep, Status, Store, Written, config, Unlocked
<1>1. CASE Setup
  BY <1>1 DEF Setup
<1>2. CASE Clear
  BY <1>2 DEF Clear, Exists
<1>3. CASE Requeue
  BY <1>3 DEF Requeue, Stale
<1>4. ASSUME NEW S \in SUBSET Jobs, Delete(S) PROVE TableStep
  BY <1>4 DEF Delete
<1>5. CASE ClearByStatus \/ ClearOlderThan
  BY <1>4, <1>5 DEF ClearByStatus, ClearOlderThan
<1>6. ASSUME NEW j \in Jobs, Enqueue(j) PROVE TableStep
  BY <1>6 DEF Enqueue
<1>7. ASSUME NEW j \in Jobs, FallsDue(j) PROVE TableStep
  BY <1>7 DEF FallsDue
<1>8. ASSUME NEW j \in Jobs, CancelJob(j) PROVE TableStep
  BY <1>8 DEF CancelJob
<1>9. ASSUME NEW j \in Jobs, Age(j) PROVE TableStep
  <2>1. \A k \in Jobs : row'[k].status = row[k].status
    BY <1>9 DEF Age, Row
  <2> QED
    BY <1>9, <2>1 DEF Age
<1> QED
  BY <1>1, <1>2, <1>3, <1>5, <1>6, <1>7, <1>8, <1>9

\* Steps of the table keep the invariant.
LEMMA TableInv ==
    ASSUME Inv, TypeOK', TableStep
    PROVE  Inv'
<1>1. \A w \in Workers, j \in Jobs : Holds(w, j)' <=> Holds(w, j)
  BY DEF TableStep, Holds
<1>2. \A j \in Jobs : HoldersOf(j)' = HoldersOf(j)
  BY <1>1 DEF HoldersOf
<1>3. SelectionLocks'
  BY DEF Inv, TypeOK, TableStep, SelectionLocks, InTransaction
<1>4. HeldIsMarked'
  BY <1>1 DEF Inv, TableStep, HeldIsMarked, HoldersOf
<1>5. ExclusiveHold'
  BY <1>1 DEF Inv, TableStep, ExclusiveHold
<1>6. StuckOnlyByFailure'
  BY <1>2 DEF Inv, TableStep, StuckOnlyByFailure
<1> QED
  BY <1>3, <1>4, <1>5, <1>6 DEF Inv

\* A worker selects a queued row that no transaction has.
LEMMA SelectInv ==
    ASSUME Inv, TypeOK', NEW w \in Workers, Select(w)
    PROVE  Inv'
<1>1. PICK j \in Candidates(w) : worker' = [worker EXCEPT ![w] = [pc |-> "selected", job |-> j]]
  BY DEF Select
<1>2. j \in Jobs /\ Status(j) = "queued" /\ ~InTransaction(j)
  BY <1>1 DEF Candidates, Inv, TypeOK
<1>3. /\ worker'[w].pc = "selected" /\ worker'[w].job = j
      /\ \A v \in Workers : v # w => worker'[v] = worker[v]
  BY <1>1 DEF Inv, TypeOK
<1>4. UNCHANGED << row, seized, abandoned >> /\ worker[w].pc = "idle"
  BY DEF Select
<1>5. \A v \in Workers, k \in Jobs : Holds(v, k)' <=> Holds(v, k)
  BY <1>3, <1>4 DEF Holds, Holding
<1>6. \A k \in Jobs : HoldersOf(k)' = HoldersOf(k)
  BY <1>5 DEF HoldersOf
<1>7. SelectionLocks'
  BY <1>2, <1>3, <1>4 DEF SelectionLocks, Inv, TypeOK, Status, InTransaction
<1>8. HeldIsMarked' /\ ExclusiveHold' /\ StuckOnlyByFailure'
  BY <1>4, <1>5, <1>6 DEF Inv, HeldIsMarked, ExclusiveHold, StuckOnlyByFailure, Status
<1> QED
  BY <1>7, <1>8 DEF Inv

\* The row that was selected is marked, and the worker has it: nobody else did,
\* for the row was queued.
LEMMA CommitInv ==
    ASSUME Inv, TypeOK', NEW w \in Workers, Commit(w)
    PROVE  Inv'
<1>10. PICK j \in Jobs : j = worker[w].job
  BY DEF Commit, Inv, TypeOK
<1>1. Status(j) = "queued"
  BY <1>10 DEF Commit, Inv, SelectionLocks
<1>2. /\ worker'[w].pc = "marked" /\ worker'[w].job = j
      /\ \A v \in Workers : v # w => worker'[v] = worker[v]
  BY <1>10, WorkerGoesType DEF Commit, Inv, TypeOK, WorkerStages
<1>3. /\ Status(j)' = "processing"
      /\ \A k \in Jobs : k # j => Status(k)' = Status(k)
      /\ UNCHANGED << seized, abandoned >>
  BY <1>10 DEF Commit, Store, Written, Status, Inv, TypeOK
<1>4. \A v \in Workers : Holds(v, j) => j \in seized
  BY <1>1 DEF Inv, HeldIsMarked
<1>5. \A v \in Workers, k \in Jobs : Holds(v, k)' <=> Holds(v, k) \/ (v = w /\ k = j)
  BY <1>10, <1>2 DEF Holds, Holding, Commit
<1>6. SelectionLocks'
  BY <1>10, <1>2, <1>3 DEF Inv, TypeOK, SelectionLocks, Commit
<1>7. HeldIsMarked'
  BY <1>3, <1>5 DEF Inv, HeldIsMarked
<1>8. ExclusiveHold'
  BY <1>3, <1>4, <1>5 DEF Inv, ExclusiveHold
<1>9. StuckOnlyByFailure'
  BY <1>3, <1>5 DEF Inv, StuckOnlyByFailure, HoldersOf
<1> QED
  BY <1>6, <1>7, <1>8, <1>9 DEF Inv

\* Steps that change neither rows nor who has which job.
LEMMA QuietInv ==
    ASSUME Inv, TypeOK', NEW w \in Workers,
           StartHandler(w) \/ HandlerEnds(w) \/ Rollback(w) \/ Shutdown(w)
    PROVE  Inv' /\ (\A v \in Workers, k \in Jobs : Holds(v, k)' <=> Holds(v, k))
<1>1. UNCHANGED << row, seized, abandoned >>
  BY DEF StartHandler, HandlerEnds, Rollback, Shutdown
<1>2. \A v \in Workers : v # w => worker'[v] = worker[v]
  BY WorkerGoesType, LetsGoType
     DEF StartHandler, HandlerEnds, Rollback, Shutdown, Inv, TypeOK, WorkerStages
<1>3. \/ /\ worker[w].pc \in Holding /\ worker'[w].pc \in Holding
         /\ worker'[w].job = worker[w].job
      \/ worker[w].pc \notin Holding /\ worker'[w].pc \in {"idle", "stopped"}
  BY WorkerGoesType, LetsGoType
     DEF StartHandler, HandlerEnds, Rollback, Shutdown, Inv, TypeOK, WorkerStages, Holding
<1>4. \A v \in Workers, k \in Jobs : Holds(v, k)' <=> Holds(v, k)
  BY <1>2, <1>3 DEF Holds, Holding
<1>5. \A k \in Jobs : HoldersOf(k)' = HoldersOf(k)
  BY <1>4 DEF HoldersOf
<1>6. SelectionLocks'
  BY <1>1, <1>2, <1>3 DEF Inv, TypeOK, SelectionLocks, Status, Holding
<1>7. HeldIsMarked' /\ ExclusiveHold' /\ StuckOnlyByFailure'
  BY <1>1, <1>4, <1>5 DEF Inv, HeldIsMarked, ExclusiveHold, StuckOnlyByFailure, Status
<1> QED
  BY <1>4, <1>6, <1>7 DEF Inv

\* What a worker lets go of is w's job and nothing else.
LEMMA LetsGoHolds ==
    ASSUME TypeOK, NEW w \in Workers, LetsGo(w)
    PROVE  \A v \in Workers, k \in Jobs : Holds(v, k)' <=> Holds(v, k) /\ v # w
BY LetsGoType DEF TypeOK, Holds, Holding

\* A worker that gives its job up leaves it to StuckOnlyByFailure's exception.
LEMMA DropInv ==
    ASSUME Inv, TypeOK', NEW w \in Workers, NoHandler(w) \/ Abandon(w)
    PROVE  Inv'
<1>1. /\ LetsGo(w)
      /\ UNCHANGED << row, seized >>
      /\ abandoned' = abandoned \cup {worker[w].job}
  BY DEF NoHandler, Abandon
<1>2. \A v \in Workers, k \in Jobs : Holds(v, k)' <=> Holds(v, k) /\ v # w
  BY <1>1, LetsGoHolds DEF Inv
<1>3. SelectionLocks'
  BY <1>1, LetsGoType DEF Inv, TypeOK, SelectionLocks, Status
<1>4. HeldIsMarked' /\ ExclusiveHold'
  BY <1>1, <1>2 DEF Inv, HeldIsMarked, ExclusiveHold, Status
<1>5. StuckOnlyByFailure'
  BY <1>1, <1>2 DEF Inv, StuckOnlyByFailure, HoldersOf, Status, Holds
<1> QED
  BY <1>3, <1>4, <1>5 DEF Inv

\* An outcome never marks a row as processing, and whoever else has the job has it
\* after a requeue.
LEMMA OutcomeInv ==
    ASSUME Inv, TypeOK', NEW w \in Workers, NEW status \in {"queued", "completed", "failed"},
           worker[w].pc \in {"succeeded", "failed"}, WriteOutcome(w, status)
    PROVE  Inv'
<1>10. PICK j \in Jobs : j = worker[w].job
  BY DEF Inv, TypeOK
<1>1. Holds(w, j) /\ ~InTransaction(j)
  BY <1>10 DEF Holds, Holding, WriteOutcome, Unlocked
<1>2. LetsGo(w) /\ UNCHANGED << seized, abandoned >>
  BY DEF WriteOutcome
<1>3. /\ Status(j)' \in {"queued", "completed", "failed", "new", "deleted"}
      /\ Status(j) = "deleted" => Status(j)' = "deleted"
      /\ Status(j) # "new" => Status(j)' # "new"
      /\ \A k \in Jobs : k # j => Status(k)' = Status(k)
  BY <1>10 DEF WriteOutcome, Status, Written, Exists, Inv, TypeOK
<1>4. \A v \in Workers, k \in Jobs : Holds(v, k)' <=> Holds(v, k) /\ v # w
  BY <1>2, LetsGoHolds DEF Inv
<1>5. \A v \in Workers : Holds(v, j) /\ v # w => j \in seized
  BY <1>1 DEF Inv, ExclusiveHold
<1>6. SelectionLocks'
  <2>1. \A v \in Workers : worker'[v].pc = "selected" => worker'[v] = worker[v] /\ worker[v].job # j
    BY <1>1, <1>2, LetsGoType DEF Inv, TypeOK, InTransaction
  <2> QED
    BY <1>3, <2>1 DEF Inv, TypeOK, SelectionLocks
<1>7. HeldIsMarked'
  BY <1>2, <1>3, <1>4, <1>5 DEF Inv, HeldIsMarked
<1>8. ExclusiveHold'
  BY <1>2, <1>4 DEF Inv, ExclusiveHold
<1>9. StuckOnlyByFailure'
  <2>1. \A k \in Jobs : k # j => HoldersOf(k)' = HoldersOf(k)
    BY <1>4, <1>10 DEF HoldersOf, Holds
  <2> QED
    BY <1>2, <1>3, <2>1 DEF Inv, StuckOnlyByFailure
<1> QED
  BY <1>6, <1>7, <1>8, <1>9 DEF Inv

\* Every step keeps the invariant.
LEMMA NextInv ==
    ASSUME Inv, [Next]_vars
    PROVE  Inv'
<1>1. TypeOK'
  <2>1. CASE Next
    BY <2>1, TableType, WorkerType DEF Next, Inv
  <2>2. CASE UNCHANGED vars
    BY <2>2 DEF vars, config, TypeOK, Inv
  <2> QED
    BY <2>1, <2>2
<1>2. ASSUME NEW w \in Workers, CompleteJob(w) PROVE Inv'
  BY <1>1, <1>2, OutcomeInv DEF CompleteJob
<1>3. ASSUME NEW w \in Workers, FailJob(w) PROVE Inv'
  BY <1>1, <1>3, OutcomeInv DEF FailJob
<1>4. ASSUME NEW w \in Workers,
             Select(w) \/ Work(w) \/ Rollback(w) \/ Abandon(w) \/ Shutdown(w)
      PROVE  Inv'
  BY <1>1, <1>2, <1>3, <1>4, SelectInv, CommitInv, QuietInv, DropInv DEF Work
<1>5. ASSUME \/ Setup \/ Clear \/ Requeue \/ ClearByStatus \/ ClearOlderThan
             \/ \E j \in Jobs : Enqueue(j) \/ FallsDue(j) \/ CancelJob(j) \/ Age(j)
      PROVE  Inv'
  BY <1>1, <1>5, TableSteps, TableInv
<1>6. CASE UNCHANGED vars
  <2> USE <1>6 DEF vars
  <2>1. \A w \in Workers, j \in Jobs : Holds(w, j)' <=> Holds(w, j)
    BY DEF Holds
  <2>2. \A j \in Jobs : HoldersOf(j)' = HoldersOf(j) /\ Status(j)' = Status(j)
    BY <2>1 DEF HoldersOf, Status
  <2>3. SelectionLocks' /\ HeldIsMarked' /\ ExclusiveHold'
    BY <2>1, <2>2 DEF Inv, SelectionLocks, HeldIsMarked, ExclusiveHold, Status
  <2>4. StuckOnlyByFailure'
    BY <2>2 DEF Inv, StuckOnlyByFailure
  <2> QED
    BY <1>1, <2>3, <2>4 DEF Inv
<1> QED
  BY <1>4, <1>5, <1>6 DEF Next

\* The initial states have the invariant.
LEMMA InitInv ==
    ASSUME Init, TypeOK
    PROVE  Inv
<1>1. \A w \in Workers : worker[w].pc = "idle"
  BY DEF Init, IdleWorker
<1>2. \A j \in Jobs : Status(j) = "new"
  BY DEF Init, Status, Written
<1> QED
  BY <1>1, <1>2 DEF Inv, SelectionLocks, HeldIsMarked, ExclusiveHold, StuckOnlyByFailure,
     Holds, Holding

\* Spec keeps the invariant.
LEMMA InvHolds == Spec => []Inv
<1>1. TypeOK /\ Init => Inv
  BY InitInv
<1> QED
  BY <1>1, NextInv, TypeCorrect, PTL DEF Spec

\* Two workers have one job only after a requeue from under the first of them.
THEOREM ExclusiveHolding == Spec => []ExclusiveHold
<1>1. Inv => ExclusiveHold
  BY DEF Inv
<1> QED
  BY <1>1, InvHolds, PTL

\* A row is stuck in processing only where a worker gave it up.
THEOREM StuckRows == Spec => []StuckOnlyByFailure
<1>1. Inv => StuckOnlyByFailure
  BY DEF Inv
<1> QED
  BY <1>1, InvHolds, PTL

-----------------------------------------------------------------------------
(* A job that has ended.                                                   *)

\* The condition on one step.
EndedStep ==
    \A j \in Jobs :
        Status(j) \in Terminal /\ Status(j)' \notin {Status(j), "deleted"} => j \in seized

\* An outcome is written over an ended row only by a worker from under which the
\* job was requeued: any other worker's job is marked.
LEMMA OutcomeEnded ==
    ASSUME Inv, NEW w \in Workers, NEW status \in Statuses,
           worker[w].pc \in {"succeeded", "failed"}, WriteOutcome(w, status)
    PROVE  EndedStep
<1>1. PICK j \in Jobs : j = worker[w].job
  BY DEF Inv, TypeOK
<1>2. Status(j) \in {"processing", "deleted"} \/ j \in seized
  BY <1>1 DEF Inv, HeldIsMarked, Holds, Holding
<1>3. \A k \in Jobs : k # j => Status(k)' = Status(k)
  BY <1>1 DEF WriteOutcome, Status, Inv, TypeOK
<1> QED
  BY <1>2, <1>3 DEF EndedStep, Terminal

\* Every step satisfies the condition.
LEMMA NextEnded ==
    ASSUME Inv, [Next]_vars
    PROVE  EndedStep
<1> USE DEF Inv, TypeOK, EndedStep, Status, Store, Written, Terminal
<1>1. ASSUME UNCHANGED row PROVE EndedStep
  BY <1>1
<1>2. CASE Setup \/ Clear \/ Requeue
  BY <1>2 DEF Setup, Clear, Requeue, Exists, Stale
<1>3. ASSUME NEW S \in SUBSET Jobs, Delete(S) PROVE EndedStep
  BY <1>3 DEF Delete
<1>4. CASE ClearByStatus \/ ClearOlderThan
  BY <1>3, <1>4 DEF ClearByStatus, ClearOlderThan
<1>5. ASSUME NEW j \in Jobs, Enqueue(j) \/ FallsDue(j) \/ CancelJob(j) PROVE EndedStep
  BY <1>5 DEF Enqueue, FallsDue, CancelJob
<1>6. ASSUME NEW j \in Jobs, Age(j) PROVE EndedStep
  <2>1. \A k \in Jobs : row'[k].status = row[k].status
    BY <1>6 DEF Age, Row
  <2> QED
    BY <2>1
<1>7. ASSUME NEW w \in Workers, Commit(w) PROVE EndedStep
  <2>1. PICK j \in Jobs : j = worker[w].job
    BY <1>7 DEF Commit
  <2>2. Status(j) = "queued"
    BY <1>7, <2>1 DEF Commit, SelectionLocks
  <2> QED
    BY <1>7, <2>1, <2>2 DEF Commit
<1>8. ASSUME NEW w \in Workers, CompleteJob(w) \/ FailJob(w) PROVE EndedStep
  BY <1>8, OutcomeEnded DEF CompleteJob, FailJob, Statuses
<1>9. ASSUME NEW w \in Workers,
             \/ Select(w) \/ StartHandler(w) \/ NoHandler(w) \/ HandlerEnds(w)
             \/ Rollback(w) \/ Abandon(w) \/ Shutdown(w)
      PROVE  EndedStep
  BY <1>1, <1>9 DEF Select, StartHandler, NoHandler, HandlerEnds, Rollback, Abandon, Shutdown
<1>10. CASE UNCHANGED vars
  BY <1>1, <1>10 DEF vars
<1> QED
  BY <1>2, <1>4, <1>5, <1>6, <1>7, <1>8, <1>9, <1>10 DEF Next, Work

\* A job that was completed, failed or cancelled stays so until it is deleted,
\* unless it was requeued from under its worker.
THEOREM EndedJobs == Spec => EndedIsFinal
<1>1. Inv /\ [Next]_vars => EndedStep
  BY NextEnded
<1>2. EndedStep =>
        \A j \in Jobs :
            Status(j) \in Terminal /\ Status(j)' \notin {Status(j), "deleted"} => j \in seized
  BY DEF EndedStep
<1> QED
  BY <1>1, <1>2, InvHolds, PTL DEF Spec, EndedIsFinal

-----------------------------------------------------------------------------
(* The lock row of SQLite.                                                 *)

\* setup puts the row there, also where the tables exist already; only a clear
\* takes it away, and only a process that is to flush clears.
LockRowKept ==
    /\ flushing => flush
    /\ backend = "sqlite" /\ tables /\ ~lockRow => flush
    /\ flush /\ lockRow => flushing

LEMMA LockRowInvariant == Spec => []LockRowKept
<1>1. Init => LockRowKept
  BY DEF Init, LockRowKept
<1>2. TypeOK /\ LockRowKept /\ [Next]_vars => LockRowKept'
  <2> SUFFICES ASSUME TypeOK, LockRowKept, [Next]_vars PROVE LockRowKept'
    OBVIOUS
  <2>1. CASE UNCHANGED << config, tables, flushing, lockRow >>
    BY <2>1 DEF LockRowKept, config
  <2>2. CASE Setup
    BY <2>2 DEF Setup, LockRowKept, config, TypeOK
  <2>3. CASE Clear
    BY <2>3 DEF Clear, LockRowKept, config
  <2>4. ASSUME NEW j \in Jobs, Enqueue(j) \/ FallsDue(j) \/ CancelJob(j) \/ Age(j)
        PROVE  LockRowKept'
    BY <2>1, <2>4 DEF Enqueue, FallsDue, CancelJob, Age
  <2>5. ASSUME NEW w \in Workers,
               Select(w) \/ Work(w) \/ Rollback(w) \/ Abandon(w) \/ Shutdown(w)
        PROVE  LockRowKept'
    BY <2>1, <2>5 DEF Select, Work, Commit, StartHandler, NoHandler, HandlerEnds, CompleteJob,
       FailJob, WriteOutcome, Rollback, Abandon, Shutdown
  <2>6. CASE Requeue \/ ClearByStatus \/ ClearOlderThan
    BY <2>1, <2>6 DEF Requeue, ClearByStatus, ClearOlderThan, Delete
  <2>7. CASE UNCHANGED vars
    BY <2>1, <2>7 DEF vars
  <2> QED
    BY <2>2, <2>3, <2>4, <2>5, <2>6, <2>7 DEF Next
<1> QED
  BY <1>1, <1>2, TypeCorrect, PTL DEF Spec

\* An SQLite queue that is not flushed always has its lock row; one that is
\* flushed has it only between the setup of a process and the clear that follows,
\* and nothing is dequeued after that: the cause of what the run on flushed
\* queues shows, which the other configurations do not have.
THEOREM LockRowOnlyUnflushed ==
    Spec => [][\A w \in Workers : backend = "sqlite" =>
                  /\ Select(w) /\ flush => flushing
                  /\ tables /\ ~flush => lockRow]_vars
<1>1. TypeOK /\ LockRowKept =>
          \A w \in Workers : backend = "sqlite" =>
              /\ Select(w) /\ flush => flushing
              /\ tables /\ ~flush => lockRow
  BY DEF LockRowKept, Select
<1> QED
  BY <1>1, TypeCorrect, LockRowInvariant, PTL DEF Spec

-----------------------------------------------------------------------------
(* The refinement.                                                         *)

\* Rows of the same status and workers with the same jobs are one abstract state.
LEMMA SameStages ==
    ASSUME \A j \in Jobs : Status(j)' = Status(j)
    PROVE  stageBar' = stageBar
BY DEF stageBar

LEMMA SameHolders ==
    ASSUME \A v \in Workers, j \in Jobs : Holds(v, j)' <=> Holds(v, j)
    PROVE  holdersBar' = holdersBar
BY DEF holdersBar, HoldersOf

\* A row that changes alone moves its job alone.
LEMMA OneStage ==
    ASSUME NEW j \in Jobs, NEW status, Status(j)' = status,
           \A k \in Jobs : k # j => Status(k)' = Status(k)
    PROVE  stageBar' = [stageBar EXCEPT ![j] = StageOf(status)]
BY DEF stageBar

\* Rows in S move together.
LEMMA ManyStages ==
    ASSUME NEW S \in SUBSET Jobs, NEW status, \A j \in S : Status(j)' = status,
           \A k \in Jobs \ S : Status(k)' = Status(k)
    PROVE  stageBar' = [j \in Jobs |-> IF j \in S THEN StageOf(status) ELSE stageBar[j]]
BY DEF stageBar

\* The stages of the statuses.
LEMMA Stages ==
    /\ StageOf("new") = "new" /\ StageOf("queued") = "waiting"
    /\ StageOf("processing") = "taken" /\ StageOf("deleted") = "removed"
    /\ \A status \in Terminal : StageOf(status) = "ended"
BY DEF StageOf, Terminal

\* Deletions remove, whoever has the jobs.
LEMMA DeleteRefines ==
    ASSUME TypeOK, NEW S \in SUBSET Jobs, \A j \in S : Exists(j),
           row' = [j \in Jobs |-> IF j \in S THEN Written("deleted") ELSE row[j]],
           UNCHANGED << worker, seized >>
    PROVE  Q!QNext
<1>1. \A v \in Workers, j \in Jobs : Holds(v, j)' <=> Holds(v, j)
  BY DEF Holds
<1>2. stageBar' = [j \in Jobs |-> IF j \in S THEN "removed" ELSE stageBar[j]]
  <2>1. (\A j \in S : Status(j)' = "deleted") /\ (\A k \in Jobs \ S : Status(k)' = Status(k))
    BY DEF Status, Written
  <2> QED
    BY <2>1, ManyStages, Stages
<1>3. \A j \in S : stageBar[j] # "new"
  BY DEF Exists, stageBar, StageOf
<1>4. Q!Remove(S)
  BY <1>1, <1>2, <1>3, SameHolders DEF Q!Remove
<1> QED
  BY <1>4 DEF Q!QNext

\* The steps that leave the workers alone implement the abstract queue.
LEMMA TableRefines ==
    ASSUME Inv,
           \/ Setup \/ Clear \/ Requeue \/ ClearByStatus \/ ClearOlderThan
           \/ \E j \in Jobs : Enqueue(j) \/ FallsDue(j) \/ CancelJob(j) \/ Age(j)
    PROVE  Q!QNext \/ UNCHANGED << stageBar, holdersBar, seized >>
<1>1. UNCHANGED worker
  BY DEF Setup, Clear, Requeue, ClearByStatus, ClearOlderThan, Delete, Enqueue, FallsDue,
     CancelJob, Age
<1>2. holdersBar' = holdersBar
  BY <1>1, SameHolders DEF Holds
<1> USE DEF Inv, TypeOK
<1>3. CASE Setup
  BY <1>2, <1>3, SameStages DEF Setup, Status
<1>4. CASE Clear
  <2> DEFINE S == {j \in Jobs : Exists(j)}
  <2>1. row' = [j \in Jobs |-> IF j \in S THEN Written("deleted") ELSE row[j]]
    BY <1>4 DEF Clear
  <2> QED
    BY <1>4, <2>1, DeleteRefines DEF Clear
<1>5. CASE Requeue
  <2>1. Stale \in SUBSET Jobs
    BY DEF Stale
  <2>2. stageBar' = [j \in Jobs |-> IF j \in Stale THEN "waiting" ELSE stageBar[j]]
    <3>1. /\ \A j \in Stale : Status(j)' = "queued"
          /\ \A k \in Jobs \ Stale : Status(k)' = Status(k)
      BY <1>5, <2>1 DEF Requeue, Status, Written
    <3> QED
      BY <2>1, <3>1, ManyStages, Stages
  <2>3. \A j \in Stale : stageBar[j] = "taken"
    BY Stages DEF Stale, stageBar
  <2>4. seized' = seized \cup {j \in Stale : holdersBar[j] # {}}
    BY <1>5, <2>1 DEF Requeue, holdersBar
  <2>5. Q!Return(Stale)
    BY <1>2, <2>2, <2>3, <2>4 DEF Q!Return
  <2> QED
    BY <2>1, <2>5 DEF Q!QNext
<1>6. CASE ClearByStatus \/ ClearOlderThan
  <2>1. PICK S \in SUBSET Jobs : Delete(S)
    BY <1>6 DEF ClearByStatus, ClearOlderThan
  <2> QED
    BY <2>1, DeleteRefines DEF Delete
<1>7. ASSUME NEW j \in Jobs, Enqueue(j) PROVE Q!QNext
  <2>1. stageBar' = [stageBar EXCEPT ![j] = "waiting"]
    <3>1. Status(j)' = "queued" /\ \A k \in Jobs : k # j => Status(k)' = Status(k)
      BY <1>7 DEF Enqueue, Store, Written, Status
    <3> QED
      BY <3>1, OneStage, Stages
  <2>2. Q!Add(j)
    BY <1>2, <1>7, <2>1, Stages DEF Enqueue, Q!Add, Q!Move, stageBar
  <2> QED
    BY <2>2 DEF Q!QNext
<1>8. ASSUME NEW j \in Jobs, CancelJob(j) PROVE Q!QNext
  <2>1. stageBar' = [stageBar EXCEPT ![j] = "ended"]
    <3>1. Status(j)' = "cancelled" /\ \A k \in Jobs : k # j => Status(k)' = Status(k)
      BY <1>8 DEF CancelJob, Store, Written, Status
    <3> QED
      BY <3>1, OneStage, Stages DEF Terminal
  <2>2. Q!Withdraw(j)
    BY <1>2, <1>8, <2>1, Stages DEF CancelJob, Q!Withdraw, Q!Move, stageBar
  <2> QED
    BY <2>2 DEF Q!QNext
<1>9. ASSUME NEW j \in Jobs, FallsDue(j) PROVE UNCHANGED << stageBar, holdersBar, seized >>
  BY <1>2, <1>9, SameStages DEF FallsDue, Status
<1>10. ASSUME NEW j \in Jobs, Age(j) PROVE UNCHANGED << stageBar, holdersBar, seized >>
  <2>1. \A k \in Jobs : row'[k].status = row[k].status
    BY <1>10 DEF Age, Row
  <2> QED
    BY <1>2, <1>10, <2>1, SameStages DEF Age, Status
<1> QED
  BY <1>3, <1>4, <1>5, <1>6, <1>7, <1>8, <1>9, <1>10

\* The steps of workers do.
LEMMA WorkerRefines ==
    ASSUME Inv, Inv', NEW w \in Workers,
           Select(w) \/ Work(w) \/ Rollback(w) \/ Abandon(w) \/ Shutdown(w)
    PROVE  Q!QNext \/ UNCHANGED << stageBar, holdersBar, seized >>
<1> USE DEF Inv
<1>1. CASE Select(w)
  <2>1. UNCHANGED << row, seized >> /\ worker[w].pc = "idle"
    BY <1>1 DEF Select
  <2>2. /\ worker'[w].pc = "selected"
        /\ \A v \in Workers : v # w => worker'[v] = worker[v]
    BY <1>1 DEF Select, TypeOK
  <2>3. \A v \in Workers, k \in Jobs : Holds(v, k)' <=> Holds(v, k)
    BY <2>1, <2>2 DEF Holds, Holding
  <2> QED
    BY <2>1, <2>3, SameStages, SameHolders DEF Status
<1>2. CASE Commit(w)
  <2>1. PICK j \in Jobs : j = worker[w].job
    BY <1>2 DEF Commit, TypeOK
  <2>2. stageBar' = [stageBar EXCEPT ![j] = "taken"]
    <3>1. Status(j)' = "processing" /\ \A k \in Jobs : k # j => Status(k)' = Status(k)
      BY <1>2, <2>1 DEF Commit, Store, Written, Status, TypeOK
    <3> QED
      BY <3>1, OneStage, Stages
  <2>3. \A v \in Workers, k \in Jobs : Holds(v, k)' <=> Holds(v, k) \/ (v = w /\ k = j)
    BY <1>2, <2>1, WorkerGoesType DEF Commit, Holds, Holding, TypeOK, WorkerStages
  <2>4. holdersBar' = [holdersBar EXCEPT ![j] = @ \cup {w}]
    BY <2>3 DEF holdersBar, HoldersOf
  <2>5. stageBar[j] = "waiting" /\ \A i \in Jobs : w \notin holdersBar[i]
    BY <1>2, <2>1, Stages
       DEF Commit, SelectionLocks, stageBar, holdersBar, HoldersOf, Holds, Holding
  <2>6. Q!Take(w, j)
    BY <1>2, <2>2, <2>4, <2>5 DEF Q!Take, Q!Move, Commit
  <2> QED
    BY <2>6 DEF Q!QNext
<1>3. CASE StartHandler(w) \/ HandlerEnds(w) \/ Rollback(w) \/ Shutdown(w)
  <2>1. UNCHANGED << row, seized >>
    BY <1>3 DEF StartHandler, HandlerEnds, Rollback, Shutdown
  <2>2. \A v \in Workers, k \in Jobs : Holds(v, k)' <=> Holds(v, k)
    BY <1>3, QuietInv
  <2> QED
    BY <2>1, <2>2, SameStages, SameHolders DEF Status
<1>4. ASSUME worker[w].pc \in Holding, LetsGo(w)
      PROVE  \E j \in Jobs :
                 /\ j = worker[w].job
                 /\ w \in holdersBar[j]
                 /\ holdersBar' = [holdersBar EXCEPT ![j] = @ \ {w}]
  <2>1. PICK j \in Jobs : j = worker[w].job
    BY <1>4 DEF Holding, TypeOK
  <2>2. \A v \in Workers, k \in Jobs : Holds(v, k)' <=> Holds(v, k) /\ v # w
    BY <1>4, LetsGoHolds
  <2>3. \A k \in Jobs : Holds(w, k) <=> k = j
    BY <1>4, <2>1 DEF Holds
  <2> QED
    BY <2>1, <2>2, <2>3 DEF holdersBar, HoldersOf
<1>5. CASE NoHandler(w) \/ Abandon(w)
  <2>1. /\ worker[w].pc \in Holding /\ LetsGo(w)
        /\ UNCHANGED << row, seized >>
    BY <1>5 DEF NoHandler, Abandon, Holding
  <2>2. PICK j \in Jobs : /\ w \in holdersBar[j]
                          /\ holdersBar' = [holdersBar EXCEPT ![j] = @ \ {w}]
    BY <1>4, <2>1
  <2>3. Q!LetGo(w, j)
    BY <2>1, <2>2, SameStages DEF Q!LetGo, Status
  <2> QED
    BY <2>3 DEF Q!QNext
<1>6. ASSUME NEW status \in {"queued", "completed", "failed"},
             worker[w].pc \in {"succeeded", "failed"}, WriteOutcome(w, status)
      PROVE  Q!QNext
  <2>1. PICK j \in Jobs : /\ j = worker[w].job
                          /\ w \in holdersBar[j]
                          /\ holdersBar' = [holdersBar EXCEPT ![j] = @ \ {w}]
    BY <1>4, <1>6 DEF WriteOutcome, Holding
  <2>2. \A k \in Jobs : k # j => Status(k)' = Status(k)
    BY <1>6, <2>1 DEF WriteOutcome, Status, TypeOK
  <2>3. Status(j) # "new"
    BY <2>1 DEF HeldIsMarked, holdersBar, HoldersOf
  <2>4. /\ Status(j) = "deleted" => Status(j)' = "deleted"
        /\ Status(j) # "deleted" => Status(j)' = status
    BY <1>6, <2>1, <2>3 DEF WriteOutcome, Status, Written, Exists, TypeOK
  <2>6. StageOf(status) \in {"ended", "waiting"}
    BY Stages DEF Terminal
  <2>7. CASE Status(j) = "deleted"
    <3>1. stageBar' = stageBar /\ stageBar[j] = "removed"
      BY <2>2, <2>4, <2>7, SameStages, Stages DEF stageBar
    <3>2. Q!Report(w, j)
      BY <1>6, <2>1, <3>1 DEF Q!Report, WriteOutcome
    <3> QED
      BY <3>2 DEF Q!QNext
  <2>8. CASE Status(j) # "deleted"
    <3>1. stageBar' = [stageBar EXCEPT ![j] = StageOf(status)]
      BY <2>2, <2>4, <2>8, OneStage
    <3>2. stageBar[j] # "removed"
      BY <2>8 DEF stageBar, StageOf
    <3>3. Q!Report(w, j)
      BY <1>6, <2>1, <2>6, <3>1, <3>2 DEF Q!Report, Q!Move, WriteOutcome
    <3> QED
      BY <3>3 DEF Q!QNext
  <2> QED
    BY <2>7, <2>8
<1>7. CASE CompleteJob(w) \/ FailJob(w)
  BY <1>6, <1>7 DEF CompleteJob, FailJob
<1> QED
  BY <1>1, <1>2, <1>3, <1>5, <1>7 DEF Work

\* Both SQL backends implement the abstract queue, whatever jobs, workers, tags
\* and handlers there are.
THEOREM SqlQueueImplementsQueue == Spec => ImplementsQueue
<1>1. Init => Q!QInit
  <2> SUFFICES ASSUME Init PROVE Q!QInit
    OBVIOUS
  <2>1. \A j \in Jobs : Status(j) = "new" /\ HoldersOf(j) = {}
    BY DEF Init, Status, Written, HoldersOf, Holds, Holding, IdleWorker
  <2> QED
    BY <2>1, Stages DEF Init, Q!QInit, stageBar, holdersBar
<1>2. Inv /\ Inv' /\ [Next]_vars => [Q!QNext]_<< stageBar, holdersBar, seized >>
  <2> SUFFICES ASSUME Inv, Inv', [Next]_vars
               PROVE  Q!QNext \/ UNCHANGED << stageBar, holdersBar, seized >>
    OBVIOUS
  <2>1. CASE Next
    BY <2>1, TableRefines, WorkerRefines DEF Next
  <2>2. CASE UNCHANGED vars
    <3>1. (\A j \in Jobs : Status(j)' = Status(j)) /\ seized' = seized
      BY <2>2 DEF vars, Status
    <3>2. \A v \in Workers, j \in Jobs : Holds(v, j)' <=> Holds(v, j)
      BY <2>2 DEF vars, Holds
    <3> QED
      BY <3>1, <3>2, SameStages, SameHolders
  <2> QED
    BY <2>1, <2>2
<1> QED
  BY <1>1, <1>2, InvHolds, PTL DEF Spec, ImplementsQueue, Q!QSpec, Q!qvars

=============================================================================
