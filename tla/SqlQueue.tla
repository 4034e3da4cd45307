------------------------------ MODULE SqlQueue ------------------------------
(***************************************************************************)
(* The Postgres and SQLite backends of the background job queue            *)
(* (bgworker/pg.rs, bgworker/sqlt.rs) behind the facade of bgworker/mod.rs *)
(* and the commands that administer it.  A job is a row; a worker selects  *)
(* the earliest due row and marks it in one transaction, runs the handler  *)
(* outside of it, and writes the outcome by the row's id alone.            *)
(*                                                                         *)
(* The configuration chooses the backend.  Postgres locks the row that was *)
(* selected and other workers skip it; SQLite lets one transaction write   *)
(* at a time, and a dequeue begins with the row of a lock table.           *)
(***************************************************************************)
EXTENDS Integers

CONSTANTS
    Jobs,          \* jobs, each enqueued once under an id and a name of its own
    Workers,       \* worker loops, of any number of processes
    Takes,         \* worker -> jobs whose tags it processes
    Handles,       \* worker -> jobs whose name is in the registry of its process
    Recurring,     \* jobs with an interval
    NoJob,         \* no job
    MaxRequeues    \* bound on how often an operator requeues stalled jobs

ASSUME TakesAssumption == Takes \in [Workers -> SUBSET Jobs]
ASSUME HandlesAssumption == Handles \in [Workers -> SUBSET Jobs]
ASSUME RecurringAssumption == Recurring \subseteq Jobs
ASSUME NoJobAssumption == NoJob \notin Jobs
ASSUME RequeuesAssumption == MaxRequeues \in Nat

VARIABLES
    backend,     \* configuration: the database of the queue
    flush,       \* configuration: dangerously_flush
    tables,      \* the tables exist
    flushing,    \* a process has set the tables up and is about to clear them
    row,         \* the table: job -> its row
    due,         \* unfinished jobs whose run_at has passed
    ahead,       \* job -> due jobs with an earlier run_at
    lockRow,     \* SQLite: the row of the lock table exists
    worker,      \* local state of each worker
    requeues,    \* requeues so far
    seized,      \* history: jobs requeued while a worker had them
    abandoned    \* history: jobs a worker had and neither completed nor failed

config == << backend, flush >>
vars == << config, tables, flushing, row, due, ahead, lockRow, worker, requeues,
           seized, abandoned >>

line == << due, ahead >>

-----------------------------------------------------------------------------
(* Rows and local states.                                                  *)

Terminal == {"completed", "failed", "cancelled"}
Statuses == {"new", "queued", "processing", "deleted"} \cup Terminal

\* old: updated_at is past the age of requeue.
Row == [status : Statuses, old : BOOLEAN]

\* What is written with updated_at = now.
Written(status) == [status |-> status, old |-> FALSE]

Status(j) == row[j].status
Exists(j) == Status(j) \notin {"new", "deleted"}
Store(j, status) == row' = [row EXCEPT ![j] = Written(status)]

\* selected: in the transaction of the dequeue; marked: committed, the answer
\* is on its way; succeeded, failed: the handler is over.
WorkerStages == {"idle", "selected", "marked", "running", "succeeded", "failed", "stopped"}
WorkerState == [pc : WorkerStages, job : Jobs \cup {NoJob}]
IdleWorker == [pc |-> "idle", job |-> NoJob]

WorkerGoes(w, stage) == worker' = [worker EXCEPT ![w].pc = stage]
\* Mutant: the job is dropped and the loop does not come round.
LetsGo_JobOnly(w) == worker' = [worker EXCEPT ![w].job = NoJob]

LetsGo(w) == worker' = [worker EXCEPT ![w] = IdleWorker]

Holding == {"marked", "running", "succeeded", "failed"}
Holds(w, j) == worker[w].pc \in Holding /\ worker[w].job = j
HoldersOf(j) == {w \in Workers : Holds(w, j)}

\* run_at = now is after that of every due job.
Join(j) ==
    /\ due' = due \cup {j}
    /\ ahead' = [ahead EXCEPT ![j] = due \ {j}]
Leave(S) ==
    /\ due' = due \ S
    /\ ahead' = [j \in Jobs |-> IF j \in S THEN {} ELSE ahead[j] \ S]

\* A statement that writes the row waits: for the row in Postgres, for the
\* whole database in SQLite.
InTransaction(j) ==
    \E w \in Workers :
        worker[w].pc = "selected" /\ (backend = "sqlite" \/ worker[w].job = j)
Unlocked(S) == \A j \in S : ~InTransaction(j)

TypeOK ==
    /\ backend \in {"postgres", "sqlite"}
    /\ flush \in BOOLEAN
    /\ tables \in BOOLEAN
    /\ flushing \in BOOLEAN
    /\ row \in [Jobs -> Row]
    /\ due \subseteq Jobs
    /\ ahead \in [Jobs -> SUBSET Jobs]
    /\ lockRow \in BOOLEAN
    /\ worker \in [Workers -> WorkerState]
    /\ \A w \in Workers : worker[w].pc \notin {"idle", "stopped"} => worker[w].job \in Jobs
    /\ requeues \in 0 .. MaxRequeues
    /\ seized \subseteq Jobs
    /\ abandoned \subseteq Jobs

Init ==
    /\ backend \in {"postgres", "sqlite"}
    /\ flush \in BOOLEAN
    /\ tables = FALSE
    /\ flushing = FALSE
    /\ row = [j \in Jobs |-> Written("new")]
    /\ due = {}
    /\ ahead = [j \in Jobs |-> {}]
    /\ lockRow = FALSE
    /\ worker = [w \in Workers |-> IdleWorker]
    /\ requeues = 0
    /\ seized = {}
    /\ abandoned = {}

-----------------------------------------------------------------------------
(* A process starts: setup creates what is missing, clear empties the      *)
(* tables if the configuration says so.  Other processes go on meanwhile.  *)

Setup ==
    /\ ~flushing
    /\ Unlocked(Jobs)
    /\ tables' = TRUE
    /\ flushing' = flush
    /\ lockRow' = (backend = "sqlite")
    /\ UNCHANGED << config, row, line, worker, requeues, seized, abandoned >>

\* The rows go, and SQLite's lock row with them.
Clear ==
    /\ flushing
    /\ Unlocked(Jobs)
    /\ flushing' = FALSE
    /\ row' = [j \in Jobs |-> IF Exists(j) THEN Written("deleted") ELSE row[j]]
    /\ Leave(Jobs)
    /\ lockRow' = FALSE
    /\ UNCHANGED << config, tables, worker, requeues, seized, abandoned >>

\* One INSERT, due at once.
Enqueue(j) ==
    /\ tables
    /\ Status(j) = "new"
    /\ backend = "sqlite" => Unlocked({j})
    /\ Store(j, "queued")
    /\ Join(j)
    /\ UNCHANGED << config, tables, flushing, lockRow, worker, requeues, seized, abandoned >>

\* The run_at of a recurring job passes.
FallsDue(j) ==
    /\ Status(j) = "queued"
    /\ j \notin due
    /\ Join(j)
    /\ UNCHANGED << config, tables, flushing, row, lockRow, worker, requeues, seized, abandoned >>

-----------------------------------------------------------------------------
(* The worker loop.  Without a job to select, a dequeue changes nothing.   *)

\* Mutant: no FOR UPDATE SKIP LOCKED.
Candidates_NoLock(w) ==
    {j \in due \cap Takes[w] : Status(j) = "queued"}

\* The rows that the query of w does not leave out.
Candidates(w) ==
    {j \in due \cap Takes[w] : Status(j) = "queued" /\ ~InTransaction(j)}

\* Mutant: the row is marked before the transaction begins.
Select_MarksAtOnce(w) ==
    /\ tables
    /\ worker[w].pc = "idle"
    /\ backend = "sqlite" => lockRow
    /\ \E j \in Candidates(w) :
          /\ ahead[j] \cap Candidates(w) = {}
          /\ worker' = [worker EXCEPT ![w] = [pc |-> "selected", job |-> j]]
          /\ Store(j, "processing")
    /\ UNCHANGED << config, tables, flushing, line, lockRow, requeues, seized, abandoned >>

\* Mutant: no ORDER BY.
Select_AnyRow(w) ==
    /\ tables
    /\ worker[w].pc = "idle"
    /\ backend = "sqlite" => lockRow
    /\ \E j \in Candidates(w) :
          worker' = [worker EXCEPT ![w] = [pc |-> "selected", job |-> j]]
    /\ UNCHANGED << config, tables, flushing, row, line, lockRow, requeues, seized, abandoned >>

\* BEGIN, the lock row in SQLite, SELECT ... ORDER BY run_at LIMIT 1.
Select(w) ==
    /\ tables
    /\ worker[w].pc = "idle"
    /\ backend = "sqlite" => lockRow
    /\ \E j \in Candidates(w) :
          /\ ahead[j] \cap Candidates(w) = {}
          /\ worker' = [worker EXCEPT ![w] = [pc |-> "selected", job |-> j]]
    /\ UNCHANGED << config, tables, flushing, row, line, lockRow, requeues, seized, abandoned >>

\* UPDATE, COMMIT.
Commit(w) ==
    /\ worker[w].pc = "selected"
    /\ Store(worker[w].job, "processing")
    /\ WorkerGoes(w, "marked")
    /\ UNCHANGED << config, tables, flushing, line, lockRow, requeues, seized, abandoned >>

\* A statement fails or the worker stops: the row is as it was.
Rollback(w) ==
    /\ worker[w].pc = "selected"
    /\ LetsGo(w)
    /\ UNCHANGED << config, tables, flushing, row, line, lockRow, requeues, seized, abandoned >>

StartHandler(w) ==
    /\ worker[w].pc = "marked"
    /\ worker[w].job \in Handles[w]
    /\ WorkerGoes(w, "running")
    /\ UNCHANGED << config, tables, flushing, row, line, lockRow, requeues, seized, abandoned >>

\* No handler of that name: an entry in the log, and the row stays as it is.
NoHandler(w) ==
    /\ worker[w].pc = "marked"
    /\ worker[w].job \notin Handles[w]
    /\ LetsGo(w)
    /\ abandoned' = abandoned \cup {worker[w].job}
    /\ UNCHANGED << config, tables, flushing, row, line, lockRow, requeues, seized >>

\* perform returns, or panics and is caught.
HandlerEnds(w) ==
    /\ worker[w].pc = "running"
    /\ \E outcome \in {"succeeded", "failed"} : WorkerGoes(w, outcome)
    /\ UNCHANGED << config, tables, flushing, row, line, lockRow, requeues, seized, abandoned >>

\* UPDATE ... WHERE id: it asks for no status, and finds no row that was deleted.
WriteOutcome(w, status) ==
    LET j == worker[w].job IN
    /\ Unlocked({j})
    /\ row' = IF Exists(j) THEN [row EXCEPT ![j] = Written(status)] ELSE row
    /\ Leave({j})
    /\ LetsGo(w)
    /\ UNCHANGED << config, tables, flushing, lockRow, requeues, seized, abandoned >>

\* A recurring job is queued again, for later.
CompleteJob(w) ==
    /\ worker[w].pc = "succeeded"
    /\ WriteOutcome(w, IF worker[w].job \in Recurring THEN "queued" ELSE "completed")

\* Failed is final for a recurring job too.
FailJob(w) ==
    /\ worker[w].pc = "failed"
    /\ WriteOutcome(w, "failed")

\* The process stops with the job in hand, the answer to COMMIT is lost, or the
\* outcome cannot be written (a busy SQLite): the error is logged, the row stays.
Abandon(w) ==
    /\ worker[w].pc \in Holding
    /\ LetsGo(w)
    /\ abandoned' = abandoned \cup {worker[w].job}
    /\ UNCHANGED << config, tables, flushing, row, line, lockRow, requeues, seized >>

\* The token is cancelled: a worker ends between two jobs.
Shutdown(w) ==
    /\ worker[w].pc = "idle"
    /\ WorkerGoes(w, "stopped")
    /\ UNCHANGED << config, tables, flushing, row, line, lockRow, requeues, seized, abandoned >>

-----------------------------------------------------------------------------
(* The commands, one statement each.                                       *)

\* Mutant: the statement does not ask for the status.
CancelJob_AnyStatus(j) ==
    /\ Exists(j)
    /\ Unlocked({j})
    /\ Store(j, "cancelled")
    /\ Leave({j})
    /\ UNCHANGED << config, tables, flushing, lockRow, worker, requeues, seized, abandoned >>

CancelJob(j) ==
    /\ Status(j) = "queued"
    /\ Unlocked({j})
    /\ Store(j, "cancelled")
    /\ Leave({j})
    /\ UNCHANGED << config, tables, flushing, lockRow, worker, requeues, seized, abandoned >>

\* Mutant: failed jobs as well.
Stale_Failed ==
    {j \in Jobs : Status(j) = "failed" \/ (Status(j) = "processing" /\ row[j].old)}

Stale == {j \in Jobs : Status(j) = "processing" /\ row[j].old}

\* By age alone: run_at, and with it the place in the line, is as before.
Requeue ==
    /\ Stale # {}
    /\ requeues < MaxRequeues
    /\ requeues' = requeues + 1
    /\ backend = "sqlite" => Unlocked(Jobs)
    /\ row' = [j \in Jobs |-> IF j \in Stale THEN Written("queued") ELSE row[j]]
    /\ seized' = seized \cup {j \in Stale : HoldersOf(j) # {}}
    /\ UNCHANGED << config, tables, flushing, line, lockRow, worker, abandoned >>

\* DELETE of the rows in S.
Delete(S) ==
    /\ \A j \in S : Exists(j)
    /\ Unlocked(S)
    /\ row' = [j \in Jobs |-> IF j \in S THEN Written("deleted") ELSE row[j]]
    /\ Leave(S)
    /\ UNCHANGED << config, tables, flushing, lockRow, worker, requeues, seized, abandoned >>

\* jobs tidy: everything completed or cancelled.
ClearByStatus ==
    LET ended == {j \in Jobs : Status(j) \in {"completed", "cancelled"}} IN
    /\ ended # {}
    /\ Delete(ended)

\* jobs purge: the rows of the given statuses that are old enough, which may be
\* any of them.
ClearOlderThan == \E S \in SUBSET Jobs : S # {} /\ Delete(S)

\* Time passes over a row that is being processed.
Age(j) ==
    /\ Status(j) = "processing"
    /\ ~row[j].old
    /\ row' = [row EXCEPT ![j].old = TRUE]
    /\ UNCHANGED << config, tables, flushing, line, lockRow, worker, requeues, seized, abandoned >>

-----------------------------------------------------------------------------
Work(w) ==
    \/ Commit(w) \/ StartHandler(w) \/ NoHandler(w)
    \/ HandlerEnds(w) \/ CompleteJob(w) \/ FailJob(w)

Next ==
    \/ Setup \/ Clear
    \/ \E j \in Jobs : Enqueue(j) \/ FallsDue(j) \/ CancelJob(j) \/ Age(j)
    \/ \E w \in Workers : Select(w) \/ Work(w) \/ Rollback(w) \/ Abandon(w) \/ Shutdown(w)
    \/ Requeue \/ ClearByStatus \/ ClearOlderThan

Spec == Init /\ [][Next]_vars

\* A worker's own steps are taken if they stay possible, and time passes.  A
\* worker polls for as long as it runs, and a blocked SQLite transaction tries
\* again: an opening that comes back for ever is used at last; and a database
\* that fails does not fail every dequeue of a job.
CommitOf(j) == \E w \in Workers : worker[w].job = j /\ Commit(w)

Fairness ==
    /\ \A w \in Workers : WF_vars(Work(w)) /\ SF_vars(Select(w))
    /\ \A j \in Jobs : WF_vars(FallsDue(j)) /\ SF_vars(CommitOf(j))

LiveSpec == Spec /\ Fairness

-----------------------------------------------------------------------------
(* Properties.                                                             *)

\* Two workers have one job only after a requeue took it from under the first
\* of them: nothing else lets dequeue select a row twice.
ExclusiveHold ==
    \A j \in Jobs : j \notin seized =>
        \A v, w \in Workers : Holds(v, j) /\ Holds(w, j) => v = w

\* A row stays in processing without a worker only where a worker gave it up:
\* the statement that marks it commits together with the selection, and every
\* outcome that is written ends it.
StuckOnlyByFailure ==
    \A j \in Jobs :
        Status(j) = "processing" => HoldersOf(j) # {} \/ j \in abandoned

\* A job that was completed, failed or cancelled keeps that status until it is
\* deleted.  Outcomes are written by id, whatever the row says: only a job that
\* was requeued from under its worker can be brought back by that worker.
EndedIsFinal ==
    [][\A j \in Jobs :
          Status(j) \in Terminal /\ Status(j)' \notin {Status(j), "deleted"} => j \in seized]_vars

\* A due job that some worker takes does not wait for ever behind other jobs,
\* recurring ones included, unless those workers are all shut down or the queue
\* is an SQLite database configured to be flushed at the start.
Served ==
    \A j \in Jobs :
        Status(j) = "queued" /\ ~(backend = "sqlite" /\ flush)
            ~> \/ Status(j) # "queued"
               \/ \A w \in Workers : j \in Takes[w] => worker[w].pc = "stopped"

\* The same of every configuration: setup and flush make a queue that works.
FlushedQueueServes ==
    \A j \in Jobs :
        Status(j) = "queued"
            ~> \/ Status(j) # "queued"
               \/ \A w \in Workers : j \in Takes[w] => worker[w].pc = "stopped"

-----------------------------------------------------------------------------
(* The abstract queue.                                                     *)

StageOf(status) ==
    CASE status = "new" -> "new"
      [] status = "queued" -> "waiting"
      [] status = "processing" -> "taken"
      [] status = "deleted" -> "removed"
      [] OTHER -> "ended"

stageBar == [j \in Jobs |-> StageOf(Status(j))]
holdersBar == [j \in Jobs |-> HoldersOf(j)]

Q == INSTANCE Queue WITH stage <- stageBar, holders <- holdersBar, released <- seized

\* Both backends implement the abstract queue: transactions, row locks, the
\* lock table and the line are not seen from outside.
ImplementsQueue == Q!QSpec

=============================================================================
