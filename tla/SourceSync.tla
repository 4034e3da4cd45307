----------------------------- MODULE SourceSync -----------------------------
(***************************************************************************)
(* The job that copies a table of another database into a table of this    *)
(* one: the source is read on its own connection, then one transaction     *)
(* deletes the tenant's rows (full mode only) and inserts the copies in    *)
(* batches, and last_sync_at is set by a statement after the commit.  The  *)
(* queue runs jobs side by side and may run one again, and a manual        *)
(* trigger enqueues another one.                                           *)
(*                                                                         *)
(* The transaction is READ COMMITTED: its DELETE sees what is committed    *)
(* when the statement begins, and waits for others that have deleted rows  *)
(* of it.  The target has no constraint that a copy could violate.         *)
(***************************************************************************)
EXTENDS Integers, FiniteSets

CONSTANTS
    SourceRows,   \* rows the source may have
    SyncRuns,     \* runs of the job
    NoRun,        \* no run has set last_sync_at
    ReadLimit,    \* the LIMIT of the source query (10 000)
    BatchSize,    \* rows per INSERT (at most 500)
    MaxChanges    \* bound on changes of the source

ASSUME LimitAssumption == ReadLimit \in Nat \ {0}
ASSUME BatchAssumption == BatchSize \in Nat \ {0}
ASSUME NoRunAssumption == NoRun \notin SyncRuns

VARIABLES
    columnsGiven,  \* connection_config.columns is there
    source,        \* rows of the source table
    changes,       \* how often it was changed
    target,        \* committed rows of the target: which row, copied by which run
    run,           \* local state of each run
    lastSync,      \* the run whose end last_sync_at shows
    met            \* history: pairs of runs, of which the first was committed after the second
                   \* had read the source

syncVars == << columnsGiven, source, changes, target, run, lastSync, met >>

Copies == [row : SourceRows, by : SyncRuns]

\* rows: what was read; doomed: what the DELETE found; todo: rows still to insert;
\* fresh: rows inserted by this transaction.
RunState ==
    [ mode : {"full", "incremental"},
      pc : {"idle", "read", "begin", "delete", "insert", "touch", "done", "failed"},
      rows : SUBSET SourceRows, doomed : SUBSET Copies, todo : SUBSET SourceRows,
      fresh : SUBSET Copies ]

IdleRun == [ mode |-> "full", pc |-> "idle", rows |-> {}, doomed |-> {}, todo |-> {},
             fresh |-> {} ]

SyncTypeOK ==
    /\ columnsGiven \in BOOLEAN
    /\ source \subseteq SourceRows
    /\ changes \in Nat
    /\ target \subseteq Copies
    /\ run \in [SyncRuns -> RunState]
    /\ lastSync \in SyncRuns \cup {NoRun}
    /\ met \subseteq SyncRuns \X SyncRuns

SyncInit ==
    /\ columnsGiven \in BOOLEAN
    /\ source = SourceRows
    /\ changes = 0
    /\ target = {}
    /\ run = [r \in SyncRuns |-> IdleRun]
    /\ lastSync = NoRun
    /\ met = {}

-----------------------------------------------------------------------------

RunBecomes(r, state) == run' = [run EXCEPT ![r] = state]
RunGoes(r, stage) == RunBecomes(r, [run[r] EXCEPT !.pc = stage])
TablesUnchanged == UNCHANGED << columnsGiven, source, changes, target >>

\* Transactions that hold row locks: they have deleted, and not ended.
Holding(r) == IF run[r].pc = "insert" THEN run[r].doomed ELSE {}

\* Runs that have read the source and have not ended.
UnderWay == {r \in SyncRuns : run[r].pc \in {"begin", "delete", "insert"}}

ChangeSource(rows) ==
    /\ changes < MaxChanges
    /\ rows # source
    /\ source' = rows
    /\ changes' = changes + 1
    /\ UNCHANGED << columnsGiven, target, run, lastSync, met >>

\* run_table_sync, and a worker that takes the job; mode is the sync_mode of the table.
StartRun(r, mode) ==
    /\ run[r].pc = "idle"
    /\ RunBecomes(r, [IdleRun EXCEPT !.mode = mode, !.pc = "read"])
    /\ TablesUnchanged
    /\ UNCHANGED << lastSync, met >>

\* The rows of a SELECT without an order: when there are more, any of them.
Readable == {rows \in SUBSET source :
                Cardinality(rows) = ReadLimit \/ (rows = source /\ Cardinality(rows) < ReadLimit)}

\* An empty source is a success at once, unless the columns are configured.
ReadSource(r, rows) ==
    /\ run[r].pc = "read"
    /\ rows \in Readable
    /\ RunBecomes(r, [run[r] EXCEPT !.rows = rows,
                                    !.pc = IF rows = {} /\ ~columnsGiven THEN "touch"
                                           ELSE "begin"])
    /\ TablesUnchanged
    /\ UNCHANGED << lastSync, met >>

\* Mutant: a full run deletes nothing.
BeginCopy_KeepsTarget(r) ==
    /\ run[r].pc = "begin"
    /\ RunBecomes(r, [run[r] EXCEPT !.pc = "insert", !.todo = run[r].rows])
    /\ TablesUnchanged
    /\ UNCHANGED << lastSync, met >>

\* BEGIN; in full mode the DELETE takes its snapshot.
BeginCopy(r) ==
    LET s == run[r] IN
    /\ s.pc = "begin"
    /\ RunBecomes(r, IF s.mode = "full"
                     THEN [s EXCEPT !.pc = "delete", !.doomed = target]
                     ELSE [s EXCEPT !.pc = "insert", !.todo = s.rows])
    /\ TablesUnchanged
    /\ UNCHANGED << lastSync, met >>

\* The DELETE has its locks; rows that are gone by now are skipped.
DeleteTarget(r) ==
    /\ run[r].pc = "delete"
    /\ \A q \in SyncRuns \ {r} : Holding(q) \cap run[r].doomed = {}
    /\ RunBecomes(r, [run[r] EXCEPT !.pc = "insert", !.doomed = @ \cap target,
                                    !.todo = run[r].rows])
    /\ TablesUnchanged
    /\ UNCHANGED << lastSync, met >>

\* One INSERT of a chunk.
InsertBatch(r, chunk) ==
    LET s == run[r] IN
    /\ s.pc = "insert"
    /\ chunk \in SUBSET s.todo
    /\ chunk # {}
    /\ Cardinality(chunk) = BatchSize \/ (chunk = s.todo /\ Cardinality(chunk) < BatchSize)
    /\ RunBecomes(r, [s EXCEPT !.todo = @ \ chunk,
                               !.fresh = @ \cup [row : chunk, by : {r}]])
    /\ TablesUnchanged
    /\ UNCHANGED << lastSync, met >>

\* Mutant: a commit after every batch, where the run may stop.
CommitCopy_EachBatch(r) ==
    LET s == run[r] IN
    /\ s.pc = "insert"
    /\ target' = (target \ s.doomed) \cup s.fresh
    /\ RunBecomes(r, [s EXCEPT !.pc = "touch", !.doomed = {}, !.fresh = {}])
    /\ met' = met \cup ({r} \X (UnderWay \ {r}))
    /\ UNCHANGED << columnsGiven, source, changes, lastSync >>

CommitCopy(r) ==
    LET s == run[r] IN
    /\ s.pc = "insert"
    /\ s.todo = {}
    /\ target' = (target \ s.doomed) \cup s.fresh
    /\ RunBecomes(r, [s EXCEPT !.pc = "touch", !.doomed = {}, !.fresh = {}])
    /\ met' = met \cup ({r} \X (UnderWay \ {r}))
    /\ UNCHANGED << columnsGiven, source, changes, lastSync >>

\* touch_last_sync; its failure is only logged.
TouchLastSync(r) ==
    /\ run[r].pc = "touch"
    /\ \/ lastSync' = r
       \/ UNCHANGED lastSync
    /\ RunGoes(r, "done")
    /\ TablesUnchanged
    /\ UNCHANGED met

\* A query fails or the worker stops: the transaction is rolled back.
RunFails(r) ==
    /\ run[r].pc \in {"read", "begin", "delete", "insert"}
    /\ RunBecomes(r, [IdleRun EXCEPT !.mode = run[r].mode, !.pc = "failed"])
    /\ TablesUnchanged
    /\ UNCHANGED << lastSync, met >>

\* The queue runs a failed job again, or one whose end it did not learn of.
RunAgain(r, q) ==
    /\ run[r].pc \in {"failed", "touch", "done"}
    /\ run[q].pc = "idle"
    /\ RunBecomes(q, [IdleRun EXCEPT !.mode = run[r].mode, !.pc = "read"])
    /\ TablesUnchanged
    /\ UNCHANGED << lastSync, met >>

RunStep(r) ==
    \/ \E mode \in {"full", "incremental"} : StartRun(r, mode)
    \/ \E rows \in SUBSET SourceRows : ReadSource(r, rows)
    \/ BeginCopy(r)
    \/ DeleteTarget(r)
    \/ \E chunk \in SUBSET SourceRows : InsertBatch(r, chunk)
    \/ CommitCopy(r)
    \/ TouchLastSync(r)
    \/ RunFails(r)

SyncNext ==
    \/ \E r \in SyncRuns : RunStep(r)
    \/ \E r, q \in SyncRuns : RunAgain(r, q)
    \/ \E rows \in SUBSET SourceRows : ChangeSource(rows)

SyncSpec == SyncInit /\ [][SyncNext]_syncVars

-----------------------------------------------------------------------------
(* Properties.                                                             *)

CopiesOf(r) == {c \in target : c.by = r}

\* "a failure midway leaves the target table untouched" (workers/syncer.rs:254-257): what
\* is there of a run is all that it read, once, and it has committed.
CopiesAreWhole ==
    \A r \in SyncRuns : CopiesOf(r) # {} =>
        /\ CopiesOf(r) = [row : run[r].rows, by : {r}]
        /\ run[r].pc \in {"touch", "done"}

\* A full copy replaces what was there: two runs have rows in the target only if one of
\* them was incremental or one was committed after the other had read the source, so that
\* its DELETE need not have seen them (workers/syncer.rs:264-275).
CopiesReplace ==
    \A r, q \in SyncRuns :
        (r # q /\ CopiesOf(r) # {} /\ CopiesOf(q) # {}) =>
            \/ "incremental" \in {run[r].mode, run[q].mode}
            \/ << r, q >> \in met
            \/ << q, r >> \in met
=============================================================================
