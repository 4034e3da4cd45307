------------------------------ MODULE JobQueue ------------------------------
(***************************************************************************)
(* The Redis backend of the background job queue (bgworker/redis.rs) and   *)
(* the pages and commands that administer it.  A job is a record under     *)
(* job:<id>; its id is an element of the list queue:<name> while it waits  *)
(* and of the set processing:<name> while a worker has it.  Only the pop   *)
(* is atomic (a script); everything else is a sequence of commands between *)
(* which other workers and tools run, and in which a process may stop.     *)
(*                                                                         *)
(* One queue name: queues of different names share no key.  The record of  *)
(* a job says "queued" until it ends, also while it is being run.          *)
(***************************************************************************)
EXTENDS Integers, FiniteSets, Sequences, SequencesExt

CONSTANTS
    Jobs,       \* jobs, each enqueued once under an id of its own
    Workers,    \* worker loops, of any number of processes
    Tools,      \* runs of a command of the CLI or of a queue page
    Takes,      \* worker -> jobs whose tags it processes
    NoJob,      \* no job
    MaxAgings   \* bound on how often a record reaches the age of requeue

ASSUME TakesAssumption == Takes \in [Workers -> SUBSET Jobs]
ASSUME NoJobAssumption == NoJob \notin Jobs
ASSUME AgingsAssumption == MaxAgings \in Nat

VARIABLES
    queue,       \* Redis list of waiting ids
    processing,  \* Redis set of ids that were popped and not released
    record,      \* Redis: job -> its record
    producer,    \* progress of each job's enqueue
    worker,      \* local state of each worker
    tool,        \* local state of each tool
    agings,      \* how often a record has reached the age of requeue
    credit,      \* history: job -> times put in the queue, less starts and removals
    excused,     \* history: jobs deleted, interrupted between two keys, or marked
                 \* queued again while a worker had them
    seized       \* history: jobs released from under the worker that has them

vars == << queue, processing, record, producer, worker, tool, agings, credit,
           excused, seized >>

history == << credit, excused, seized >>

-----------------------------------------------------------------------------
(* Records and local states.                                               *)

Statuses == {"none", "queued", "completed", "failed", "cancelled"}
Terminal == {"completed", "failed", "cancelled"}

\* args: the arguments are still there; old: updated_at is past the age of requeue.
JobRecord == [status : Statuses, args : BOOLEAN, old : BOOLEAN]
NoRecord == [status |-> "none", args |-> FALSE, old |-> FALSE]

\* What is written with updated_at = now.
Written(status, args) == [status |-> status, args |-> args, old |-> FALSE]

Exists(j) == record[j].status # "none"
Store(j, r) == record' = [record EXCEPT ![j] = r]
Waiting == {queue[i] : i \in 1 .. Len(queue)}

\* popped: out of the script; missing, skipping: about to release; returning:
\* released and not queued; running; succeeded, failed: the handler is over;
\* completing, failing: the record was read; releasing: the record is written.
WorkerStages == {"idle", "popped", "missing", "skipping", "returning", "running",
                 "succeeded", "failed", "completing", "failing", "releasing"}
WorkerState == [pc : WorkerStages, job : Jobs \cup {NoJob}, args : BOOLEAN]
IdleWorker == [pc |-> "idle", job |-> NoJob, args |-> FALSE]

WorkerBecomes(w, state) == worker' = [worker EXCEPT ![w] = state]
WorkerGoes(w, stage) == WorkerBecomes(w, [worker[w] EXCEPT !.pc = stage])

\* The jobs whose id the worker put in the processing set and has not taken out.
Holds(w, j) == worker[w].job = j /\ worker[w].pc \notin {"idle", "returning"}
Held(j) == \E w \in Workers : Holds(w, j)

\* scan: the list of jobs is in hand; take, drop, save, push: one job is moved;
\* get, collect, erase, unlink, release: the stages of a deletion.
ToolStages == {"idle", "scan", "take", "drop", "save", "push",
               "get", "collect", "erase", "unlink", "release"}
ToolState ==
    [ op : {"none", "requeue", "cancel", "delete"}, pc : ToolStages, todo : SUBSET Jobs,
      ids : SUBSET Jobs, job : Jobs \cup {NoJob}, args : BOOLEAN ]
IdleTool ==
    [op |-> "none", pc |-> "idle", todo |-> {}, ids |-> {}, job |-> NoJob, args |-> FALSE]

ToolBecomes(t, state) == tool' = [tool EXCEPT ![t] = state]
ToolAt(t, op, stage) == tool[t].op = op /\ tool[t].pc = stage

\* The tool goes on to its next job, or is done.
Onward(s) ==
    IF s.todo \ {s.job} = {} THEN IdleTool
    ELSE [s EXCEPT !.pc = "scan", !.todo = @ \ {s.job}, !.job = NoJob, !.args = FALSE]

TypeOK ==
    /\ queue \in Seq(Jobs)
    /\ processing \subseteq Jobs
    /\ record \in [Jobs -> JobRecord]
    /\ producer \in [Jobs -> {"new", "saved", "done"}]
    /\ worker \in [Workers -> WorkerState]
    /\ \A w \in Workers : worker[w].pc # "idle" => worker[w].job \in Jobs
    /\ tool \in [Tools -> ToolState]
    /\ \A t \in Tools : tool[t].pc \in {"take", "drop", "save", "push"} => tool[t].job \in Jobs
    /\ agings \in Nat
    /\ credit \in [Jobs -> Int]
    /\ excused \subseteq Jobs
    /\ seized \subseteq Jobs

Init ==
    /\ queue = << >>
    /\ processing = {}
    /\ record = [j \in Jobs |-> NoRecord]
    /\ producer = [j \in Jobs |-> "new"]
    /\ worker = [w \in Workers |-> IdleWorker]
    /\ tool = [t \in Tools |-> IdleTool]
    /\ agings = 0
    /\ credit = [j \in Jobs |-> 0]
    /\ excused = {}
    /\ seized = {}

-----------------------------------------------------------------------------
(* enqueue: SET the record, RPUSH the id.                                  *)

EnqueueSave(j) ==
    /\ producer[j] = "new"
    /\ Store(j, Written("queued", TRUE))
    /\ producer' = [producer EXCEPT ![j] = "saved"]
    /\ UNCHANGED << queue, processing, worker, tool, agings, history >>

EnqueuePush(j) ==
    /\ producer[j] = "saved"
    /\ queue' = Append(queue, j)
    /\ producer' = [producer EXCEPT ![j] = "done"]
    /\ credit' = [credit EXCEPT ![j] = @ + 1]
    /\ UNCHANGED << processing, record, worker, tool, agings, excused, seized >>

\* The caller gets an error, or has stopped; the record stays.
EnqueueFails(j) ==
    /\ producer[j] = "saved"
    /\ producer' = [producer EXCEPT ![j] = "done"]
    /\ excused' = excused \cup {j}
    /\ UNCHANGED << queue, processing, record, worker, tool, agings, credit, seized >>

-----------------------------------------------------------------------------
(* The worker loop: pop, read the record, run, end.                        *)

\* Mutant: the script does not look at what SADD returned.
Pop_AnyMember(w) ==
    /\ worker[w].pc = "idle"
    /\ queue # << >>
    /\ queue' = Tail(queue)
    /\ processing' = processing \cup {Head(queue)}
    /\ WorkerBecomes(w, [IdleWorker EXCEPT !.pc = "popped", !.job = Head(queue)])
    /\ UNCHANGED << record, producer, tool, agings, history >>

\* Mutant: the head of the list is read and not removed.
Pop_Peek(w) ==
    /\ worker[w].pc = "idle"
    /\ queue # << >>
    /\ Head(queue) \notin processing
    /\ processing' = processing \cup {Head(queue)}
    /\ WorkerBecomes(w, [IdleWorker EXCEPT !.pc = "popped", !.job = Head(queue)])
    /\ UNCHANGED << queue, record, producer, tool, agings, history >>

\* The script: an id that is in the processing set already is popped and lost.
Pop(w) ==
    /\ worker[w].pc = "idle"
    /\ queue # << >>
    /\ queue' = Tail(queue)
    /\ processing' = processing \cup {Head(queue)}
    /\ IF Head(queue) \in processing
       THEN UNCHANGED worker
       ELSE WorkerBecomes(w, [IdleWorker EXCEPT !.pc = "popped", !.job = Head(queue)])
    /\ UNCHANGED << record, producer, tool, agings, history >>

\* Whatever the status is: the tags decide.  The handler starts.
StartJob(w) ==
    LET j == worker[w].job IN
    /\ worker[w].pc = "popped"
    /\ Exists(j)
    /\ j \in Takes[w]
    /\ WorkerBecomes(w, [worker[w] EXCEPT !.pc = "running", !.args = record[j].args])
    /\ credit' = [credit EXCEPT ![j] = @ - 1]
    /\ UNCHANGED << queue, processing, record, producer, tool, agings, excused, seized >>

SkipJob(w) ==
    LET j == worker[w].job IN
    /\ worker[w].pc = "popped"
    /\ WorkerGoes(w, IF ~Exists(j) THEN "missing" ELSE "skipping")
    /\ Exists(j) => j \notin Takes[w]
    /\ UNCHANGED << queue, processing, record, producer, tool, agings, history >>

\* Mutant: the id is queued again while it is still in the processing set.
ReturnJob_PushFirst(w) ==
    LET j == worker[w].job IN
    /\ worker[w].pc = "skipping"
    /\ queue' = Append(queue, j)
    /\ WorkerGoes(w, "releasing")
    /\ UNCHANGED << processing, record, producer, tool, agings, history >>

\* Tags of another worker: SREM, then RPUSH at the end of the queue.
ReturnJob(w) ==
    LET j == worker[w].job IN
    /\ worker[w].pc = "skipping"
    /\ processing' = processing \ {j}
    /\ WorkerGoes(w, "returning")
    /\ UNCHANGED << queue, record, producer, tool, agings, history >>

PushBack(w) ==
    /\ worker[w].pc = "returning"
    /\ queue' = Append(queue, worker[w].job)
    /\ WorkerBecomes(w, IdleWorker)
    /\ UNCHANGED << processing, record, producer, tool, agings, history >>

\* perform returns, panics (caught), or cannot read its arguments (an error).
HandlerEnds(w) ==
    /\ worker[w].pc = "running"
    /\ \E stage \in {"succeeded", "failed"} :
          /\ stage = "succeeded" => worker[w].args
          /\ WorkerBecomes(w, [worker[w] EXCEPT !.pc = stage, !.args = FALSE])
    /\ UNCHANGED << queue, processing, record, producer, tool, agings, history >>

\* complete_job: without a record the id stays in the processing set.
CompleteRead(w) ==
    LET j == worker[w].job IN
    /\ worker[w].pc = "succeeded"
    /\ WorkerBecomes(w, IF Exists(j)
                        THEN [worker[w] EXCEPT !.pc = "completing", !.args = record[j].args]
                        ELSE IdleWorker)
    /\ UNCHANGED << queue, processing, record, producer, tool, agings, history >>

CompleteWrite(w) ==
    /\ worker[w].pc = "completing"
    /\ Store(worker[w].job, Written("completed", worker[w].args))
    /\ WorkerBecomes(w, [worker[w] EXCEPT !.pc = "releasing", !.args = FALSE])
    /\ UNCHANGED << queue, processing, producer, tool, agings, history >>

\* Mutant: the status of a run in progress is stored.
FailWrite_Processing(w) ==
    /\ worker[w].pc = "failing"
    /\ Store(worker[w].job, Written("processing", FALSE))
    /\ WorkerGoes(w, "releasing")
    /\ UNCHANGED << queue, processing, producer, tool, agings, history >>

\* fail_job: without a record the id is released all the same.
FailRead(w) ==
    /\ worker[w].pc = "failed"
    /\ WorkerGoes(w, IF Exists(worker[w].job) THEN "failing" ELSE "releasing")
    /\ UNCHANGED << queue, processing, record, producer, tool, agings, history >>

\* The error takes the place of the arguments.
FailWrite(w) ==
    /\ worker[w].pc = "failing"
    /\ Store(worker[w].job, Written("failed", FALSE))
    /\ WorkerGoes(w, "releasing")
    /\ UNCHANGED << queue, processing, producer, tool, agings, history >>

Release(w) ==
    /\ worker[w].pc \in {"missing", "releasing"}
    /\ processing' = processing \ {worker[w].job}
    /\ WorkerBecomes(w, IdleWorker)
    /\ UNCHANGED << queue, record, producer, tool, agings, history >>

\* A command fails and the loop goes on, no handler has the job's name, or the
\* process stops and comes back: what was written stays as it is.
WorkerFails(w) ==
    /\ worker[w].pc # "idle"
    /\ excused' = IF worker[w].pc = "returning" THEN excused \cup {worker[w].job} ELSE excused
    /\ WorkerBecomes(w, IdleWorker)
    /\ UNCHANGED << queue, processing, record, producer, tool, agings, credit, seized >>

-----------------------------------------------------------------------------
(* requeue (CLI): the members of the processing set, one after another.    *)

StartRequeue(t) ==
    /\ tool[t].pc = "idle"
    /\ processing # {}
    /\ ToolBecomes(t, [IdleTool EXCEPT !.op = "requeue", !.pc = "scan", !.todo = processing])
    /\ UNCHANGED << queue, processing, record, producer, worker, agings, history >>

\* Only the age of the record counts, which nothing renews when a job is popped.
RequeueRead(t, j) ==
    LET s == [tool[t] EXCEPT !.job = j] IN
    /\ ToolAt(t, "requeue", "scan")
    /\ j \in tool[t].todo
    /\ ToolBecomes(t, IF Exists(j) /\ record[j].old
                      THEN [s EXCEPT !.pc = "take", !.args = record[j].args]
                      ELSE Onward(s))
    /\ UNCHANGED << queue, processing, record, producer, worker, agings, history >>

RequeueTake(t) ==
    LET j == tool[t].job IN
    /\ ToolAt(t, "requeue", "take")
    /\ processing' = processing \ {j}
    /\ seized' = IF Held(j) THEN seized \cup {j} ELSE seized
    /\ ToolBecomes(t, [tool[t] EXCEPT !.pc = "save"])
    /\ UNCHANGED << queue, record, producer, worker, agings, credit, excused >>

\* Whatever the record says by now: it is the one read that is written back.
RequeueSave(t) ==
    /\ ToolAt(t, "requeue", "save")
    /\ Store(tool[t].job, Written("queued", tool[t].args))
    /\ excused' = IF Held(tool[t].job) THEN excused \cup {tool[t].job} ELSE excused
    /\ ToolBecomes(t, [tool[t] EXCEPT !.pc = "push"])
    /\ UNCHANGED << queue, processing, producer, worker, agings, credit, seized >>

RequeuePush(t) ==
    LET j == tool[t].job IN
    /\ ToolAt(t, "requeue", "push")
    /\ queue' = Append(queue, j)
    /\ credit' = [credit EXCEPT ![j] = @ + 1]
    /\ ToolBecomes(t, Onward(tool[t]))
    /\ UNCHANGED << processing, record, producer, worker, agings, excused, seized >>

-----------------------------------------------------------------------------
(* cancel (CLI): the ids of the queue, one after another.  All jobs have   *)
(* the name that is cancelled.                                             *)

StartCancel(t) ==
    /\ tool[t].pc = "idle"
    /\ queue # << >>
    /\ ToolBecomes(t, [IdleTool EXCEPT !.op = "cancel", !.pc = "scan", !.todo = Waiting])
    /\ UNCHANGED << queue, processing, record, producer, worker, agings, history >>

CancelRead(t, j) ==
    LET s == [tool[t] EXCEPT !.job = j] IN
    /\ ToolAt(t, "cancel", "scan")
    /\ j \in tool[t].todo
    /\ ToolBecomes(t, IF record[j].status = "queued"
                      THEN [s EXCEPT !.pc = "drop", !.args = record[j].args]
                      ELSE Onward(s))
    /\ UNCHANGED << queue, processing, record, producer, worker, agings, history >>

\* LREM 1: the first occurrence, or nothing if a worker has popped the id since.
Unlisted(j) ==
    \/ /\ j \notin Waiting
       /\ UNCHANGED << queue, credit >>
    \/ /\ \E i \in 1 .. Len(queue) :
             /\ queue[i] = j
             /\ \A k \in 1 .. i - 1 : queue[k] # j
             /\ queue' = RemoveAt(queue, i)
       /\ credit' = [credit EXCEPT ![j] = @ - 1]

CancelDrop(t) ==
    /\ ToolAt(t, "cancel", "drop")
    /\ Unlisted(tool[t].job)
    /\ ToolBecomes(t, [tool[t] EXCEPT !.pc = "save"])
    /\ UNCHANGED << processing, record, producer, worker, agings, excused, seized >>

\* The set cancelled:<name> is written too; only the queue page reads it.
CancelSave(t) ==
    /\ ToolAt(t, "cancel", "save")
    /\ Store(tool[t].job, Written("cancelled", tool[t].args))
    /\ ToolBecomes(t, Onward(tool[t]))
    /\ UNCHANGED << queue, processing, producer, worker, agings, history >>

-----------------------------------------------------------------------------
(* The queue page: delete a job that is not processing, or every job that  *)
(* has ended.  Records go first, then the ids in the list and the set.     *)

StartDelete(t, j) ==
    /\ tool[t].pc = "idle"
    /\ j \notin processing
    /\ ToolBecomes(t, [IdleTool EXCEPT !.op = "delete", !.pc = "get",
                                       !.todo = {j}, !.ids = {j}])
    /\ UNCHANGED << queue, processing, record, producer, worker, agings, history >>

DeleteRead(t) ==
    /\ ToolAt(t, "delete", "get")
    /\ ToolBecomes(t, IF \E j \in tool[t].ids : Exists(j)
                      THEN [tool[t] EXCEPT !.pc = "erase"]
                      ELSE IdleTool)
    /\ UNCHANGED << queue, processing, record, producer, worker, agings, history >>

StartClearTerminal(t) ==
    LET listed == {j \in Jobs : Exists(j)} IN
    /\ tool[t].pc = "idle"
    /\ listed # {}
    /\ ToolBecomes(t, [IdleTool EXCEPT !.op = "delete", !.pc = "collect", !.todo = listed])
    /\ UNCHANGED << queue, processing, record, producer, worker, agings, history >>

\* A record seen to have ended is in the list, whatever becomes of it.
CollectTerminal(t, j) ==
    LET left == tool[t].todo \ {j}
        ended == IF record[j].status \in Terminal THEN tool[t].ids \cup {j} ELSE tool[t].ids
    IN
    /\ ToolAt(t, "delete", "collect")
    /\ j \in tool[t].todo
    /\ ToolBecomes(t,
          IF left # {} THEN [tool[t] EXCEPT !.todo = left, !.ids = ended]
          ELSE IF ended = {} THEN IdleTool
          ELSE [tool[t] EXCEPT !.pc = "erase", !.todo = ended, !.ids = ended])
    /\ UNCHANGED << queue, processing, record, producer, worker, agings, history >>

\* A stage goes through all ids before the next one begins.
NextId(t, j, next) ==
    LET left == tool[t].todo \ {j} IN
    ToolBecomes(t, IF left # {} THEN [tool[t] EXCEPT !.todo = left]
                   ELSE IF next = "idle" THEN IdleTool
                   ELSE [tool[t] EXCEPT !.pc = next, !.todo = tool[t].ids])

EraseRecord(t, j) ==
    /\ ToolAt(t, "delete", "erase")
    /\ j \in tool[t].todo
    /\ Store(j, NoRecord)
    /\ excused' = excused \cup {j}
    /\ NextId(t, j, "unlink")
    /\ UNCHANGED << queue, processing, producer, worker, agings, credit, seized >>

UnlinkQueued(t, j) ==
    /\ ToolAt(t, "delete", "unlink")
    /\ j \in tool[t].todo
    /\ Unlisted(j)
    /\ NextId(t, j, "release")
    /\ UNCHANGED << processing, record, producer, worker, agings, excused, seized >>

UnlinkProcessing(t, j) ==
    /\ ToolAt(t, "delete", "release")
    /\ j \in tool[t].todo
    /\ processing' = processing \ {j}
    /\ seized' = IF Held(j) THEN seized \cup {j} ELSE seized
    /\ NextId(t, j, "idle")
    /\ UNCHANGED << queue, record, producer, worker, agings, credit, excused >>

\* A command fails or the tool is stopped.
ToolFails(t) ==
    /\ tool[t].pc # "idle"
    /\ excused' = IF tool[t].pc \in {"save", "push"} THEN excused \cup {tool[t].job} ELSE excused
    /\ ToolBecomes(t, IdleTool)
    /\ UNCHANGED << queue, processing, record, producer, worker, agings, credit, seized >>

\* Time passes.  The cutoff of a requeue is taken when it starts: a record that
\* gets old during it is too young for it.
Age(j) ==
    /\ Exists(j)
    /\ ~record[j].old
    /\ \A t \in Tools : tool[t].op # "requeue"
    /\ agings < MaxAgings
    /\ Store(j, [record[j] EXCEPT !.old = TRUE])
    /\ agings' = agings + 1
    /\ UNCHANGED << queue, processing, producer, worker, tool, history >>

-----------------------------------------------------------------------------
Enqueue(j) == EnqueueSave(j) \/ EnqueuePush(j) \/ EnqueueFails(j)

Work(w) ==
    \/ Pop(w) \/ StartJob(w) \/ SkipJob(w) \/ ReturnJob(w) \/ PushBack(w)
    \/ HandlerEnds(w) \/ CompleteRead(w) \/ CompleteWrite(w)
    \/ FailRead(w) \/ FailWrite(w) \/ Release(w)

Requeue(t) ==
    \/ StartRequeue(t) \/ RequeueTake(t) \/ RequeueSave(t) \/ RequeuePush(t)
    \/ \E j \in Jobs : RequeueRead(t, j)

Cancel(t) ==
    \/ StartCancel(t) \/ CancelDrop(t) \/ CancelSave(t)
    \/ \E j \in Jobs : CancelRead(t, j)

Delete(t) ==
    \/ DeleteRead(t) \/ StartClearTerminal(t)
    \/ \E j \in Jobs :
          \/ StartDelete(t, j) \/ CollectTerminal(t, j)
          \/ EraseRecord(t, j) \/ UnlinkQueued(t, j) \/ UnlinkProcessing(t, j)

Next ==
    \/ \E j \in Jobs : Enqueue(j) \/ Age(j)
    \/ \E w \in Workers : Work(w) \/ WorkerFails(w)
    \/ \E t \in Tools : Requeue(t) \/ Cancel(t) \/ Delete(t) \/ ToolFails(t)

Spec == Init /\ [][Next]_vars

-----------------------------------------------------------------------------
(* What must hold.                                                         *)

\* A job starts at most as often as it was put in the queue by an enqueue or a
\* requeue and not taken out of it by a cancel or a deletion: no interleaving
\* of pops, returns and interruptions runs a job once more.
StartsAreAccounted == \A j \in Jobs : credit[j] >= 0

\* Two workers have one job at a time only if a tool released it from under
\* the first: the membership of the processing set is the lock.
ExclusiveRun ==
    \A w, x \in Workers, j \in Jobs :
        w # x /\ Holds(w, j) /\ Holds(x, j) => j \in seized

\* The id of a job on its way from one key to another.
Moving(j) ==
    \/ producer[j] = "saved"
    \/ \E w \in Workers : worker[w].pc = "returning" /\ worker[w].job = j
    \/ \E t \in Tools : tool[t].pc \in {"save", "push"} /\ tool[t].job = j

\* No job vanishes: one whose record says queued is waiting, processing or on
\* its way, so that a worker or a requeue can find it, unless it was deleted,
\* an actor stopped between the two commands that move it, or a tool took it
\* from under a worker or marked it queued again while a worker had it.
NoJobVanishes ==
    \A j \in Jobs : record[j].status = "queued" /\ j \notin excused \cup seized
        => j \in Waiting \cup processing \/ Moving(j)

-----------------------------------------------------------------------------
(* What the comments of the code promise and the code does not keep.       *)

\* cancel_jobs_by_name: only jobs that are currently queued are affected, so a
\* job that a worker is running is not marked cancelled.
CancelSparesRunning ==
    \A w \in Workers : worker[w].pc = "running" => record[worker[w].job].status # "cancelled"

\* requeue: it recovers from job failures and worker crashes, so a job that runs
\* again runs with the arguments it was enqueued with.
RunsWithArguments == \A w \in Workers : worker[w].pc = "running" => worker[w].args

=============================================================================
