-------------------------- MODULE JobQueue_proofs --------------------------
(***************************************************************************)
(* JobQueue for any number of jobs, workers and tools: the membership of   *)
(* the processing set is a lock on the job, no job vanishes but in the     *)
(* ways that the model names, and no run is without a credit.              *)
(***************************************************************************)
EXTENDS JobQueue, FiniteSetTheorems, TLAPS

\* The id of a job that a worker has is in the processing set, unless a tool
\* released it.
LockHeld ==
    \A w \in Workers, j \in Jobs : Holds(w, j) /\ j \notin seized => j \in processing

Inv == TypeOK /\ LockHeld /\ ExclusiveRun

-----------------------------------------------------------------------------
(* Sequences.                                                              *)

\* A sequence without its i-th element: what is where.
LEMMA RemoveAtElements ==
    ASSUME NEW S, NEW s \in Seq(S), NEW i \in 1 .. Len(s)
    PROVE  /\ RemoveAt(s, i) \in Seq(S)
           /\ Len(RemoveAt(s, i)) = Len(s) - 1
           /\ \A k \in 1 .. Len(s) - 1 :
                 RemoveAt(s, i)[k] = IF k < i THEN s[k] ELSE s[k + 1]
<1> DEFINE before == SubSeq(s, 1, i - 1)
           after == SubSeq(s, i + 1, Len(s))
<1>1. before \in Seq(S) /\ Len(before) = i - 1 /\ \A k \in 1 .. i - 1 : before[k] = s[k]
  OBVIOUS
<1>2. after \in Seq(S) /\ Len(after) = Len(s) - i /\ \A k \in 1 .. Len(s) - i : after[k] = s[i + k]
  OBVIOUS
<1> HIDE DEF before, after
<1>3. (before \o after) \in Seq(S) /\ Len(before \o after) = Len(s) - 1
  BY <1>1, <1>2
<1>4. ASSUME NEW k \in 1 .. Len(s) - 1
      PROVE (before \o after)[k] = IF k < i THEN s[k] ELSE s[k + 1]
  <2>1. CASE k < i
    BY <1>1, <1>2, <2>1
  <2>2. CASE ~(k < i)
    <3>1. (before \o after)[k] = after[k - (i - 1)]
      BY <1>1, <1>2, <2>2
    <3>2. k - (i - 1) \in 1 .. Len(s) - i /\ i + (k - (i - 1)) = k + 1
      BY <2>2
    <3> QED
      BY <1>2, <2>2, <3>1, <3>2
  <2> QED
    BY <2>1, <2>2
<1> QED
  BY <1>3, <1>4 DEF RemoveAt, before, after

\* The rest of a sequence is the sequence without its first element.
LEMMA TailElements ==
    ASSUME NEW S, NEW s \in Seq(S), s # << >>
    PROVE  /\ 1 \in 1 .. Len(s) /\ Head(s) = s[1]
           /\ Tail(s) \in Seq(S) /\ Len(Tail(s)) = Len(s) - 1
           /\ \A k \in 1 .. Len(s) - 1 : Tail(s)[k] = IF k < 1 THEN s[k] ELSE s[k + 1]
OBVIOUS

\* Where an element stands in a sequence, and how often.
Places(s, j) == {k \in 1 .. Len(s) : s[k] = j}
Count(s, j) == Cardinality(Places(s, j))

\* An element stands in a sequence finitely often.
LEMMA CountType ==
    ASSUME NEW S, NEW s \in Seq(S), NEW j
    PROVE  IsFiniteSet(Places(s, j)) /\ Count(s, j) \in Nat
<1>1. Places(s, j) \in SUBSET (1 .. Len(s)) /\ IsFiniteSet(1 .. Len(s))
  BY FS_Interval DEF Places
<1>2. IsFiniteSet(Places(s, j))
  BY <1>1, FS_Subset
<1> QED
  BY <1>2, FS_CardinalityType DEF Count

\* An element that is appended stands there once more.
LEMMA CountAppend ==
    ASSUME NEW S, NEW s \in Seq(S), NEW x \in S, NEW j
    PROVE  Count(Append(s, x), j) = IF x = j THEN Count(s, j) + 1 ELSE Count(s, j)
<1> DEFINE n == Len(s) + 1
<1>1. Len(Append(s, x)) = n /\ n \in Nat /\ Append(s, x)[n] = x
         /\ \A k \in 1 .. Len(s) : Append(s, x)[k] = s[k]
  OBVIOUS
<1>2. n \notin Places(s, j)
  BY DEF Places
<1>3. Places(Append(s, x), j) = IF x = j THEN Places(s, j) \cup {n} ELSE Places(s, j)
  BY <1>1 DEF Places
<1> QED
  BY <1>2, <1>3, CountType, FS_AddElement DEF Count

\* A sequence with one element less has at most the rest of its occurrences.
LEMMA CountRemoved ==
    ASSUME NEW S, NEW s \in Seq(S), NEW t \in Seq(S), NEW i \in 1 .. Len(s), NEW j,
           Len(t) = Len(s) - 1,
           \A k \in 1 .. Len(s) - 1 : t[k] = IF k < i THEN s[k] ELSE s[k + 1]
    PROVE  Count(t, j) <= IF s[i] = j THEN Count(s, j) - 1 ELSE Count(s, j)
<1> DEFINE P == Places(s, j) \ {i}
           Q == Places(t, j)
           f == [k \in Q |-> IF k < i THEN k ELSE k + 1]
<1>1. \A k \in Q : k \in Int /\ f[k] \in P
  BY DEF Places
<1>2. f \in [Q -> P]
  BY <1>1
<1>3. \A k, l \in Q : f[k] = f[l] => k = l
  BY <1>1
<1>4. f \in Injection(Q, P)
  BY <1>2, <1>3 DEF Injection, IsInjective
<1>5. IsFiniteSet(P) /\ Cardinality(P) = IF s[i] = j THEN Count(s, j) - 1 ELSE Count(s, j)
  <2>1. i \in Places(s, j) <=> s[i] = j
    BY DEF Places
  <2> QED
    BY <2>1, CountType, FS_RemoveElement DEF Count
<1> HIDE DEF P, Q, f
<1>6. Cardinality(Q) <= Cardinality(P)
  BY <1>4, <1>5, FS_Injection
<1> QED
  BY <1>5, <1>6 DEF Count, Q

-----------------------------------------------------------------------------
\* Null states and records are well formed.
LEMMA NullTypes ==
    /\ IdleWorker \in WorkerState
    /\ IdleTool \in ToolState
    /\ NoRecord \in JobRecord
    /\ \A status \in Statuses, args \in BOOLEAN : Written(status, args) \in JobRecord
BY DEF IdleWorker, WorkerState, WorkerStages, IdleTool, ToolState, ToolStages, NoRecord,
    JobRecord, Statuses, Written

\* Moving on to the next job or id leaves a well-formed tool with no job in hand.
LEMMA OnwardType ==
    ASSUME NEW s \in ToolState
    PROVE  /\ Onward(s) \in ToolState
           /\ Onward(s).pc \in {"idle", "scan"}
BY NullTypes DEF Onward, ToolState, ToolStages, IdleTool

\* An id that leaves the list leaves a list of ids.
LEMMA UnlistedType ==
    ASSUME TypeOK, NEW j \in Jobs, Unlisted(j)
    PROVE  queue' \in Seq(Jobs) /\ credit' \in [Jobs -> Int]
BY RemoveAtElements DEF Unlisted, TypeOK

-----------------------------------------------------------------------------
(* Type correctness, one lemma per actor.                                  *)

\* Enqueueing and time keep the types.
LEMMA EnqueueType ==
    ASSUME TypeOK, NEW j \in Jobs, Enqueue(j) \/ Age(j)
    PROVE  TypeOK'
<1> USE NullTypes DEF TypeOK, Store, history, Statuses
<1>1. CASE EnqueueSave(j)
  BY <1>1 DEF EnqueueSave
<1>2. CASE EnqueuePush(j)
  BY <1>2 DEF EnqueuePush
<1>3. CASE EnqueueFails(j)
  BY <1>3 DEF EnqueueFails
<1>4. CASE Age(j)
  <2>1. record[j] \in JobRecord
    OBVIOUS
  <2>2. [record[j] EXCEPT !.old = TRUE] \in JobRecord
    BY ONLY <2>1 DEF JobRecord
  <2> QED
    BY <1>4, <2>2 DEF Age
<1> QED
  BY <1>1, <1>2, <1>3, <1>4 DEF Enqueue

\* The steps of workers keep the types.
LEMMA WorkType ==
    ASSUME TypeOK, NEW w \in Workers, Work(w) \/ WorkerFails(w)
    PROVE  TypeOK'
<1> USE NullTypes DEF TypeOK, history, WorkerBecomes
<1>1. CASE Pop(w)
  <2> DEFINE s == [IdleWorker EXCEPT !.pc = "popped", !.job = Head(queue)]
  <2>1. Head(queue) \in Jobs /\ Tail(queue) \in Seq(Jobs)
    BY <1>1 DEF Pop
  <2>2. s \in WorkerState /\ s.job \in Jobs
    BY <2>1 DEF IdleWorker, WorkerState, WorkerStages
  <2> HIDE DEF s
  <2>3. worker' = worker \/ worker' = [worker EXCEPT ![w] = s]
    BY <1>1 DEF Pop, s
  <2> QED
    BY <1>1, <2>1, <2>2, <2>3 DEF Pop
<1>2. CASE StartJob(w)
  <2> DEFINE s == [worker[w] EXCEPT !.pc = "running", !.args = record[worker[w].job].args]
  <2>1. worker[w].job \in Jobs
    BY <1>2 DEF StartJob
  <2>2. s \in WorkerState /\ s.job \in Jobs
    BY <2>1 DEF WorkerState, WorkerStages, JobRecord
  <2> HIDE DEF s
  <2>3. /\ worker' = [worker EXCEPT ![w] = s]
        /\ credit' = [credit EXCEPT ![worker[w].job] = @ - 1]
        /\ UNCHANGED << queue, processing, record, producer, tool, agings, excused, seized >>
    BY <1>2 DEF StartJob, s
  <2> QED
    BY <2>1, <2>2, <2>3
<1>3. CASE SkipJob(w)
  BY <1>3 DEF SkipJob, WorkerGoes, WorkerState, WorkerStages
<1>4. CASE ReturnJob(w)
  BY <1>4 DEF ReturnJob, WorkerGoes, WorkerState, WorkerStages
<1>5. CASE PushBack(w)
  BY <1>5 DEF PushBack, IdleWorker
<1>6. CASE HandlerEnds(w)
  <2>1. PICK stage \in {"succeeded", "failed"} :
           worker' = [worker EXCEPT ![w] = [worker[w] EXCEPT !.pc = stage, !.args = FALSE]]
    BY <1>6 DEF HandlerEnds
  <2>2. /\ [worker[w] EXCEPT !.pc = stage, !.args = FALSE] \in WorkerState
        /\ worker[w].job \in Jobs
    BY <1>6 DEF HandlerEnds, WorkerState, WorkerStages
  <2> QED
    BY <1>6, <2>1, <2>2 DEF HandlerEnds, WorkerState
<1>7. CASE CompleteRead(w)
  BY <1>7 DEF CompleteRead, WorkerState, WorkerStages, JobRecord, IdleWorker
<1>8. CASE CompleteWrite(w)
  BY <1>8 DEF CompleteWrite, WorkerState, WorkerStages, Store, Statuses
<1>9. CASE FailRead(w)
  BY <1>9 DEF FailRead, WorkerGoes, WorkerState, WorkerStages
<1>10. CASE FailWrite(w)
  BY <1>10 DEF FailWrite, WorkerGoes, WorkerState, WorkerStages, Store, Statuses
<1>11. CASE Release(w)
  BY <1>11 DEF Release, IdleWorker
<1>12. CASE WorkerFails(w)
  BY <1>12 DEF WorkerFails, IdleWorker
<1> QED
  BY <1>1, <1>2, <1>3, <1>4, <1>5, <1>6, <1>7, <1>8, <1>9, <1>10, <1>11, <1>12 DEF Work

\* The steps of tools keep the types.
LEMMA ToolType ==
    ASSUME TypeOK, NEW t \in Tools, Requeue(t) \/ Cancel(t) \/ Delete(t) \/ ToolFails(t)
    PROVE  TypeOK'
<1> USE NullTypes DEF history, ToolBecomes
<1>1. CASE StartRequeue(t)
  BY <1>1 DEF StartRequeue, TypeOK, ToolState, ToolStages, IdleTool
<1>2. ASSUME NEW j \in Jobs, RequeueRead(t, j) PROVE TypeOK'
  <2> DEFINE s == [tool[t] EXCEPT !.job = j]
  <2>1. s \in ToolState
    BY DEF TypeOK, ToolState
  <2>2. Onward(s) \in ToolState /\ Onward(s).pc \in {"idle", "scan"}
    BY <2>1, OnwardType
  <2>3. [s EXCEPT !.pc = "take", !.args = record[j].args] \in ToolState
    BY <2>1 DEF TypeOK, ToolState, ToolStages, JobRecord
  <2> QED
    BY <1>2, <2>1, <2>2, <2>3 DEF RequeueRead, TypeOK, ToolState
<1>3. CASE RequeueTake(t)
  BY <1>3 DEF RequeueTake, TypeOK, ToolAt, ToolState, ToolStages
<1>4. CASE RequeueSave(t)
  BY <1>4 DEF RequeueSave, TypeOK, ToolAt, ToolState, ToolStages, Store, Statuses
<1>5. CASE RequeuePush(t)
  <2>1. tool[t] \in ToolState /\ tool[t].job \in Jobs
    BY <1>5 DEF RequeuePush, TypeOK, ToolAt
  <2>2. Onward(tool[t]) \in ToolState /\ Onward(tool[t]).pc \in {"idle", "scan"}
    BY <2>1, OnwardType
  <2> QED
    BY <1>5, <2>1, <2>2 DEF RequeuePush, TypeOK
<1>6. CASE StartCancel(t)
  <2>1. Waiting \subseteq Jobs
    BY DEF TypeOK, Waiting
  <2> QED
    BY <1>6, <2>1 DEF StartCancel, TypeOK, ToolState, ToolStages, IdleTool
<1>7. ASSUME NEW j \in Jobs, CancelRead(t, j) PROVE TypeOK'
  <2> DEFINE s == [tool[t] EXCEPT !.job = j]
  <2>1. s \in ToolState
    BY DEF TypeOK, ToolState
  <2>2. Onward(s) \in ToolState /\ Onward(s).pc \in {"idle", "scan"}
    BY <2>1, OnwardType
  <2>3. [s EXCEPT !.pc = "drop", !.args = record[j].args] \in ToolState
    BY <2>1 DEF TypeOK, ToolState, ToolStages, JobRecord
  <2> QED
    BY <1>7, <2>1, <2>2, <2>3 DEF CancelRead, TypeOK, ToolState
<1>8. CASE CancelDrop(t)
  BY <1>8, UnlistedType DEF CancelDrop, TypeOK, ToolAt, ToolState, ToolStages
<1>9. CASE CancelSave(t)
  BY <1>9, OnwardType DEF CancelSave, TypeOK, ToolAt, ToolState, Store, Statuses
<1>10. ASSUME NEW j \in Jobs, StartDelete(t, j) PROVE TypeOK'
  BY <1>10 DEF StartDelete, TypeOK, ToolState, ToolStages, IdleTool
<1>11. CASE DeleteRead(t)
  BY <1>11 DEF DeleteRead, TypeOK, ToolState, ToolStages, IdleTool
<1>12. CASE StartClearTerminal(t)
  BY <1>12 DEF StartClearTerminal, TypeOK, ToolState, ToolStages, IdleTool
<1>13. ASSUME NEW j \in Jobs, NEW next \in {"unlink", "release", "idle"}, NextId(t, j, next),
              tool[t].pc \in {"erase", "unlink", "release"}
       PROVE  /\ tool' \in [Tools -> ToolState]
              /\ \A x \in Tools : tool'[x].pc \in {"take", "drop", "save", "push"}
                                    => tool'[x].job \in Jobs
  BY <1>13 DEF NextId, TypeOK, ToolState, ToolStages, IdleTool
<1>14. ASSUME NEW j \in Jobs, EraseRecord(t, j) PROVE TypeOK'
  BY <1>13, <1>14 DEF EraseRecord, TypeOK, ToolAt, Store
<1>15. ASSUME NEW j \in Jobs, UnlinkQueued(t, j) PROVE TypeOK'
  BY <1>13, <1>15, UnlistedType DEF UnlinkQueued, TypeOK, ToolAt
<1>16. ASSUME NEW j \in Jobs, UnlinkProcessing(t, j) PROVE TypeOK'
  BY <1>13, <1>16 DEF UnlinkProcessing, TypeOK, ToolAt
<1>17. CASE ToolFails(t)
  BY <1>17 DEF ToolFails, TypeOK, IdleTool
<1>18. ASSUME NEW j \in Jobs, CollectTerminal(t, j) PROVE TypeOK'
  <2> DEFINE left == tool[t].todo \ {j}
             ended == IF record[j].status \in Terminal THEN tool[t].ids \cup {j} ELSE tool[t].ids
             going == [tool[t] EXCEPT !.todo = left, !.ids = ended]
             over == [tool[t] EXCEPT !.pc = "erase", !.todo = ended, !.ids = ended]
  <2>1. tool[t] \in ToolState /\ tool[t].pc = "collect"
    BY <1>18 DEF TypeOK, CollectTerminal, ToolAt
  <2>2. left \subseteq Jobs /\ ended \subseteq Jobs
    BY <2>1 DEF ToolState
  <2> HIDE DEF left, ended
  <2>3. going \in ToolState /\ going.pc = "collect" /\ over \in ToolState /\ over.pc = "erase"
    BY <2>1, <2>2 DEF ToolState, ToolStages
  <2> HIDE DEF going, over
  <2>4. PICK s \in {going, IdleTool, over} : tool' = [tool EXCEPT ![t] = s]
    BY <1>18 DEF CollectTerminal, going, over, left, ended
  <2>5. s \in ToolState /\ s.pc \in {"idle", "collect", "erase"}
    <3>1. IdleTool \in ToolState /\ IdleTool.pc = "idle"
      BY NullTypes DEF IdleTool
    <3> QED
      BY <2>3, <2>4, <3>1
  <2> QED
    BY <1>18, <2>5, <2>4 DEF CollectTerminal, TypeOK
<1> QED
  BY <1>1, <1>2, <1>3, <1>4, <1>5, <1>6, <1>7, <1>8, <1>9, <1>10, <1>11, <1>12,
     <1>14, <1>15, <1>16, <1>17, <1>18 DEF Requeue, Cancel, Delete

-----------------------------------------------------------------------------
(* The lock.                                                               *)

\* What the two lock invariants depend on.
Lock == LockHeld /\ ExclusiveRun

\* A step that makes nobody a holder, forgets no seizure and takes no held id
\* out of the processing set keeps the lock.
LEMMA LockKept ==
    ASSUME Lock,
           \A w \in Workers, j \in Jobs : Holds(w, j)' => Holds(w, j),
           seized \subseteq seized',
           \A w \in Workers, j \in Jobs :
               Holds(w, j)' /\ j \notin seized' /\ j \in processing => j \in processing'
    PROVE  Lock'
BY DEF Lock, LockHeld, ExclusiveRun

\* The only step that makes a holder finds the id outside the processing set.
LEMMA LockTaken ==
    ASSUME TypeOK, Lock, NEW w \in Workers, Pop(w)
    PROVE  Lock'
<1> DEFINE h == Head(queue)
<1>1. h \in Jobs /\ worker[w].pc = "idle"
  BY DEF Pop, TypeOK
<1>2. processing' = processing \cup {h} /\ seized' = seized
  BY DEF Pop, history
<1>3. CASE h \in processing
  <2>1. worker' = worker
    BY <1>3 DEF Pop
  <2> QED
    BY <1>2, <2>1, LockKept DEF Holds
<1>4. CASE h \notin processing
  <2>1. worker' = [worker EXCEPT ![w] = [IdleWorker EXCEPT !.pc = "popped", !.job = h]]
    BY <1>4 DEF Pop, WorkerBecomes
  <2>2. \A x \in Workers, j \in Jobs : Holds(x, j)' =>
           (x = w /\ j = h) \/ (x # w /\ Holds(x, j))
    BY <2>1 DEF Holds, IdleWorker, TypeOK
  <2>3. LockHeld'
    BY <1>2, <2>2 DEF Lock, LockHeld
  <2>4. ExclusiveRun'
    BY <1>2, <1>4, <2>2 DEF Lock, LockHeld, ExclusiveRun
  <2> QED
    BY <2>3, <2>4 DEF Lock
<1> QED
  BY <1>3, <1>4

\* A holder that takes its id out of the processing set holds it no longer, and
\* was alone unless the job had been seized.
LEMMA LockReleased ==
    ASSUME TypeOK, Lock, NEW w \in Workers, worker[w].pc # "idle", worker[w].pc # "returning",
           processing' = processing \ {worker[w].job}, seized' = seized,
           NEW s, worker' = [worker EXCEPT ![w] = s], s.pc \in {"idle", "returning"}
    PROVE  Lock'
<1>1. worker[w].job \in Jobs /\ Holds(w, worker[w].job)
  BY DEF TypeOK, Holds
<1>2. \A x \in Workers, j \in Jobs : Holds(x, j)' => x # w /\ Holds(x, j)
  BY DEF Holds, TypeOK
<1>3. \A x \in Workers, j \in Jobs :
         Holds(x, j)' /\ j \notin seized' /\ j \in processing => j \in processing'
  BY <1>1, <1>2 DEF Lock, ExclusiveRun
<1> QED
  BY <1>2, <1>3, LockKept

\* The steps of workers keep the lock.
LEMMA WorkLock ==
    ASSUME TypeOK, Lock, NEW w \in Workers, Work(w) \/ WorkerFails(w)
    PROVE  Lock'
<1>1. CASE Pop(w)
  BY <1>1, LockTaken
<1>2. CASE ReturnJob(w)
  <2>1. /\ worker' = [worker EXCEPT ![w] = [worker[w] EXCEPT !.pc = "returning"]]
        /\ [worker[w] EXCEPT !.pc = "returning"].pc = "returning"
    BY <1>2 DEF ReturnJob, WorkerGoes, WorkerBecomes, TypeOK, WorkerState
  <2> QED
    BY <1>2, <2>1, LockReleased DEF ReturnJob, history
<1>3. CASE Release(w)
  BY <1>3, LockReleased DEF Release, WorkerBecomes, IdleWorker, history
<1>4. ASSUME processing' = processing, seized' = seized,
             NEW s, worker' = [worker EXCEPT ![w] = s],
             s.pc = "idle" \/ (worker[w].pc \notin {"idle", "returning"} /\ s.job = worker[w].job)
      PROVE  Lock'
  <2>1. \A x \in Workers, j \in Jobs : Holds(x, j)' => Holds(x, j)
    BY <1>4 DEF Holds, TypeOK
  <2> QED
    BY <1>4, <2>1, LockKept
<1> USE DEF WorkerBecomes, WorkerGoes, history, IdleWorker, TypeOK, WorkerState
<1>5. CASE StartJob(w)
  BY <1>4, <1>5 DEF StartJob
<1>6. CASE SkipJob(w)
  BY <1>4, <1>6 DEF SkipJob
<1>7. CASE PushBack(w)
  BY <1>4, <1>7 DEF PushBack
<1>8. CASE HandlerEnds(w)
  BY <1>4, <1>8 DEF HandlerEnds
<1>9. CASE CompleteRead(w)
  BY <1>4, <1>9 DEF CompleteRead
<1>10. CASE CompleteWrite(w)
  BY <1>4, <1>10 DEF CompleteWrite
<1>11. CASE FailRead(w)
  BY <1>4, <1>11 DEF FailRead
<1>12. CASE FailWrite(w)
  BY <1>4, <1>12 DEF FailWrite
<1>13. CASE WorkerFails(w)
  BY <1>4, <1>13 DEF WorkerFails
<1> QED
  BY <1>1, <1>2, <1>3, <1>5, <1>6, <1>7, <1>8, <1>9, <1>10, <1>11, <1>12, <1>13 DEF Work

\* The steps of everybody else keep the lock: a tool that takes a held id out
\* of the processing set marks the job as seized.
LEMMA OtherLock ==
    ASSUME Lock, UNCHANGED worker, seized \subseteq seized',
           \A j \in Jobs : Held(j) /\ j \in processing /\ j \notin processing' => j \in seized'
    PROVE  Lock'
<1>1. \A w \in Workers, j \in Jobs : Holds(w, j)' => Holds(w, j)
  BY DEF Holds
<1> QED
  BY <1>1, LockKept DEF Held

\* The steps of tools keep the lock.
LEMMA ToolLock ==
    ASSUME TypeOK, Lock, NEW t \in Tools, Requeue(t) \/ Cancel(t) \/ Delete(t) \/ ToolFails(t)
    PROVE  Lock'
<1>1. CASE RequeueTake(t)
  BY <1>1, OtherLock DEF RequeueTake
<1>2. ASSUME NEW j \in Jobs, UnlinkProcessing(t, j) PROVE Lock'
  BY <1>2, OtherLock DEF UnlinkProcessing
<1>3. ASSUME UNCHANGED << worker, processing, seized >> PROVE Lock'
  BY <1>3, OtherLock
<1> QED
  BY <1>1, <1>2, <1>3 DEF Requeue, Cancel, Delete, StartRequeue, RequeueRead, RequeueSave,
     RequeuePush, StartCancel, CancelRead, CancelDrop, CancelSave, StartDelete, DeleteRead,
     StartClearTerminal, CollectTerminal, EraseRecord, UnlinkQueued, ToolFails, history

\* The invariant holds throughout.
LEMMA Invariance == Spec => []Inv
<1>1. Init => Inv
  BY NullTypes DEF Init, Inv, TypeOK, LockHeld, ExclusiveRun, Holds, IdleWorker, IdleTool
<1>2. Inv /\ [Next]_vars => Inv'
  <2> SUFFICES ASSUME Inv, [Next]_vars PROVE TypeOK' /\ Lock'
    BY DEF Inv, Lock
  <2> USE DEF Inv, Lock
  <2>1. ASSUME NEW j \in Jobs, Enqueue(j) \/ Age(j) PROVE TypeOK' /\ Lock'
    BY <2>1, EnqueueType, OtherLock DEF Enqueue, EnqueueSave, EnqueuePush, EnqueueFails, Age,
       history
  <2>2. ASSUME NEW w \in Workers, Work(w) \/ WorkerFails(w) PROVE TypeOK' /\ Lock'
    BY <2>2, WorkType, WorkLock
  <2>3. ASSUME NEW t \in Tools, Requeue(t) \/ Cancel(t) \/ Delete(t) \/ ToolFails(t)
        PROVE  TypeOK' /\ Lock'
    BY <2>3, ToolType, ToolLock
  <2>4. CASE UNCHANGED vars
    BY <2>4, OtherLock DEF vars, TypeOK
  <2> QED
    BY <2>1, <2>2, <2>3, <2>4 DEF Next
<1> QED
  BY <1>1, <1>2, PTL DEF Spec

-----------------------------------------------------------------------------
(* No job vanishes.                                                        *)

\* Nothing knows of a job before its record is saved.
NewSound ==
    \A j \in Jobs : producer[j] = "new" =>
        /\ record[j].status = "none"
        /\ j \notin Waiting
        /\ \A w \in Workers : worker[w].pc # "idle" => worker[w].job # j
        /\ \A t \in Tools : tool[t].pc \in {"take", "drop", "save", "push"} => tool[t].job # j

\* A worker about to release an id for good has ended the job or found no record.
ReleaseSound ==
    \A w \in Workers : worker[w].pc \in {"missing", "releasing"} =>
        record[worker[w].job].status # "queued" \/ worker[w].job \in excused

\* A deletion removes ids after the records of all of them.
DeleteSound ==
    \A t \in Tools :
        /\ tool[t].pc \in {"get", "erase"} => tool[t].ids \subseteq tool[t].todo \cup excused
        /\ tool[t].pc \in {"unlink", "release"} => tool[t].ids \subseteq excused
        /\ tool[t].pc \in {"get", "erase", "unlink", "release"} =>
               tool[t].todo \subseteq tool[t].ids

Tracked == NewSound /\ ReleaseSound /\ DeleteSound /\ NoJobVanishes

\* The queue after an append, a pop and a removal, as a set.
LEMMA WaitingMoves ==
    ASSUME TypeOK
    PROVE  /\ Waiting \subseteq Jobs
           /\ \A j \in Jobs : queue' = Append(queue, j) => Waiting' = Waiting \cup {j}
           /\ queue # << >> /\ queue' = Tail(queue) =>
                 /\ Head(queue) \in Waiting
                 /\ Waiting' \subseteq Waiting
                 /\ Waiting \subseteq Waiting' \cup {Head(queue)}
           /\ \A j \in Jobs : Unlisted(j) =>
                 Waiting' \subseteq Waiting /\ Waiting \subseteq Waiting' \cup {j}
<1>1. queue \in Seq(Jobs)
  BY DEF TypeOK
<1>2. ASSUME NEW j \in Jobs, queue' = Append(queue, j) PROVE Waiting' = Waiting \cup {j}
  BY <1>1, <1>2 DEF Waiting
<1>3. ASSUME NEW q \in Seq(Jobs), NEW i \in 1 .. Len(queue), Len(q) = Len(queue) - 1, queue' = q,
             \A k \in 1 .. Len(queue) - 1 : q[k] = IF k < i THEN queue[k] ELSE queue[k + 1]
      PROVE  Waiting' \subseteq Waiting /\ Waiting \subseteq Waiting' \cup {queue[i]}
  <2>1. Waiting' \subseteq Waiting
    BY <1>1, <1>3 DEF Waiting
  <2>2. ASSUME NEW k \in 1 .. Len(queue), k # i PROVE queue[k] \in Waiting'
    <3>1. CASE k < i
      BY <1>1, <1>3, <2>2, <3>1 DEF Waiting
    <3>2. CASE k > i
      <4>1. k - 1 \in 1 .. Len(queue) - 1 /\ q[k - 1] = queue[k]
        BY <1>1, <1>3, <3>2
      <4> QED
        BY <1>3, <4>1 DEF Waiting
    <3> QED
      BY <2>2, <3>1, <3>2
  <2> QED
    BY <2>1, <2>2 DEF Waiting
<1>4. ASSUME queue # << >>, queue' = Tail(queue)
      PROVE  /\ Head(queue) \in Waiting
             /\ Waiting' \subseteq Waiting
             /\ Waiting \subseteq Waiting' \cup {Head(queue)}
  <2>1. /\ 1 \in 1 .. Len(queue) /\ Head(queue) = queue[1]
        /\ Tail(queue) \in Seq(Jobs) /\ Len(Tail(queue)) = Len(queue) - 1
        /\ \A k \in 1 .. Len(queue) - 1 : Tail(queue)[k] = IF k < 1 THEN queue[k] ELSE queue[k + 1]
    BY <1>1, <1>4, TailElements
  <2> QED
    BY <1>3, <1>4, <2>1 DEF Waiting
<1>5. ASSUME NEW j \in Jobs, Unlisted(j)
      PROVE  Waiting' \subseteq Waiting /\ Waiting \subseteq Waiting' \cup {j}
  <2>1. CASE UNCHANGED queue
    BY <2>1 DEF Waiting
  <2>2. CASE \E i \in 1 .. Len(queue) : queue[i] = j /\ queue' = RemoveAt(queue, i)
    BY <1>1, <1>3, <2>2, RemoveAtElements
  <2> QED
    BY <1>5, <2>1, <2>2 DEF Unlisted
<1>6. Waiting \subseteq Jobs
  BY <1>1 DEF Waiting
<1> QED
  BY <1>2, <1>4, <1>5, <1>6

\* What a step of a worker has to show.
LEMMA WorkerMoves ==
    ASSUME TypeOK, Tracked, NEW w \in Workers, NEW s \in WorkerState,
           worker' = [worker EXCEPT ![w] = s], producer' = producer, tool' = tool,
           excused \subseteq excused', seized' = seized,
           s.pc # "idle" => producer[s.job] # "new",
           \A j \in Jobs : \/ record'[j].status = record[j].status
                           \/ /\ j = worker[w].job /\ worker[w].pc # "idle"
                              /\ record'[j].status # "queued",
           \A j \in Waiting' : j \in Waiting \/ (j = worker[w].job /\ worker[w].pc # "idle"),
           s.pc \in {"missing", "releasing"} =>
               record'[s.job].status # "queued" \/ s.job \in excused',
           \A j \in Waiting \cup processing :
               record'[j].status = "queued" /\ j \notin excused' =>
                   j \in Waiting' \cup processing' \/ (s.pc = "returning" /\ s.job = j),
           worker[w].pc = "returning" => worker[w].job \in Waiting' \cup excused'
    PROVE  Tracked'
<1> USE DEF Tracked
<1>1. worker'[w] = s /\ \A x \in Workers \ {w} : worker'[x] = worker[x]
  BY DEF TypeOK
<1>2. NewSound'
  <2> SUFFICES ASSUME NEW j \in Jobs, producer[j] = "new"
               PROVE  /\ record'[j].status = "none"
                      /\ j \notin Waiting'
                      /\ \A x \in Workers : worker'[x].pc # "idle" => worker'[x].job # j
                      /\ \A t \in Tools : tool[t].pc \in {"take", "drop", "save", "push"} =>
                                              tool[t].job # j
    BY DEF NewSound
  <2>1. worker[w].pc # "idle" => worker[w].job # j
    BY DEF NewSound
  <2>2. \A x \in Workers : worker'[x].pc # "idle" => worker'[x].job # j
    BY <1>1 DEF NewSound
  <2> QED
    BY <2>1, <2>2 DEF NewSound
<1>3. ReleaseSound'
  <2> SUFFICES ASSUME NEW x \in Workers, worker'[x].pc \in {"missing", "releasing"}
               PROVE  \/ record'[worker'[x].job].status # "queued"
                      \/ worker'[x].job \in excused'
    BY DEF ReleaseSound
  <2>1. CASE x = w
    BY <1>1, <2>1
  <2>2. CASE x # w
    <3>1. worker'[x] = worker[x] /\ worker[x].job \in Jobs
      BY <1>1, <2>2 DEF TypeOK
    <3> QED
      BY <3>1 DEF ReleaseSound
  <2> QED
    BY <2>1, <2>2
<1>4. DeleteSound'
  BY DEF DeleteSound
<1>5. NoJobVanishes'
  <2> SUFFICES ASSUME NEW j \in Jobs, record'[j].status = "queued", j \notin excused', j \notin seized'
               PROVE  j \in Waiting' \cup processing' \/ Moving(j)'
    BY DEF NoJobVanishes
  <2>1. record[j].status = "queued" /\ (j \in Waiting \cup processing \/ Moving(j))
    BY DEF NoJobVanishes
  <2>2. s.pc = "returning" /\ s.job = j => Moving(j)'
    BY <1>1 DEF Moving
  <2>3. CASE Moving(j)
    <3>1. \A x \in Workers \ {w} : worker[x].pc = "returning" /\ worker[x].job = j => Moving(j)'
      BY <1>1 DEF Moving
    <3>2. producer[j] = "saved" => Moving(j)'
      BY DEF Moving
    <3>3. \A t \in Tools : tool[t].pc \in {"save", "push"} /\ tool[t].job = j => Moving(j)'
      BY DEF Moving
    <3> QED
      BY <2>3, <3>1, <3>2, <3>3 DEF Moving
  <2> QED
    BY <2>1, <2>2, <2>3
<1> QED
  BY <1>2, <1>3, <1>4, <1>5

\* What a step of a tool has to show.
LEMMA ToolMoves ==
    ASSUME TypeOK, Tracked, NEW t \in Tools, NEW s \in ToolState,
           tool' = [tool EXCEPT ![t] = s], producer' = producer, worker' = worker,
           excused \subseteq excused', seized \subseteq seized',
           s.pc \in {"take", "drop", "save", "push"} => producer[s.job] # "new",
           \A j \in Jobs : \/ record'[j].status \in {"none", record[j].status}
                           \/ producer[j] # "new" /\ record'[j].status # "queued"
                           \/ /\ producer[j] # "new" /\ s.pc = "push" /\ s.job = j
                              /\ Held(j) => j \in excused',
           \A j \in Waiting' : j \in Waiting \/ producer[j] # "new",
           s.pc \in {"get", "erase"} => s.ids \subseteq s.todo \cup excused',
           s.pc \in {"unlink", "release"} => s.ids \subseteq excused',
           s.pc \in {"get", "erase", "unlink", "release"} => s.todo \subseteq s.ids,
           \A j \in Waiting \cup processing :
               record'[j].status = "queued" /\ j \notin excused' =>
                   j \in Waiting' \cup processing' \/ (s.pc \in {"save", "push"} /\ s.job = j),
           tool[t].pc \in {"save", "push"} =>
               \/ tool[t].job \in Waiting' \cup excused'
               \/ record'[tool[t].job].status # "queued"
               \/ s.pc \in {"save", "push"} /\ s.job = tool[t].job
    PROVE  Tracked'
<1> USE DEF Tracked
<1>1. tool'[t] = s /\ \A x \in Tools \ {t} : tool'[x] = tool[x]
  BY DEF TypeOK
<1>2. NewSound'
  <2> SUFFICES ASSUME NEW j \in Jobs, producer[j] = "new"
               PROVE  /\ record'[j].status = "none"
                      /\ j \notin Waiting'
                      /\ \A w \in Workers : worker[w].pc # "idle" => worker[w].job # j
                      /\ \A x \in Tools : tool'[x].pc \in {"take", "drop", "save", "push"} =>
                                              tool'[x].job # j
    BY DEF NewSound
  <2>1. \A x \in Tools : tool'[x].pc \in {"take", "drop", "save", "push"} => tool'[x].job # j
    BY <1>1 DEF NewSound
  <2> QED
    BY <2>1 DEF NewSound
<1>3. ReleaseSound'
  <2> SUFFICES ASSUME NEW w \in Workers, worker[w].pc \in {"missing", "releasing"}
               PROVE  \/ record'[worker[w].job].status # "queued"
                      \/ worker[w].job \in excused'
    BY DEF ReleaseSound
  <2>1. worker[w].job \in Jobs /\ Held(worker[w].job)
    BY DEF TypeOK, Held, Holds
  <2> QED
    BY <2>1 DEF ReleaseSound
<1>4. DeleteSound'
  <2> SUFFICES ASSUME NEW x \in Tools
               PROVE  /\ tool'[x].pc \in {"get", "erase"} =>
                             tool'[x].ids \subseteq tool'[x].todo \cup excused'
                      /\ tool'[x].pc \in {"unlink", "release"} => tool'[x].ids \subseteq excused'
                      /\ tool'[x].pc \in {"get", "erase", "unlink", "release"} =>
                             tool'[x].todo \subseteq tool'[x].ids
    BY DEF DeleteSound
  <2>1. CASE x = t
    BY <1>1, <2>1
  <2>2. CASE x # t
    <3>1. tool'[x] = tool[x]
      BY <1>1, <2>2
    <3> QED
      BY <3>1 DEF DeleteSound
  <2> QED
    BY <2>1, <2>2
<1>5. NoJobVanishes'
  <2> SUFFICES ASSUME NEW j \in Jobs, record'[j].status = "queued", j \notin excused', j \notin seized'
               PROVE  j \in Waiting' \cup processing' \/ Moving(j)'
    BY DEF NoJobVanishes
  <2>1. s.pc \in {"save", "push"} /\ s.job = j => Moving(j)'
    BY <1>1 DEF Moving
  <2>2. CASE s.pc # "push" \/ s.job # j
    <3>1. record[j].status = "queued" /\ (j \in Waiting \cup processing \/ Moving(j))
      BY <2>2 DEF NoJobVanishes
    <3>2. CASE Moving(j)
      <4>1. producer[j] = "saved" => Moving(j)'
        BY DEF Moving
      <4>2. \A w \in Workers : worker[w].pc = "returning" /\ worker[w].job = j => Moving(j)'
        BY DEF Moving
      <4>3. \A x \in Tools \ {t} : tool[x].pc \in {"save", "push"} /\ tool[x].job = j => Moving(j)'
        BY <1>1 DEF Moving
      <4> QED
        BY <2>1, <3>2, <4>1, <4>2, <4>3 DEF Moving
    <3> QED
      BY <2>1, <3>1, <3>2
  <2> QED
    BY <2>1, <2>2
<1> QED
  BY <1>2, <1>3, <1>4, <1>5

\* The steps of workers lose no job.
LEMMA WorkTracked ==
    ASSUME TypeOK, Tracked, NEW w \in Workers, Work(w) \/ WorkerFails(w)
    PROVE  Tracked'
<1> DEFINE v == worker[w]
           j0 == worker[w].job
<1>1. v \in WorkerState
  BY DEF TypeOK
<1>2. v.pc # "idle" => j0 \in Jobs /\ producer[j0] # "new"
  BY DEF TypeOK, Tracked, NewSound
<1>3. producer' = producer /\ tool' = tool /\ excused \subseteq excused' /\ seized' = seized
  BY DEF Work, WorkerFails, Pop, StartJob, SkipJob, ReturnJob, PushBack, HandlerEnds,
     CompleteRead, CompleteWrite, FailRead, FailWrite, Release, history
<1>4. IdleWorker \in WorkerState /\ IdleWorker.pc = "idle"
  BY NullTypes DEF IdleWorker
\* Steps that leave the queue, the processing set and the records alone.
<1>5. ASSUME UNCHANGED << queue, processing, record >>, NEW s \in WorkerState,
             worker' = [worker EXCEPT ![w] = s], s.pc # "idle" => v.pc # "idle" /\ s.job = j0,
             s.pc \in {"missing", "releasing"} => record[j0].status # "queued",
             v.pc = "returning" => j0 \in excused'
      PROVE  Tracked'
  <2>1. Waiting' = Waiting
    BY <1>5 DEF Waiting
  <2> QED
    BY <1>2, <1>3, <1>5, <2>1, WorkerMoves
<1>6. CASE Pop(w)
  <2> DEFINE h == Head(queue)
             s == [IdleWorker EXCEPT !.pc = "popped", !.job = h]
  <2>1. h \in Waiting /\ h \in Jobs /\ Waiting' \subseteq Waiting /\ Waiting \subseteq Waiting' \cup {h}
    BY <1>6, WaitingMoves DEF Pop
  <2>2. v.pc = "idle" /\ record' = record /\ processing' = processing \cup {h}
    BY <1>6 DEF Pop
  <2>3. s \in WorkerState /\ s.pc = "popped" /\ s.job = h
    BY <2>1 DEF IdleWorker, WorkerState, WorkerStages
  <2>4. producer[h] # "new"
    BY <2>1 DEF Tracked, NewSound
  <2> HIDE DEF s, h
  <2>5. CASE h \in processing
    <3>1. worker' = [worker EXCEPT ![w] = v]
      BY <1>6, <2>5 DEF Pop, h, TypeOK
    <3> QED
      BY <1>1, <1>3, <2>1, <2>2, <3>1, WorkerMoves
  <2>6. CASE h \notin processing
    <3>1. worker' = [worker EXCEPT ![w] = s]
      BY <1>6, <2>6 DEF Pop, h, s, WorkerBecomes
    <3> QED
      BY <1>3, <2>1, <2>2, <2>3, <2>4, <3>1, WorkerMoves
  <2> QED
    BY <2>5, <2>6
<1>7. CASE StartJob(w)
  <2> DEFINE s == [worker[w] EXCEPT !.pc = "running", !.args = record[worker[w].job].args]
  <2>1. v.pc = "popped" /\ record[j0].args \in BOOLEAN
    BY <1>2, <1>7 DEF StartJob, TypeOK, JobRecord
  <2>2. s \in WorkerState /\ s.pc = "running" /\ s.job = j0
    BY <1>1, <2>1 DEF WorkerState, WorkerStages
  <2>3. worker' = [worker EXCEPT ![w] = s] /\ UNCHANGED << queue, processing, record >>
    BY <1>7 DEF StartJob, WorkerBecomes
  <2> HIDE DEF s
  <2> QED
    BY <1>5, <2>1, <2>2, <2>3
<1>8. ASSUME NEW stage \in WorkerStages, worker' = [worker EXCEPT ![w] = [worker[w] EXCEPT !.pc = stage]],
             UNCHANGED << queue, processing, record >>, v.pc \notin {"idle", "returning"},
             stage \in {"missing", "releasing"} => record[j0].status # "queued"
      PROVE  Tracked'
  <2> DEFINE s == [worker[w] EXCEPT !.pc = stage]
  <2>1. s \in WorkerState /\ s.pc = stage /\ s.job = j0
    BY <1>1 DEF WorkerState
  <2> HIDE DEF s
  <2>2. worker' = [worker EXCEPT ![w] = s]
    BY <1>8 DEF s
  <2> QED
    BY <1>5, <1>8, <2>1, <2>2
<1>9. CASE SkipJob(w)
  <2>1. PICK stage \in {"missing", "skipping"} :
           /\ worker' = [worker EXCEPT ![w] = [worker[w] EXCEPT !.pc = stage]]
           /\ stage = "missing" => record[j0].status = "none"
    BY <1>9 DEF SkipJob, WorkerGoes, WorkerBecomes, Exists
  <2> QED
    BY <1>8, <1>9, <2>1 DEF SkipJob, WorkerStages
<1>10. CASE ReturnJob(w)
  <2> DEFINE s == [worker[w] EXCEPT !.pc = "returning"]
  <2>1. v.pc = "skipping" /\ s \in WorkerState /\ s.pc = "returning" /\ s.job = j0
    BY <1>1, <1>10 DEF ReturnJob, WorkerState, WorkerStages
  <2>2. /\ worker' = [worker EXCEPT ![w] = s] /\ processing' = processing \ {j0}
        /\ record' = record /\ Waiting' = Waiting
    BY <1>10 DEF ReturnJob, WorkerGoes, WorkerBecomes, Waiting
  <2> HIDE DEF s
  <2> QED
    BY <1>2, <1>3, <2>1, <2>2, WorkerMoves
<1>11. CASE PushBack(w)
  <2>1. v.pc = "returning" /\ queue' = Append(queue, j0) /\ j0 \in Jobs
    BY <1>2, <1>11 DEF PushBack
  <2>2. Waiting' = Waiting \cup {j0}
    BY <2>1, WaitingMoves
  <2>3. worker' = [worker EXCEPT ![w] = IdleWorker] /\ UNCHANGED << processing, record >>
    BY <1>11 DEF PushBack, WorkerBecomes
  <2> QED
    BY <1>2, <1>3, <1>4, <2>1, <2>2, <2>3, WorkerMoves
<1>12. CASE HandlerEnds(w)
  <2>1. PICK stage \in {"succeeded", "failed"} :
           worker' = [worker EXCEPT ![w] = [worker[w] EXCEPT !.pc = stage, !.args = FALSE]]
    BY <1>12 DEF HandlerEnds, WorkerBecomes
  <2> DEFINE s == [worker[w] EXCEPT !.pc = stage, !.args = FALSE]
  <2>2. s \in WorkerState /\ s.pc = stage /\ s.job = j0
    BY <1>1 DEF WorkerState, WorkerStages
  <2>3. v.pc = "running" /\ UNCHANGED << queue, processing, record >>
    BY <1>12 DEF HandlerEnds
  <2>4. worker' = [worker EXCEPT ![w] = s]
    BY <2>1
  <2> HIDE DEF s
  <2> QED
    BY <1>5, <2>1, <2>2, <2>3, <2>4
<1>13. CASE CompleteRead(w)
  <2> DEFINE s == [worker[w] EXCEPT !.pc = "completing", !.args = record[worker[w].job].args]
  <2>1. v.pc = "succeeded" /\ record[j0].args \in BOOLEAN /\ UNCHANGED << queue, processing, record >>
    BY <1>2, <1>13 DEF CompleteRead, TypeOK, JobRecord
  <2>2. s \in WorkerState /\ s.pc = "completing" /\ s.job = j0
    BY <1>1, <2>1 DEF WorkerState, WorkerStages
  <2>3. \/ worker' = [worker EXCEPT ![w] = s]
        \/ worker' = [worker EXCEPT ![w] = IdleWorker]
    BY <1>13 DEF CompleteRead, WorkerBecomes
  <2> HIDE DEF s
  <2> QED
    BY <1>4, <1>5, <2>1, <2>2, <2>3
<1>14. CASE FailRead(w)
  <2>1. PICK stage \in {"failing", "releasing"} :
           /\ worker' = [worker EXCEPT ![w] = [worker[w] EXCEPT !.pc = stage]]
           /\ stage = "releasing" => record[j0].status = "none"
    BY <1>14 DEF FailRead, WorkerGoes, WorkerBecomes, Exists
  <2> QED
    BY <1>8, <1>14, <2>1 DEF FailRead, WorkerStages
\* The record of an end is written.
<1>15. ASSUME NEW status \in {"completed", "failed"}, NEW args \in BOOLEAN,
              record' = [record EXCEPT ![j0] = Written(status, args)],
              v.pc \in {"completing", "failing"}, UNCHANGED << queue, processing >>,
              NEW s \in WorkerState, s.pc = "releasing", s.job = j0,
              worker' = [worker EXCEPT ![w] = s]
       PROVE  Tracked'
  <2>1. Waiting' = Waiting
    BY <1>15 DEF Waiting
  <2>2. \A j \in Jobs : record'[j].status = IF j = j0 THEN status ELSE record[j].status
    BY <1>15 DEF Written, TypeOK
  <2> QED
    BY <1>2, <1>3, <1>15, <2>1, <2>2, WorkerMoves
<1>16. CASE CompleteWrite(w)
  <2> DEFINE s == [worker[w] EXCEPT !.pc = "releasing", !.args = FALSE]
  <2>1. s \in WorkerState /\ s.pc = "releasing" /\ s.job = j0 /\ v.args \in BOOLEAN
    BY <1>1 DEF WorkerState, WorkerStages
  <2>2. /\ v.pc = "completing" /\ UNCHANGED << queue, processing >>
        /\ worker' = [worker EXCEPT ![w] = s]
        /\ record' = [record EXCEPT ![j0] = Written("completed", v.args)]
    BY <1>16 DEF CompleteWrite, Store, WorkerBecomes
  <2> HIDE DEF s
  <2> QED
    BY <1>15, <2>1, <2>2
<1>17. CASE FailWrite(w)
  <2> DEFINE s == [worker[w] EXCEPT !.pc = "releasing"]
  <2>1. s \in WorkerState /\ s.pc = "releasing" /\ s.job = j0
    BY <1>1 DEF WorkerState, WorkerStages
  <2>2. /\ v.pc = "failing" /\ UNCHANGED << queue, processing >>
        /\ worker' = [worker EXCEPT ![w] = s]
        /\ record' = [record EXCEPT ![j0] = Written("failed", FALSE)]
    BY <1>17 DEF FailWrite, Store, WorkerGoes, WorkerBecomes
  <2> HIDE DEF s
  <2> QED
    BY <1>15, <2>1, <2>2
<1>18. CASE Release(w)
  <2>1. /\ v.pc \in {"missing", "releasing"} /\ record' = record
        /\ processing' = processing \ {j0} /\ Waiting' = Waiting
        /\ worker' = [worker EXCEPT ![w] = IdleWorker] /\ excused' = excused
    BY <1>18 DEF Release, WorkerBecomes, Waiting, history
  <2>2. record[j0].status # "queued" \/ j0 \in excused
    BY <2>1 DEF Tracked, ReleaseSound
  <2> QED
    BY <1>3, <1>4, <2>1, <2>2, WorkerMoves
<1>19. CASE WorkerFails(w)
  BY <1>4, <1>5, <1>19 DEF WorkerFails, WorkerBecomes
<1> QED
  BY <1>6, <1>7, <1>9, <1>10, <1>11, <1>12, <1>13, <1>14, <1>16, <1>17, <1>18, <1>19 DEF Work

\* The steps of tools lose no job.
LEMMA ToolTracked ==
    ASSUME TypeOK, Tracked, NEW t \in Tools, Requeue(t) \/ Cancel(t) \/ Delete(t) \/ ToolFails(t)
    PROVE  Tracked'
<1> DEFINE v == tool[t]
           j0 == tool[t].job
<1>1. v \in ToolState
  BY DEF TypeOK
<1>2. v.pc \in {"take", "drop", "save", "push"} => j0 \in Jobs /\ producer[j0] # "new"
  BY DEF TypeOK, Tracked, NewSound
<1>3. producer' = producer /\ worker' = worker /\ excused \subseteq excused' /\ seized \subseteq seized'
  BY DEF Requeue, Cancel, Delete, StartRequeue, RequeueRead, RequeueTake, RequeueSave,
     RequeuePush, StartCancel, CancelRead, CancelDrop, CancelSave, StartDelete, DeleteRead,
     StartClearTerminal, CollectTerminal, EraseRecord, UnlinkQueued, UnlinkProcessing,
     ToolFails, history
<1>4. IdleTool \in ToolState /\ IdleTool.pc = "idle"
  BY NullTypes DEF IdleTool
<1>5. /\ v.pc \in {"get", "erase"} => v.ids \subseteq v.todo \cup excused
      /\ v.pc \in {"unlink", "release"} => v.ids \subseteq excused
      /\ v.pc \in {"get", "erase", "unlink", "release"} => v.todo \subseteq v.ids
  BY DEF Tracked, DeleteSound
<1>6. \A j \in Jobs : record[j].status # "none" => producer[j] # "new"
  BY DEF Tracked, NewSound
\* Steps that leave the queue, the processing set and the records alone.
<1>7. ASSUME UNCHANGED << queue, processing, record >>, NEW s \in ToolState,
             tool' = [tool EXCEPT ![t] = s],
             s.pc \in {"idle", "scan", "collect"}
                \/ (s.pc \in {"take", "drop"} /\ producer[s.job] # "new")
                \/ (s.pc \in {"get", "erase"} /\ s.todo = s.ids),
             v.pc \in {"save", "push"} => j0 \in excused'
      PROVE  Tracked'
  <2>1. Waiting' = Waiting
    BY <1>7 DEF Waiting
  <2> QED
    BY <1>3, <1>7, <2>1, ToolMoves
<1>8. CASE StartRequeue(t)
  <2> DEFINE s == [IdleTool EXCEPT !.op = "requeue", !.pc = "scan", !.todo = processing]
  <2>1. s \in ToolState /\ s.pc = "scan"
    BY DEF TypeOK, ToolState, ToolStages, IdleTool
  <2>2. /\ v.pc = "idle" /\ tool' = [tool EXCEPT ![t] = s]
        /\ UNCHANGED << queue, processing, record >>
    BY <1>8 DEF StartRequeue, ToolBecomes
  <2> HIDE DEF s
  <2> QED
    BY <1>7, <2>1, <2>2
<1>9. ASSUME NEW j \in Jobs, NEW stage \in {"take", "drop"}, v.pc = "scan",
             UNCHANGED << queue, processing, record >>,
             \/ /\ record[j].status # "none"
                /\ tool' = [tool EXCEPT ![t] = [[tool[t] EXCEPT !.job = j]
                                                  EXCEPT !.pc = stage, !.args = record[j].args]]
             \/ tool' = [tool EXCEPT ![t] = Onward([tool[t] EXCEPT !.job = j])]
      PROVE  Tracked'
  <2> DEFINE s == [tool[t] EXCEPT !.job = j]
             r == [s EXCEPT !.pc = stage, !.args = record[j].args]
  <2>1. s \in ToolState /\ record[j].args \in BOOLEAN
    BY <1>1 DEF TypeOK, ToolState, JobRecord
  <2>2. s.job = j
    BY <1>1 DEF ToolState
  <2> HIDE DEF s
  <2>3. r \in ToolState /\ r.pc = stage /\ r.job = j
    BY <2>1, <2>2 DEF ToolState, ToolStages
  <2>4. Onward(s) \in ToolState /\ Onward(s).pc \in {"idle", "scan"}
    BY <2>1, OnwardType
  <2> HIDE DEF r
  <2>5. \/ record[j].status # "none" /\ tool' = [tool EXCEPT ![t] = r]
        \/ tool' = [tool EXCEPT ![t] = Onward(s)]
    BY <1>9 DEF r, s
  <2>6. CASE record[j].status # "none" /\ tool' = [tool EXCEPT ![t] = r]
    <3>1. producer[r.job] # "new" /\ r.pc \in {"take", "drop"}
      BY <1>6, <2>3, <2>6
    <3> QED
      BY <1>7, <1>9, <2>3, <2>6, <3>1
  <2>7. CASE tool' = [tool EXCEPT ![t] = Onward(s)]
    BY <1>7, <1>9, <2>4, <2>7
  <2> QED
    BY <2>5, <2>6, <2>7
<1>10. ASSUME NEW j \in Jobs, RequeueRead(t, j) PROVE Tracked'
  BY <1>9, <1>10 DEF RequeueRead, ToolAt, ToolBecomes, Exists
<1>11. CASE RequeueTake(t)
  <2> DEFINE s == [tool[t] EXCEPT !.pc = "save"]
  <2>1. v.pc = "take" /\ s \in ToolState /\ s.pc = "save" /\ s.job = j0
    BY <1>1, <1>11 DEF RequeueTake, ToolAt, ToolState, ToolStages
  <2>2. /\ tool' = [tool EXCEPT ![t] = s] /\ processing' = processing \ {j0}
        /\ record' = record /\ Waiting' = Waiting
    BY <1>11 DEF RequeueTake, ToolBecomes, Waiting
  <2> HIDE DEF s
  <2> QED
    BY <1>2, <1>3, <2>1, <2>2, ToolMoves
<1>12. CASE RequeueSave(t)
  <2> DEFINE s == [tool[t] EXCEPT !.pc = "push"]
  <2>1. v.pc = "save" /\ s \in ToolState /\ s.pc = "push" /\ s.job = j0
    BY <1>1, <1>12 DEF RequeueSave, ToolAt, ToolState, ToolStages
  <2>2. /\ tool' = [tool EXCEPT ![t] = s] /\ processing' = processing
        /\ Waiting' = Waiting /\ record' = [record EXCEPT ![j0] = Written("queued", tool[t].args)]
        /\ Held(j0) => j0 \in excused'
    BY <1>12 DEF RequeueSave, ToolBecomes, Store, Waiting
  <2>3. \A j \in Jobs \ {j0} : record'[j] = record[j]
    BY <2>2 DEF TypeOK
  <2> HIDE DEF s
  <2> QED
    BY <1>2, <1>3, <2>1, <2>2, <2>3, ToolMoves
\* Steps that end the work on one job.
<1>13. ASSUME v.pc \in {"save", "push"}, processing' = processing,
              tool' = [tool EXCEPT ![t] = Onward(tool[t])],
              \/ queue' = Append(queue, j0) /\ record' = record
              \/ queue' = queue /\ record' = [record EXCEPT ![j0] = Written("cancelled", tool[t].args)]
       PROVE  Tracked'
  <2>1. Onward(tool[t]) \in ToolState /\ Onward(tool[t]).pc \in {"idle", "scan"}
    BY <1>1, OnwardType
  <2>2. CASE queue' = Append(queue, j0) /\ record' = record
    <3>1. Waiting' = Waiting \cup {j0}
      BY <1>2, <1>13, <2>2, WaitingMoves
    <3> QED
      BY <1>2, <1>3, <1>13, <2>1, <2>2, <3>1, ToolMoves
  <2>3. CASE queue' = queue /\ record' = [record EXCEPT ![j0] = Written("cancelled", tool[t].args)]
    <3>1. Waiting' = Waiting
      BY <2>3 DEF Waiting
    <3>2. \A j \in Jobs : record'[j].status = IF j = j0 THEN "cancelled" ELSE record[j].status
      BY <2>3 DEF Written, TypeOK
    <3> QED
      BY <1>2, <1>3, <1>13, <2>1, <3>1, <3>2, ToolMoves
  <2> QED
    BY <1>13, <2>2, <2>3
<1>14. CASE RequeuePush(t)
  BY <1>13, <1>14 DEF RequeuePush, ToolAt, ToolBecomes
<1>15. CASE StartCancel(t)
  <2> DEFINE s == [IdleTool EXCEPT !.op = "cancel", !.pc = "scan", !.todo = Waiting]
  <2>1. s \in ToolState /\ s.pc = "scan"
    BY WaitingMoves DEF ToolState, ToolStages, IdleTool
  <2>2. /\ v.pc = "idle" /\ tool' = [tool EXCEPT ![t] = s]
        /\ UNCHANGED << queue, processing, record >>
    BY <1>15 DEF StartCancel, ToolBecomes
  <2> HIDE DEF s
  <2> QED
    BY <1>7, <2>1, <2>2
<1>16. ASSUME NEW j \in Jobs, CancelRead(t, j) PROVE Tracked'
  BY <1>9, <1>16 DEF CancelRead, ToolAt, ToolBecomes
<1>17. CASE CancelDrop(t)
  <2> DEFINE s == [tool[t] EXCEPT !.pc = "save"]
  <2>1. v.pc = "drop" /\ s \in ToolState /\ s.pc = "save" /\ s.job = j0
    BY <1>1, <1>17 DEF CancelDrop, ToolAt, ToolState, ToolStages
  <2>2. /\ tool' = [tool EXCEPT ![t] = s] /\ processing' = processing /\ record' = record
        /\ Unlisted(j0)
    BY <1>17 DEF CancelDrop, ToolBecomes
  <2>3. Waiting' \subseteq Waiting /\ Waiting \subseteq Waiting' \cup {j0}
    BY <1>2, <2>1, <2>2, WaitingMoves
  <2> HIDE DEF s
  <2> QED
    BY <1>2, <1>3, <2>1, <2>2, <2>3, ToolMoves
<1>18. CASE CancelSave(t)
  BY <1>13, <1>18 DEF CancelSave, ToolAt, ToolBecomes, Store
<1>19. ASSUME NEW j \in Jobs, StartDelete(t, j) PROVE Tracked'
  <2> DEFINE s == [IdleTool EXCEPT !.op = "delete", !.pc = "get", !.todo = {j}, !.ids = {j}]
  <2>1. s \in ToolState /\ s.pc = "get" /\ s.todo = s.ids
    BY DEF ToolState, ToolStages, IdleTool
  <2>2. /\ v.pc = "idle" /\ tool' = [tool EXCEPT ![t] = s]
        /\ UNCHANGED << queue, processing, record >>
    BY <1>19 DEF StartDelete, ToolBecomes
  <2> HIDE DEF s
  <2> QED
    BY <1>7, <2>1, <2>2
<1>20. CASE DeleteRead(t)
  <2> DEFINE s == [tool[t] EXCEPT !.pc = "erase"]
  <2>1. v.pc = "get" /\ UNCHANGED << queue, processing, record >> /\ excused' = excused
    BY <1>20 DEF DeleteRead, ToolAt, history
  <2>2. s \in ToolState /\ s.pc = "erase" /\ s.todo = v.todo /\ s.ids = v.ids
    BY <1>1 DEF ToolState, ToolStages
  <2>3. \/ tool' = [tool EXCEPT ![t] = s]
        \/ tool' = [tool EXCEPT ![t] = IdleTool]
    BY <1>20 DEF DeleteRead, ToolBecomes
  <2>4. Waiting' = Waiting
    BY <2>1 DEF Waiting
  <2> HIDE DEF s
  <2>5. CASE tool' = [tool EXCEPT ![t] = s]
    BY <1>3, <1>5, <2>1, <2>2, <2>4, <2>5, ToolMoves
  <2>6. CASE tool' = [tool EXCEPT ![t] = IdleTool]
    BY <1>4, <1>7, <2>1, <2>6
  <2> QED
    BY <2>3, <2>5, <2>6
<1>21. CASE StartClearTerminal(t)
  <2> DEFINE listed == {j \in Jobs : Exists(j)}
             s == [IdleTool EXCEPT !.op = "delete", !.pc = "collect", !.todo = listed]
  <2>1. s \in ToolState /\ s.pc = "collect"
    BY DEF ToolState, ToolStages, IdleTool
  <2>2. /\ v.pc = "idle" /\ tool' = [tool EXCEPT ![t] = s]
        /\ UNCHANGED << queue, processing, record >>
    BY <1>21 DEF StartClearTerminal, ToolBecomes
  <2> HIDE DEF s
  <2> QED
    BY <1>7, <2>1, <2>2
<1>22. ASSUME NEW j \in Jobs, CollectTerminal(t, j) PROVE Tracked'
  <2> DEFINE left == tool[t].todo \ {j}
             ended == IF record[j].status \in Terminal THEN tool[t].ids \cup {j} ELSE tool[t].ids
             going == [tool[t] EXCEPT !.todo = left, !.ids = ended]
             over == [tool[t] EXCEPT !.pc = "erase", !.todo = ended, !.ids = ended]
  <2>1. v.pc = "collect" /\ UNCHANGED << queue, processing, record >>
    BY <1>22 DEF CollectTerminal, ToolAt
  <2>2. left \subseteq Jobs /\ ended \subseteq Jobs
    BY <1>1 DEF ToolState
  <2> HIDE DEF left, ended
  <2>3. /\ going \in ToolState /\ going.pc = "collect"
        /\ over \in ToolState /\ over.pc = "erase" /\ over.todo = over.ids
    BY <1>1, <2>1, <2>2 DEF ToolState, ToolStages
  <2> HIDE DEF going, over
  <2>4. PICK s \in {going, IdleTool, over} : tool' = [tool EXCEPT ![t] = s]
    BY <1>22 DEF CollectTerminal, ToolBecomes, going, over, left, ended
  <2> QED
    BY <1>4, <1>7, <2>1, <2>3, <2>4
\* One id is done; the stage goes on or the next one begins.
<1>23. ASSUME NEW j \in Jobs, j \in v.todo, NEW next \in {"unlink", "release", "idle"},
              v.pc \in {"erase", "unlink", "release"}, NextId(t, j, next)
       PROVE  \E s \in ToolState :
                 /\ tool' = [tool EXCEPT ![t] = s]
                 /\ \/ s.pc = "idle"
                    \/ s.pc = v.pc /\ s.ids = v.ids /\ s.todo = v.todo \ {j}
                    \/ s.pc = next /\ s.ids = v.ids /\ s.todo = v.ids /\ v.todo = {j}
  <2> DEFINE left == tool[t].todo \ {j}
             going == [tool[t] EXCEPT !.todo = left]
             over == [tool[t] EXCEPT !.pc = next, !.todo = tool[t].ids]
  <2>1. left \subseteq Jobs /\ (left = {} => v.todo = {j}) /\ left = v.todo \ {j}
    BY <1>1, <1>23 DEF ToolState
  <2>2. \/ tool' = [tool EXCEPT ![t] = going]
        \/ tool' = [tool EXCEPT ![t] = IdleTool]
        \/ left = {} /\ tool' = [tool EXCEPT ![t] = over]
    BY <1>23 DEF NextId, ToolBecomes
  <2> HIDE DEF left
  <2>3. /\ going \in ToolState /\ going.pc = v.pc /\ going.ids = v.ids /\ going.todo = left
        /\ over \in ToolState /\ over.pc = next /\ over.ids = v.ids /\ over.todo = v.ids
    BY <1>1, <2>1 DEF ToolState, ToolStages
  <2> HIDE DEF going, over
  <2> QED
    BY <1>4, <2>1, <2>2, <2>3
<1>24. ASSUME NEW j \in Jobs, EraseRecord(t, j) PROVE Tracked'
  <2>1. /\ v.pc = "erase" /\ j \in v.todo /\ UNCHANGED << queue, processing >>
        /\ record' = [record EXCEPT ![j] = NoRecord] /\ excused' = excused \cup {j}
        /\ NextId(t, j, "unlink")
    BY <1>24 DEF EraseRecord, ToolAt, Store
  <2>2. PICK s \in ToolState :
           /\ tool' = [tool EXCEPT ![t] = s]
           /\ \/ s.pc = "idle"
              \/ s.pc = "erase" /\ s.ids = v.ids /\ s.todo = v.todo \ {j}
              \/ s.pc = "unlink" /\ s.ids = v.ids /\ s.todo = v.ids /\ v.todo = {j}
    BY <1>23, <2>1
  <2>3. Waiting' = Waiting
    BY <2>1 DEF Waiting
  <2>4. \A i \in Jobs : record'[i].status = IF i = j THEN "none" ELSE record[i].status
    BY <2>1 DEF NoRecord, TypeOK
  <2> QED
    BY <1>3, <1>5, <2>1, <2>2, <2>3, <2>4, ToolMoves
<1>25. ASSUME NEW j \in Jobs, UnlinkQueued(t, j) PROVE Tracked'
  <2>1. /\ v.pc = "unlink" /\ j \in v.todo /\ UNCHANGED << processing, record, excused >>
        /\ Unlisted(j) /\ NextId(t, j, "release")
    BY <1>25 DEF UnlinkQueued, ToolAt
  <2>2. PICK s \in ToolState :
           /\ tool' = [tool EXCEPT ![t] = s]
           /\ \/ s.pc = "idle"
              \/ s.pc = "unlink" /\ s.ids = v.ids /\ s.todo = v.todo \ {j}
              \/ s.pc = "release" /\ s.ids = v.ids /\ s.todo = v.ids /\ v.todo = {j}
    BY <1>23, <2>1
  <2>3. Waiting' \subseteq Waiting /\ Waiting \subseteq Waiting' \cup {j}
    BY <2>1, WaitingMoves
  <2>4. j \in excused
    BY <1>5, <2>1
  <2> QED
    BY <1>3, <1>5, <2>1, <2>2, <2>3, <2>4, ToolMoves
<1>26. ASSUME NEW j \in Jobs, UnlinkProcessing(t, j) PROVE Tracked'
  <2>1. /\ v.pc = "release" /\ j \in v.todo /\ UNCHANGED << queue, record, excused >>
        /\ processing' = processing \ {j} /\ NextId(t, j, "idle")
    BY <1>26 DEF UnlinkProcessing, ToolAt
  <2>2. PICK s \in ToolState :
           /\ tool' = [tool EXCEPT ![t] = s]
           /\ \/ s.pc = "idle"
              \/ s.pc = "release" /\ s.ids = v.ids /\ s.todo = v.todo \ {j}
    BY <1>23, <2>1
  <2>3. Waiting' = Waiting
    BY <2>1 DEF Waiting
  <2>4. j \in excused
    BY <1>5, <2>1
  <2> QED
    BY <1>3, <1>5, <2>1, <2>2, <2>3, <2>4, ToolMoves
<1>27. CASE ToolFails(t)
  <2>1. /\ tool' = [tool EXCEPT ![t] = IdleTool] /\ UNCHANGED << queue, processing, record >>
        /\ v.pc \in {"save", "push"} => j0 \in excused'
    BY <1>27 DEF ToolFails, ToolBecomes
  <2> QED
    BY <1>4, <1>7, <2>1
<1> QED
  BY <1>8, <1>10, <1>11, <1>12, <1>14, <1>15, <1>16, <1>17, <1>18, <1>19, <1>20, <1>21,
     <1>22, <1>24, <1>25, <1>26, <1>27 DEF Requeue, Cancel, Delete

\* Enqueueing and time lose no job.
LEMMA EnqueueTracked ==
    ASSUME TypeOK, Tracked, NEW j0 \in Jobs, Enqueue(j0) \/ Age(j0)
    PROVE  Tracked'
<1>1. /\ worker' = worker /\ tool' = tool /\ processing' = processing
      /\ excused \subseteq excused' /\ seized' = seized
  BY DEF Enqueue, EnqueueSave, EnqueuePush, EnqueueFails, Age, history
<1>2. /\ Waiting \subseteq Waiting'
      /\ Waiting' \subseteq Waiting \/ (Waiting' = Waiting \cup {j0} /\ producer'[j0] = "done")
  <2>1. CASE EnqueuePush(j0)
    BY <2>1, WaitingMoves DEF EnqueuePush, TypeOK
  <2>2. CASE queue' = queue
    BY <2>2 DEF Waiting
  <2> QED
    BY <2>1, <2>2 DEF Enqueue, EnqueueSave, EnqueueFails, Age
<1>3. /\ \A j \in Jobs \ {j0} : producer'[j] = producer[j] /\ record'[j] = record[j]
      /\ \/ producer[j0] = "new" /\ producer'[j0] = "saved"
         \/ /\ producer[j0] = "saved" /\ producer'[j0] = "done" /\ j0 \in Waiting' \cup excused'
            /\ record' = record
         \/ producer' = producer /\ record'[j0].status = record[j0].status
  <2>1. CASE EnqueueSave(j0)
    BY <2>1 DEF EnqueueSave, Store, TypeOK
  <2>2. CASE EnqueuePush(j0)
    <3>1. Waiting' = Waiting \cup {j0}
      BY <2>2, WaitingMoves DEF EnqueuePush
    <3> QED
      BY <2>2, <3>1 DEF EnqueuePush, TypeOK
  <2>3. CASE EnqueueFails(j0)
    BY <2>3 DEF EnqueueFails, TypeOK
  <2>4. CASE Age(j0)
    <3>1. record[j0] \in JobRecord
      BY DEF TypeOK
    <3>2. [record[j0] EXCEPT !.old = TRUE].status = record[j0].status
      BY ONLY <3>1 DEF JobRecord
    <3> QED
      BY <2>4, <3>2 DEF Age, Store, TypeOK
  <2> QED
    BY <2>1, <2>2, <2>3, <2>4 DEF Enqueue
<1>4. NewSound'
  <2> SUFFICES ASSUME NEW j \in Jobs, producer'[j] = "new"
               PROVE  /\ record'[j].status = "none"
                      /\ j \notin Waiting'
                      /\ \A w \in Workers : worker[w].pc # "idle" => worker[w].job # j
                      /\ \A t \in Tools : tool[t].pc \in {"take", "drop", "save", "push"} =>
                                              tool[t].job # j
    BY <1>1 DEF NewSound
  <2>1. producer[j] = "new" /\ record'[j].status = record[j].status /\ j \notin Waiting' \ Waiting
    BY <1>2, <1>3
  <2> QED
    BY <2>1 DEF Tracked, NewSound
<1>5. ReleaseSound'
  <2> SUFFICES ASSUME NEW w \in Workers, worker[w].pc \in {"missing", "releasing"}
               PROVE  \/ record'[worker[w].job].status # "queued"
                      \/ worker[w].job \in excused'
    BY <1>1 DEF ReleaseSound
  <2>1. worker[w].job \in Jobs /\ producer[worker[w].job] # "new"
    BY DEF TypeOK, Tracked, NewSound
  <2>2. record'[worker[w].job].status = record[worker[w].job].status
    BY <1>3, <2>1
  <2> QED
    BY <1>1, <2>2 DEF Tracked, ReleaseSound
<1>6. DeleteSound'
  BY <1>1 DEF Tracked, DeleteSound
<1>7. NoJobVanishes'
  <2> SUFFICES ASSUME NEW j \in Jobs, record'[j].status = "queued", j \notin excused', j \notin seized'
               PROVE  j \in Waiting' \cup processing' \/ Moving(j)'
    BY DEF NoJobVanishes
  <2>1. producer'[j] = "saved" => Moving(j)'
    BY DEF Moving
  <2>2. CASE producer[j] = "new" /\ j = j0 /\ producer'[j] = "saved"
    BY <2>1, <2>2
  <2>3. CASE record[j].status = "queued"
    <3>1. j \in Waiting \cup processing \/ Moving(j)
      BY <1>1, <2>3 DEF Tracked, NoJobVanishes
    <3>2. CASE Moving(j)
      <4>1. producer[j] = "saved" => producer'[j] = "saved" \/ j \in Waiting' \cup excused'
        BY <1>3
      <4> QED
        BY <1>1, <2>1, <3>2, <4>1 DEF Moving
    <3> QED
      BY <1>1, <1>2, <3>1, <3>2
  <2> QED
    BY <1>3, <2>2, <2>3
<1> QED
  BY <1>4, <1>5, <1>6, <1>7 DEF Tracked

-----------------------------------------------------------------------------
(* Starts are accounted for.                                               *)

\* Workers that popped a job, and have neither started it nor put it back.
Bears(s, j) == s.job = j /\ s.pc \in {"popped", "skipping", "returning"}
Bearers(j) == {w \in Workers : Bears(worker[w], j)}

\* Whatever may still start has its credit.
Backed ==
    \A j \in Jobs : /\ IsFiniteSet(Bearers(j))
                    /\ credit[j] >= Count(queue, j) + Cardinality(Bearers(j))

\* A worker that changes its state becomes a bearer of a job, or stops being one.
LEMMA BearersMove ==
    ASSUME TypeOK, Backed, NEW w \in Workers, NEW s, worker' = [worker EXCEPT ![w] = s],
           NEW j \in Jobs
    PROVE  /\ IsFiniteSet(Bearers(j)')
           /\ (Bears(worker[w], j) <=> Bears(s, j)) =>
                  Cardinality(Bearers(j)') = Cardinality(Bearers(j))
           /\ ~Bears(worker[w], j) /\ Bears(s, j) =>
                  Cardinality(Bearers(j)') = Cardinality(Bearers(j)) + 1
           /\ Bears(worker[w], j) /\ ~Bears(s, j) =>
                  Cardinality(Bearers(j)') = Cardinality(Bearers(j)) - 1
<1> DEFINE bears == Bears(worker[w], j)
           will == Bears(s, j)
<1>1. IsFiniteSet(Bearers(j)) /\ Cardinality(Bearers(j)) \in Nat
  BY FS_CardinalityType DEF Backed
<1>2. bears <=> w \in Bearers(j)
  BY DEF Bearers
<1>3. Bearers(j)' = IF will THEN Bearers(j) \cup {w} ELSE Bearers(j) \ {w}
  BY DEF Bearers, TypeOK
<1> HIDE DEF bears, will
<1>4. /\ IsFiniteSet(Bearers(j) \cup {w})
      /\ Cardinality(Bearers(j) \cup {w}) = Cardinality(Bearers(j)) + (IF bears THEN 0 ELSE 1)
  BY <1>1, <1>2, FS_AddElement
<1>5. /\ IsFiniteSet(Bearers(j) \ {w})
      /\ Cardinality(Bearers(j) \ {w}) = Cardinality(Bearers(j)) - (IF bears THEN 1 ELSE 0)
  BY <1>1, <1>2, FS_RemoveElement
<1>6. CASE will
  <2>1. Bearers(j)' = Bearers(j) \cup {w}
    BY <1>3, <1>6
  <2> QED
    BY <1>1, <1>4, <1>6, <2>1 DEF bears, will
<1>7. CASE ~will
  <2>1. Bearers(j)' = Bearers(j) \ {w}
    BY <1>3, <1>7
  <2> QED
    BY <1>1, <1>5, <1>7, <2>1 DEF bears, will
<1> QED
  BY <1>6, <1>7

\* The bearers are the same when no worker moves.
LEMMA BearersStay ==
    ASSUME Backed, worker' = worker, NEW j \in Jobs
    PROVE  /\ Bearers(j)' = Bearers(j) /\ IsFiniteSet(Bearers(j))
           /\ Cardinality(Bearers(j)) \in Nat
BY FS_CardinalityType DEF Backed, Bearers

\* An id taken out of the queue by a tool takes its credit along.
LEMMA UnlistedBacked ==
    ASSUME TypeOK, Backed, NEW i \in Jobs, Unlisted(i), worker' = worker
    PROVE  Backed'
<1>1. queue \in Seq(Jobs) /\ credit \in [Jobs -> Int]
  BY DEF TypeOK
<1>2. SUFFICES ASSUME NEW j \in Jobs
               PROVE  credit'[j] >= Count(queue', j) + Cardinality(Bearers(j))
  BY BearersStay DEF Backed, Count
<1>3. CASE UNCHANGED << queue, credit >>
  BY <1>3 DEF Backed
<1>4. ASSUME NEW k \in 1 .. Len(queue), queue[k] = i, queue' = RemoveAt(queue, k),
             credit' = [credit EXCEPT ![i] = @ - 1]
      PROVE  credit'[j] >= Count(queue', j) + Cardinality(Bearers(j))
  <2>1. /\ queue' \in Seq(Jobs)
        /\ Count(queue', j) <= IF i = j THEN Count(queue, j) - 1 ELSE Count(queue, j)
    BY <1>1, <1>4, RemoveAtElements, CountRemoved
  <2>2. Count(queue, j) \in Nat /\ Count(queue', j) \in Nat /\ Cardinality(Bearers(j)) \in Nat
    BY <1>1, <2>1, CountType, BearersStay
  <2>3. credit[j] >= Count(queue, j) + Cardinality(Bearers(j)) /\ credit[j] \in Int
    BY <1>1 DEF Backed
  <2>4. credit'[j] = IF i = j THEN credit[j] - 1 ELSE credit[j]
    BY <1>1, <1>4
  <2> QED
    BY <2>1, <2>2, <2>3, <2>4
<1> QED
  BY <1>3, <1>4 DEF Unlisted

\* An id put in the queue by somebody who is no bearer brings its credit.
LEMMA AppendBacked ==
    ASSUME TypeOK, Backed, NEW i \in Jobs, queue' = Append(queue, i), worker' = worker,
           credit' = [credit EXCEPT ![i] = @ + 1]
    PROVE  Backed'
<1>1. queue \in Seq(Jobs) /\ credit \in [Jobs -> Int]
  BY DEF TypeOK
<1>2. SUFFICES ASSUME NEW j \in Jobs
               PROVE  credit'[j] >= Count(queue', j) + Cardinality(Bearers(j))
  BY BearersStay DEF Backed, Count
<1>3. Count(queue', j) = IF i = j THEN Count(queue, j) + 1 ELSE Count(queue, j)
  BY <1>1, CountAppend
<1>4. Count(queue, j) \in Nat /\ Cardinality(Bearers(j)) \in Nat
  BY <1>1, CountType, BearersStay
<1>5. credit[j] >= Count(queue, j) + Cardinality(Bearers(j)) /\ credit[j] \in Int
  BY <1>1 DEF Backed
<1>6. credit'[j] = IF i = j THEN credit[j] + 1 ELSE credit[j]
  BY <1>1
<1> QED
  BY <1>3, <1>4, <1>5, <1>6

\* The steps of workers spend what they have.
LEMMA WorkBacked ==
    ASSUME TypeOK, Backed, NEW w \in Workers, Work(w) \/ WorkerFails(w)
    PROVE  Backed'
<1> DEFINE v == worker[w]
<1>1. queue \in Seq(Jobs) /\ credit \in [Jobs -> Int]
  BY DEF TypeOK
<1>2. \A j \in Jobs : /\ credit[j] \in Int /\ Count(queue, j) \in Nat
                      /\ IsFiniteSet(Bearers(j)) /\ Cardinality(Bearers(j)) \in Nat
                      /\ credit[j] >= Count(queue, j) + Cardinality(Bearers(j))
  BY <1>1, CountType, FS_CardinalityType DEF Backed
\* A worker goes on with its job or drops it.
<1>3. ASSUME UNCHANGED << queue, credit >>, NEW s, worker' = [worker EXCEPT ![w] = s],
             \/ s.pc \notin {"popped", "skipping", "returning"}
             \/ s.job = v.job /\ v.pc \in {"popped", "skipping", "returning"}
      PROVE  Backed'
  <2> SUFFICES ASSUME NEW j \in Jobs
               PROVE  IsFiniteSet(Bearers(j)') /\ credit[j] >= Count(queue, j) + Cardinality(Bearers(j)')
    BY <1>3 DEF Backed, Count
  <2>1. /\ credit[j] \in Int /\ Count(queue, j) \in Nat /\ Cardinality(Bearers(j)) \in Nat
        /\ credit[j] >= Count(queue, j) + Cardinality(Bearers(j))
    BY <1>2
  <2>2. Bears(s, j) => Bears(worker[w], j)
    BY <1>3 DEF Bears
  <2>3. /\ IsFiniteSet(Bearers(j)')
        /\ \/ Cardinality(Bearers(j)') = Cardinality(Bearers(j))
           \/ Cardinality(Bearers(j)') = Cardinality(Bearers(j)) - 1
    BY <1>3, <2>2, BearersMove
  <2> QED
    BY <2>1, <2>3
<1>4. CASE Pop(w)
  <2> DEFINE h == Head(queue)
             s == [IdleWorker EXCEPT !.pc = "popped", !.job = h]
  <2>1. v.pc = "idle" /\ queue # << >> /\ queue' = Tail(queue) /\ credit' = credit
    BY <1>4 DEF Pop, history
  <2>2. /\ queue' \in Seq(Jobs) /\ h \in Jobs
        /\ \A j \in Jobs : Count(queue', j) <= IF h = j THEN Count(queue, j) - 1 ELSE Count(queue, j)
    <3>1. /\ 1 \in 1 .. Len(queue) /\ h = queue[1] /\ h \in Jobs
          /\ Tail(queue) \in Seq(Jobs) /\ Len(Tail(queue)) = Len(queue) - 1
          /\ \A k \in 1 .. Len(queue) - 1 :
                 Tail(queue)[k] = IF k < 1 THEN queue[k] ELSE queue[k + 1]
      BY <1>1, <2>1, TailElements
    <3> HIDE DEF h
    <3> QED
      BY <1>1, <2>1, <3>1, CountRemoved
  <2>3. s.pc = "popped" /\ s.job = h
    BY DEF IdleWorker
  <2>4. worker' = worker \/ worker' = [worker EXCEPT ![w] = s]
    BY <1>4 DEF Pop, WorkerBecomes
  <2> HIDE DEF s, h
  <2> SUFFICES ASSUME NEW j \in Jobs
               PROVE  IsFiniteSet(Bearers(j)') /\ credit[j] >= Count(queue', j) + Cardinality(Bearers(j)')
    BY <2>1 DEF Backed, Count
  <2>5. /\ credit[j] \in Int /\ Count(queue, j) \in Nat /\ Cardinality(Bearers(j)) \in Nat
        /\ IsFiniteSet(Bearers(j))
        /\ credit[j] >= Count(queue, j) + Cardinality(Bearers(j))
    BY <1>2
  <2>6. Count(queue', j) \in Nat /\ Count(queue', j) <= Count(queue, j)
        /\ (h = j => Count(queue', j) <= Count(queue, j) - 1)
    BY <2>2, <2>5, CountType
  <2>7. CASE worker' = worker
    <3>1. Bearers(j)' = Bearers(j)
      BY <2>7, BearersStay
    <3> QED
      BY <2>5, <2>6, <3>1
  <2>8. CASE worker' = [worker EXCEPT ![w] = s]
    <3>1. ~Bears(worker[w], j) /\ (Bears(s, j) <=> h = j)
      BY <2>1, <2>3 DEF Bears
    <3>2. /\ IsFiniteSet(Bearers(j)')
          /\ h = j => Cardinality(Bearers(j)') = Cardinality(Bearers(j)) + 1
          /\ h # j => Cardinality(Bearers(j)') = Cardinality(Bearers(j))
      BY <2>8, <3>1, BearersMove
    <3> QED
      BY <2>5, <2>6, <3>2
  <2> QED
    BY <2>4, <2>7, <2>8
<1>5. CASE StartJob(w)
  <2> DEFINE i == worker[w].job
             s == [worker[w] EXCEPT !.pc = "running", !.args = record[worker[w].job].args]
  <2>1. /\ v.pc = "popped" /\ i \in Jobs /\ queue' = queue
        /\ credit' = [credit EXCEPT ![i] = @ - 1] /\ worker' = [worker EXCEPT ![w] = s]
    BY <1>5 DEF StartJob, WorkerBecomes, TypeOK
  <2>2. s.pc = "running"
    BY DEF TypeOK, WorkerState
  <2> HIDE DEF s
  <2> SUFFICES ASSUME NEW j \in Jobs
               PROVE  IsFiniteSet(Bearers(j)') /\ credit'[j] >= Count(queue, j) + Cardinality(Bearers(j)')
    BY <2>1 DEF Backed, Count
  <2>3. /\ credit[j] \in Int /\ Count(queue, j) \in Nat /\ Cardinality(Bearers(j)) \in Nat
        /\ credit[j] >= Count(queue, j) + Cardinality(Bearers(j))
    BY <1>2
  <2>4. ~Bears(s, j) /\ (Bears(worker[w], j) <=> i = j)
    BY <2>1, <2>2 DEF Bears
  <2>5. /\ IsFiniteSet(Bearers(j)')
        /\ i = j => Cardinality(Bearers(j)') = Cardinality(Bearers(j)) - 1
        /\ i # j => Cardinality(Bearers(j)') = Cardinality(Bearers(j))
    BY <2>1, <2>4, BearersMove
  <2>6. (i = j => credit'[j] = credit[j] - 1) /\ (i # j => credit'[j] = credit[j])
    BY <1>1, <2>1
  <2> QED
    BY <2>3, <2>5, <2>6
<1>6. CASE PushBack(w)
  <2> DEFINE i == worker[w].job
  <2>1. /\ v.pc = "returning" /\ i \in Jobs /\ queue' = Append(queue, i)
        /\ credit' = credit /\ worker' = [worker EXCEPT ![w] = IdleWorker]
    BY <1>6 DEF PushBack, WorkerBecomes, TypeOK, history
  <2> SUFFICES ASSUME NEW j \in Jobs
               PROVE  IsFiniteSet(Bearers(j)') /\ credit[j] >= Count(queue', j) + Cardinality(Bearers(j)')
    BY <2>1 DEF Backed, Count
  <2>2. /\ credit[j] \in Int /\ Count(queue, j) \in Nat /\ Cardinality(Bearers(j)) \in Nat
        /\ credit[j] >= Count(queue, j) + Cardinality(Bearers(j))
    BY <1>2
  <2>3. ~Bears(IdleWorker, j) /\ (Bears(worker[w], j) <=> i = j)
    BY <2>1 DEF Bears, IdleWorker
  <2>4. /\ IsFiniteSet(Bearers(j)')
        /\ i = j => Cardinality(Bearers(j)') = Cardinality(Bearers(j)) - 1
        /\ i # j => Cardinality(Bearers(j)') = Cardinality(Bearers(j))
    BY <2>1, <2>3, BearersMove
  <2>5. Count(queue', j) = IF i = j THEN Count(queue, j) + 1 ELSE Count(queue, j)
    BY <1>1, <2>1, CountAppend
  <2> QED
    BY <2>2, <2>4, <2>5
<1>7. CASE SkipJob(w)
  BY <1>3, <1>7 DEF SkipJob, WorkerGoes, WorkerBecomes, history, TypeOK, WorkerState
<1>8. CASE ReturnJob(w)
  BY <1>3, <1>8 DEF ReturnJob, WorkerGoes, WorkerBecomes, history, TypeOK, WorkerState
<1>9. CASE HandlerEnds(w)
  BY <1>3, <1>9 DEF HandlerEnds, WorkerBecomes, history, TypeOK, WorkerState
<1>10. CASE CompleteRead(w)
  BY <1>3, <1>10 DEF CompleteRead, WorkerBecomes, history, TypeOK, WorkerState, IdleWorker
<1>11. CASE CompleteWrite(w)
  BY <1>3, <1>11 DEF CompleteWrite, WorkerBecomes, history, TypeOK, WorkerState
<1>12. CASE FailRead(w)
  BY <1>3, <1>12 DEF FailRead, WorkerGoes, WorkerBecomes, history, TypeOK, WorkerState
<1>13. CASE FailWrite(w)
  BY <1>3, <1>13 DEF FailWrite, WorkerGoes, WorkerBecomes, history, TypeOK, WorkerState
<1>14. CASE Release(w)
  BY <1>3, <1>14 DEF Release, WorkerBecomes, history, IdleWorker
<1>15. CASE WorkerFails(w)
  BY <1>3, <1>15 DEF WorkerFails, WorkerBecomes, IdleWorker
<1> QED
  BY <1>4, <1>5, <1>6, <1>7, <1>8, <1>9, <1>10, <1>11, <1>12, <1>13, <1>14, <1>15 DEF Work

\* The steps of everybody else leave credit where it is due.
LEMMA OtherBacked ==
    ASSUME TypeOK, Backed,
           \/ \E j \in Jobs : Enqueue(j) \/ Age(j)
           \/ \E t \in Tools : Requeue(t) \/ Cancel(t) \/ Delete(t) \/ ToolFails(t)
    PROVE  Backed'
<1>1. ASSUME UNCHANGED << queue, credit, worker >> PROVE Backed'
  BY <1>1 DEF Backed, Bearers, Count
<1>2. ASSUME NEW j \in Jobs, Enqueue(j) \/ Age(j) PROVE Backed'
  BY <1>1, <1>2, AppendBacked DEF Enqueue, EnqueueSave, EnqueuePush, EnqueueFails, Age, history
<1>3. ASSUME NEW t \in Tools, RequeuePush(t) PROVE Backed'
  BY <1>3, AppendBacked DEF RequeuePush, ToolAt, TypeOK
<1>4. ASSUME NEW t \in Tools, CancelDrop(t) PROVE Backed'
  BY <1>4, UnlistedBacked DEF CancelDrop, ToolAt, TypeOK
<1>5. ASSUME NEW t \in Tools, NEW j \in Jobs, UnlinkQueued(t, j) PROVE Backed'
  BY <1>5, UnlistedBacked DEF UnlinkQueued
<1>6. ASSUME NEW t \in Tools, Requeue(t) \/ Cancel(t) \/ Delete(t) \/ ToolFails(t) PROVE Backed'
  BY <1>1, <1>3, <1>4, <1>5, <1>6 DEF Requeue, Cancel, Delete, StartRequeue, RequeueRead,
     RequeueTake, RequeueSave, StartCancel, CancelRead, CancelSave, StartDelete, DeleteRead,
     StartClearTerminal, CollectTerminal, EraseRecord, UnlinkProcessing, ToolFails, history
<1> QED
  BY <1>2, <1>6

\* Every job is tracked, and every start is backed, in every reachable state.
LEMMA TrackedInvariant == Spec => []Tracked
<1>1. Init => Tracked
  BY NullTypes DEF Init, Tracked, NewSound, ReleaseSound, DeleteSound, NoJobVanishes, Waiting,
     NoRecord, IdleWorker, IdleTool
<1>2. Inv /\ Tracked /\ [Next]_vars => Tracked'
  <2> SUFFICES ASSUME TypeOK, Tracked, [Next]_vars PROVE Tracked'
    BY DEF Inv
  <2>1. CASE UNCHANGED vars
    BY <2>1 DEF vars, Tracked, NewSound, ReleaseSound, DeleteSound, NoJobVanishes, Waiting, Moving
  <2> QED
    BY <2>1, EnqueueTracked, WorkTracked, ToolTracked DEF Next
<1> QED
  BY <1>1, <1>2, Invariance, PTL DEF Spec

LEMMA BackedInvariant == Spec => []Backed
<1>1. Init => Backed
  <2> SUFFICES ASSUME Init PROVE Backed
    OBVIOUS
  <2>1. \A j \in Jobs : Places(queue, j) = {} /\ Bearers(j) = {} /\ credit[j] = 0
    BY DEF Init, Places, Bearers, Bears, IdleWorker
  <2> QED
    BY <2>1, FS_EmptySet DEF Backed, Count
<1>2. Inv /\ Backed /\ [Next]_vars => Backed'
  <2> SUFFICES ASSUME TypeOK, Backed, [Next]_vars PROVE Backed'
    BY DEF Inv
  <2>1. CASE UNCHANGED vars
    BY <2>1 DEF vars, Backed, Bearers, Count
  <2> QED
    BY <2>1, WorkBacked, OtherBacked DEF Next
<1> QED
  BY <1>1, <1>2, Invariance, PTL DEF Spec

-----------------------------------------------------------------------------
\* Every state of the queue is well formed; "processing" is never stored.
THEOREM TypeCorrect == Spec => []TypeOK
BY Invariance, PTL DEF Inv

\* No two workers have one job unless a tool released it from under the first:
\* the script pops an id and claims it in one step, the claim fails for an id
\* that is claimed already, and only the claimer gives it up.
THEOREM RunsAreExclusive == Spec => []ExclusiveRun
BY Invariance, PTL DEF Inv

\* A job whose record says queued can be found, with the exceptions that
\* NoJobVanishes names: each way between the list, the processing set and the
\* hands of an actor has the actor's own state to tell where the id is.
THEOREM JobsAreTracked == Spec => []NoJobVanishes
BY TrackedInvariant, PTL DEF Tracked

\* A job starts no more often than it was queued: every occurrence of its id in
\* the list, and every worker that popped it and has not decided, has a credit
\* of its own.
THEOREM StartsAccounted == Spec => []StartsAreAccounted
<1>1. Inv /\ Backed => StartsAreAccounted
  <2> SUFFICES ASSUME TypeOK, Backed, NEW j \in Jobs PROVE credit[j] >= 0
    BY DEF Inv, StartsAreAccounted
  <2>1. /\ credit[j] \in Int /\ Count(queue, j) \in Nat /\ Cardinality(Bearers(j)) \in Nat
        /\ credit[j] >= Count(queue, j) + Cardinality(Bearers(j))
    BY CountType, FS_CardinalityType DEF TypeOK, Backed
  <2> QED
    BY <2>1
<1> QED
  BY <1>1, Invariance, BackedInvariant, PTL

-----------------------------------------------------------------------------
(***************************************************************************)
(* Without the requeue command.  A job is put in the queue once, by its    *)
(* enqueue, and so there is one start to spend: until it is spent, nobody  *)
(* has run the job and its record has its arguments.                       *)
(***************************************************************************)

\* Nobody runs, or is about to run, the requeue command.
NoRequeue == \A t \in Tools : tool[t].op # "requeue"

\* From the start of the handler to the write of its end.
Begun == {"running", "succeeded", "failed", "completing", "failing"}

\* The one start of the job is not spent, nor taken out of the queue.
Unstarted(j) == producer[j] # "done" \/ credit[j] > 0

JobsOnce ==
    \A j \in Jobs :
        /\ credit[j] <= 1
        /\ producer[j] # "done" => credit[j] = 0
        /\ record[j].status = "queued" => record[j].args
        /\ Unstarted(j) /\ Exists(j) => record[j].args

WorkersOnce ==
    \A w \in Workers :
        /\ worker[w].pc \in Begun => ~Unstarted(worker[w].job)
        /\ worker[w].pc = "running" => worker[w].args
        /\ \A x \in Workers :
              worker[w].pc \in Begun /\ worker[x].pc \in Begun /\ worker[w].job = worker[x].job
                  => w = x

\* What a cancellation writes back was read from a queued record.
CancelsOnce ==
    \A t \in Tools :
        tool[t].op = "cancel" /\ tool[t].pc \in {"drop", "save"} => tool[t].args

OnceInv == JobsOnce /\ WorkersOnce /\ CancelsOnce

\* Whoever waits, and whoever was popped and has not begun, has its credit.
LEMMA CreditFacts ==
    ASSUME TypeOK, Backed, NEW j \in Jobs
    PROVE  /\ credit[j] \in Int /\ credit[j] >= 0
           /\ Count(queue, j) \in Nat /\ credit[j] >= Count(queue, j)
           /\ j \in Waiting => credit[j] >= 1
           /\ \A w \in Workers : Bears(worker[w], j) => credit[j] >= 1
<1>1. /\ credit[j] \in Int /\ Count(queue, j) \in Nat
      /\ IsFiniteSet(Bearers(j)) /\ Cardinality(Bearers(j)) \in Nat
      /\ credit[j] >= Count(queue, j) + Cardinality(Bearers(j))
  BY CountType, FS_CardinalityType DEF TypeOK, Backed
<1>2. ASSUME j \in Waiting PROVE Count(queue, j) # 0
  <2>1. Places(queue, j) # {} /\ IsFiniteSet(Places(queue, j))
    BY <1>2, CountType DEF Waiting, Places, TypeOK
  <2> QED
    BY <2>1, FS_EmptySet DEF Count
<1>3. ASSUME NEW w \in Workers, Bears(worker[w], j) PROVE Cardinality(Bearers(j)) # 0
  <2>1. Bearers(j) # {}
    BY <1>3 DEF Bearers
  <2> QED
    BY <1>1, <2>1, FS_EmptySet
<1> QED
  BY <1>1, <1>2, <1>3

\* A step of a worker that starts nothing.
LEMMA WorkerOnce ==
    ASSUME TypeOK, OnceInv, NEW w \in Workers, NEW s, worker' = [worker EXCEPT ![w] = s],
           UNCHANGED << producer, credit, tool >>,
           s.pc \in Begun => worker[w].pc \in Begun /\ s.job = worker[w].job,
           s.pc = "running" => s.args,
           \A j \in Jobs :
               \/ record'[j] = record[j]
               \/ /\ j = worker[w].job /\ worker[w].pc \in Begun
                  /\ record'[j].status # "queued"
    PROVE  OnceInv'
<1> USE DEF OnceInv
<1>1. worker'[w] = s /\ \A x \in Workers \ {w} : worker'[x] = worker[x]
  BY DEF TypeOK
<1>2. \A j : Unstarted(j)' = Unstarted(j)
  BY DEF Unstarted
<1>3. JobsOnce'
  <2> SUFFICES ASSUME NEW j \in Jobs
               PROVE  /\ credit[j] <= 1
                      /\ producer[j] # "done" => credit[j] = 0
                      /\ record'[j].status = "queued" => record'[j].args
                      /\ Unstarted(j) /\ record'[j].status # "none" => record'[j].args
    BY <1>2 DEF JobsOnce, Exists
  <2>1. Unstarted(j) => record'[j] = record[j]
    BY DEF WorkersOnce
  <2> QED
    BY <2>1 DEF JobsOnce, Exists
<1>4. WorkersOnce'
  BY <1>1, <1>2 DEF WorkersOnce
<1>5. CancelsOnce'
  BY DEF CancelsOnce
<1> QED
  BY <1>3, <1>4, <1>5

\* The start of a job spends its credit, and finds its arguments.
LEMMA StartOnce ==
    ASSUME TypeOK, Backed, OnceInv, NEW w \in Workers, StartJob(w)
    PROVE  OnceInv'
<1> USE DEF OnceInv
<1> DEFINE i == worker[w].job
           s == [worker[w] EXCEPT !.pc = "running", !.args = record[i].args]
<1>1. /\ worker[w].pc = "popped" /\ i \in Jobs /\ Exists(i)
      /\ worker' = [worker EXCEPT ![w] = s]
      /\ credit' = [credit EXCEPT ![i] = @ - 1]
      /\ UNCHANGED << record, producer, tool >>
  BY DEF StartJob, TypeOK, WorkerBecomes
<1>2. s.pc = "running" /\ s.job = i /\ s.args = record[i].args
  BY DEF TypeOK, WorkerState
<1> HIDE DEF s
<1>3. Bears(worker[w], i)
  BY <1>1 DEF Bears
<1>4. credit[i] = 1
  <2>1. credit[i] >= 1 /\ credit[i] \in Int
    BY <1>1, <1>3, CreditFacts
  <2> QED
    BY <1>1, <2>1 DEF JobsOnce
<1>5. producer[i] = "done" /\ Unstarted(i) /\ record[i].args
  BY <1>1, <1>4 DEF JobsOnce, Unstarted
<1>6. credit'[i] = 0 /\ \A j \in Jobs \ {i} : credit'[j] = credit[j]
  BY <1>1, <1>4 DEF TypeOK
<1>7. /\ producer'[i] = "done" /\ ~(credit'[i] > 0)
      /\ \A j \in Jobs \ {i} : producer'[j] = producer[j] /\ credit'[j] = credit[j]
  BY <1>1, <1>5, <1>6
<1>8. JobsOnce'
  BY <1>1, <1>5, <1>6, <1>7 DEF JobsOnce, Exists, Unstarted
<1>9. worker'[w] = s /\ \A x \in Workers \ {w} : worker'[x] = worker[x]
  BY <1>1 DEF TypeOK
<1>10. \A x \in Workers : worker[x].pc \in Begun => worker[x].job \in Jobs \ {i}
  BY <1>5 DEF WorkersOnce, TypeOK, Begun
<1>11. WorkersOnce'
  <2>1. \A x \in Workers \ {w} : worker[x].pc \in Begun =>
           producer'[worker[x].job] = "done" /\ ~(credit'[worker[x].job] > 0)
    BY <1>7, <1>10 DEF WorkersOnce, Unstarted
  <2>2. \A x \in Workers : worker'[x].pc \in Begun =>
           producer'[worker'[x].job] = "done" /\ ~(credit'[worker'[x].job] > 0)
    BY <1>2, <1>7, <1>9, <2>1
  <2>3. \A x \in Workers : worker'[x].pc = "running" => worker'[x].args
    BY <1>2, <1>5, <1>9 DEF WorkersOnce
  <2>4. \A x, y \in Workers :
           worker'[x].pc \in Begun /\ worker'[y].pc \in Begun /\ worker'[x].job = worker'[y].job
               => x = y
    BY <1>2, <1>9, <1>10 DEF WorkersOnce
  <2> QED
    BY <2>2, <2>3, <2>4 DEF WorkersOnce, Unstarted
<1>12. CancelsOnce'
  BY <1>1 DEF CancelsOnce
<1> QED
  BY <1>8, <1>11, <1>12

\* The steps of workers run a job once, with its arguments.
LEMMA WorkOnce ==
    ASSUME TypeOK, Backed, OnceInv, NEW w \in Workers, Work(w) \/ WorkerFails(w)
    PROVE  OnceInv'
<1>0. worker[w] \in WorkerState /\ (worker[w].pc # "idle" => worker[w].job \in Jobs)
  BY DEF TypeOK
<1>1. CASE StartJob(w)
  BY <1>1, StartOnce
<1>2. ASSUME NEW s, worker' = [worker EXCEPT ![w] = s], s.pc \notin Begun,
             UNCHANGED << producer, credit, tool, record >>
      PROVE  OnceInv'
  BY <1>2, WorkerOnce DEF Begun
<1>3. CASE Pop(w)
  <2> DEFINE s == [IdleWorker EXCEPT !.pc = "popped", !.job = Head(queue)]
  <2>1. s.pc \notin Begun /\ worker[w].pc = "idle" /\ worker[w].pc \notin Begun
    BY <1>3 DEF IdleWorker, Begun, Pop
  <2>2. /\ worker' = [worker EXCEPT ![w] = s] \/ worker' = [worker EXCEPT ![w] = worker[w]]
        /\ UNCHANGED << producer, credit, tool, record >>
    BY <1>3 DEF Pop, WorkerBecomes, history, TypeOK
  <2> HIDE DEF s
  <2> QED
    BY <1>2, <2>1, <2>2
<1>4. CASE PushBack(w) \/ Release(w) \/ WorkerFails(w)
  BY <1>2, <1>4 DEF PushBack, Release, WorkerFails, WorkerBecomes, IdleWorker, history, Begun
<1>5. CASE SkipJob(w) \/ ReturnJob(w)
  BY <1>0, <1>2, <1>5 DEF SkipJob, ReturnJob, WorkerGoes, WorkerBecomes, history, Begun, WorkerState
<1>6. ASSUME NEW s, worker' = [worker EXCEPT ![w] = s], worker[w].pc \in Begun,
             s.pc # "running", s.pc \in Begun => s.job = worker[w].job,
             UNCHANGED << producer, credit, tool, record >>
      PROVE  OnceInv'
  BY <1>6, WorkerOnce
<1>7. CASE HandlerEnds(w)
  <2>1. PICK stage \in {"succeeded", "failed"} :
           worker' = [worker EXCEPT ![w] = [worker[w] EXCEPT !.pc = stage, !.args = FALSE]]
    BY <1>7 DEF HandlerEnds, WorkerBecomes
  <2>2. /\ [worker[w] EXCEPT !.pc = stage, !.args = FALSE].pc # "running"
        /\ [worker[w] EXCEPT !.pc = stage, !.args = FALSE].job = worker[w].job
    BY <1>0 DEF WorkerState
  <2> QED
    BY <1>6, <1>7, <2>1, <2>2 DEF HandlerEnds, history, Begun
<1>8. CASE CompleteRead(w)
  <2> DEFINE s == [worker[w] EXCEPT !.pc = "completing", !.args = record[worker[w].job].args]
  <2>1. s.pc = "completing" /\ s.job = worker[w].job
    BY <1>0 DEF WorkerState
  <2>2. worker' = [worker EXCEPT ![w] = s] \/ worker' = [worker EXCEPT ![w] = IdleWorker]
    BY <1>8 DEF CompleteRead, WorkerBecomes
  <2>3. /\ UNCHANGED << producer, credit, tool, record >> /\ worker[w].pc \in Begun
        /\ IdleWorker.pc \notin Begun
    BY <1>8 DEF CompleteRead, history, Begun, IdleWorker
  <2> HIDE DEF s
  <2> QED
    BY <1>2, <1>6, <2>1, <2>2, <2>3
<1>9. CASE FailRead(w)
  <2>1. PICK stage \in {"failing", "releasing"} :
           worker' = [worker EXCEPT ![w] = [worker[w] EXCEPT !.pc = stage]]
    BY <1>9 DEF FailRead, WorkerGoes, WorkerBecomes
  <2>2. /\ [worker[w] EXCEPT !.pc = stage].pc = stage
        /\ [worker[w] EXCEPT !.pc = stage].job = worker[w].job
    BY <1>0 DEF WorkerState
  <2> QED
    BY <1>6, <1>9, <2>1, <2>2 DEF FailRead, history, Begun
<1>10. ASSUME NEW s, worker' = [worker EXCEPT ![w] = s], worker[w].pc \in Begun,
              s.pc \notin Begun, UNCHANGED << producer, credit, tool >>,
              NEW r, record' = [record EXCEPT ![worker[w].job] = r], r.status # "queued"
       PROVE  OnceInv'
  <2>1. \A j \in Jobs : \/ record'[j] = record[j]
                        \/ /\ j = worker[w].job /\ worker[w].pc \in Begun
                           /\ record'[j].status # "queued"
    BY <1>10 DEF TypeOK
  <2>2. s.pc # "running"
    BY <1>10 DEF Begun
  <2> QED
    BY <1>10, <2>1, <2>2, WorkerOnce
<1>11. CASE CompleteWrite(w)
  <2>1. Written("completed", worker[w].args).status # "queued"
    BY DEF Written
  <2>2. [worker[w] EXCEPT !.pc = "releasing", !.args = FALSE].pc = "releasing"
    BY <1>0 DEF WorkerState
  <2> QED
    BY <1>10, <1>11, <2>1, <2>2 DEF CompleteWrite, Store, WorkerBecomes, history, Begun
<1>12. CASE FailWrite(w)
  <2>1. Written("failed", FALSE).status # "queued"
    BY DEF Written
  <2>2. [worker[w] EXCEPT !.pc = "releasing"].pc = "releasing"
    BY <1>0 DEF WorkerState
  <2> QED
    BY <1>10, <1>12, <2>1, <2>2 DEF FailWrite, Store, WorkerGoes, WorkerBecomes, history, Begun
<1> QED
  BY <1>1, <1>3, <1>4, <1>5, <1>7, <1>8, <1>9, <1>11, <1>12 DEF Work

\* A step of a tool: nobody puts a record back in the state queued, and what is
\* written otherwise has its arguments.
LEMMA ToolStepOnce ==
    ASSUME TypeOK, Backed, OnceInv, NEW t \in Tools, NEW s, tool' = [tool EXCEPT ![t] = s],
           s.op = "cancel" /\ s.pc \in {"drop", "save"} => s.args,
           UNCHANGED << producer, worker >>,
           credit' = credit \/ \E i \in Jobs : Unlisted(i),
           \A j \in Jobs : \/ record'[j] = record[j]
                           \/ /\ record'[j].status # "queued"
                              /\ record'[j].status # "none" => record'[j].args
    PROVE  OnceInv'
<1> USE DEF OnceInv
<1>1. \A j \in Jobs : /\ credit[j] \in Int /\ credit'[j] \in Int /\ credit'[j] <= credit[j]
                      /\ producer[j] # "done" => credit'[j] = 0
  <2>1. CASE credit' = credit
    BY <2>1 DEF JobsOnce, TypeOK
  <2>2. ASSUME NEW i \in Jobs, i \in Waiting, credit' = [credit EXCEPT ![i] = @ - 1]
        PROVE  \A j \in Jobs : /\ credit[j] \in Int /\ credit'[j] \in Int /\ credit'[j] <= credit[j]
                               /\ producer[j] # "done" => credit'[j] = 0
    <3>1. credit \in [Jobs -> Int]
      BY DEF TypeOK
    <3>2. producer[i] = "done"
      BY <2>2, CreditFacts DEF JobsOnce
    <3> QED
      BY <2>2, <3>1, <3>2 DEF JobsOnce
  <2> QED
    BY <2>1, <2>2 DEF Unlisted, Waiting
<1>2. JobsOnce'
  BY <1>1 DEF JobsOnce, Unstarted, Exists
<1>3. WorkersOnce'
  <2>1. \A w \in Workers : worker[w].pc \in Begun => worker[w].job \in Jobs
    BY DEF TypeOK, Begun
  <2> QED
    BY <1>1, <2>1 DEF WorkersOnce, Unstarted
<1>4. CancelsOnce'
  BY DEF CancelsOnce, TypeOK
<1> QED
  BY <1>2, <1>3, <1>4

\* The steps of the tools, without a requeue.
LEMMA ToolOnce ==
    ASSUME TypeOK, Backed, OnceInv, NoRequeue, NoRequeue', NEW t \in Tools,
           Requeue(t) \/ Cancel(t) \/ Delete(t) \/ ToolFails(t)
    PROVE  OnceInv'
<1> DEFINE v == tool[t]
<1>1. v \in ToolState /\ tool'[t].op # "requeue" /\ v.op # "requeue"
  BY DEF TypeOK, NoRequeue
<1>2. ASSUME NEW s, tool' = [tool EXCEPT ![t] = s],
             s.op = "cancel" /\ s.pc \in {"drop", "save"} => s.args,
             UNCHANGED << producer, worker, credit, record >>
      PROVE  OnceInv'
  BY <1>2, ToolStepOnce
<1>3. ~Requeue(t)
  <2>1. ~StartRequeue(t)
    <3>1. [IdleTool EXCEPT !.op = "requeue", !.pc = "scan", !.todo = processing].op = "requeue"
      BY DEF IdleTool
    <3> QED
      BY <1>1, <3>1 DEF StartRequeue, ToolBecomes, TypeOK
  <2> QED
    BY <1>1, <2>1 DEF Requeue, RequeueRead, RequeueTake, RequeueSave, RequeuePush, ToolAt
<1>4. ASSUME NEW s \in ToolState PROVE Onward(s).pc \notin {"drop", "save"}
  BY <1>4, OnwardType
<1>5. CASE StartCancel(t) \/ DeleteRead(t) \/ StartClearTerminal(t) \/ ToolFails(t)
  <2>1. PICK s : /\ tool' = [tool EXCEPT ![t] = s]
                 /\ s.pc \in {"scan", "idle", "erase", "collect"}
                 /\ UNCHANGED << producer, worker, credit, record >>
    <3>1. CASE StartCancel(t)
      BY <3>1 DEF StartCancel, ToolBecomes, IdleTool, history
    <3>2. CASE DeleteRead(t)
      <4>1. [v EXCEPT !.pc = "erase"].pc = "erase" /\ IdleTool.pc = "idle"
        BY <1>1 DEF ToolState, IdleTool
      <4> QED
        BY <3>2, <4>1 DEF DeleteRead, ToolBecomes, history
    <3>3. CASE StartClearTerminal(t)
      BY <3>3 DEF StartClearTerminal, ToolBecomes, IdleTool, history
    <3>4. CASE ToolFails(t)
      BY <3>4 DEF ToolFails, ToolBecomes, IdleTool
    <3> QED
      BY <1>5, <3>1, <3>2, <3>3, <3>4
  <2> QED
    BY <1>2, <2>1
<1>6. ASSUME NEW j \in Jobs, CancelRead(t, j) PROVE OnceInv'
  <2> DEFINE s == [v EXCEPT !.job = j]
             d == [s EXCEPT !.pc = "drop", !.args = record[j].args]
  <2>1. /\ tool' = [tool EXCEPT ![t] = IF record[j].status = "queued" THEN d ELSE Onward(s)]
        /\ UNCHANGED << producer, worker, credit, record >>
    BY <1>6 DEF CancelRead, ToolBecomes, history
  <2>2. s \in ToolState /\ d.args = record[j].args
    BY <1>1, <1>6 DEF ToolState
  <2>3. record[j].status = "queued" => d.args
    BY <2>2 DEF OnceInv, JobsOnce
  <2> HIDE DEF s, d
  <2>4. Onward(s).pc \notin {"drop", "save"}
    BY <1>4, <2>2
  <2> QED
    BY <1>2, <2>1, <2>3, <2>4
<1>7. CASE CancelDrop(t)
  <2>1. /\ v.op = "cancel" /\ v.pc = "drop" /\ v.args /\ v.job \in Jobs
    BY <1>7 DEF CancelDrop, ToolAt, OnceInv, CancelsOnce, TypeOK
  <2>2. [v EXCEPT !.pc = "save"].args = v.args
    BY <1>1 DEF ToolState
  <2>3. /\ tool' = [tool EXCEPT ![t] = [v EXCEPT !.pc = "save"]] /\ Unlisted(v.job)
        /\ UNCHANGED << producer, worker, record >>
    BY <1>7 DEF CancelDrop, ToolBecomes
  <2> QED
    BY <2>1, <2>2, <2>3, ToolStepOnce
<1>8. CASE CancelSave(t)
  <2>1. /\ v.op = "cancel" /\ v.pc = "save" /\ v.args /\ v.job \in Jobs
        /\ tool' = [tool EXCEPT ![t] = Onward(v)]
        /\ record' = [record EXCEPT ![v.job] = Written("cancelled", TRUE)]
        /\ UNCHANGED << producer, worker, credit >>
    <3>1. v.op = "cancel" /\ v.pc = "save" /\ v.args
      BY <1>8 DEF CancelSave, ToolAt, OnceInv, CancelsOnce
    <3>2. v.args = TRUE /\ v.job \in Jobs
      BY <1>1, <3>1 DEF TypeOK, ToolState
    <3> QED
      BY <1>8, <3>1, <3>2 DEF CancelSave, ToolBecomes, Store, history
  <2>2. Onward(v).pc \notin {"drop", "save"}
    BY <1>1, <1>4
  <2>3. /\ Written("cancelled", TRUE).status = "cancelled"
        /\ Written("cancelled", TRUE).args
    BY DEF Written
  <2>4. \A j \in Jobs : \/ record'[j] = record[j]
                        \/ record'[j].status = "cancelled" /\ record'[j].args
    BY <2>1, <2>3 DEF TypeOK
  <2> QED
    BY <2>1, <2>2, <2>4, ToolStepOnce
<1>9. ASSUME NEW j \in Jobs,
             StartDelete(t, j) \/ CollectTerminal(t, j) \/ EraseRecord(t, j)
                \/ UnlinkQueued(t, j) \/ UnlinkProcessing(t, j)
      PROVE  OnceInv'
  <2>1. PICK s : /\ tool' = [tool EXCEPT ![t] = s]
                 /\ s.op # "cancel" \/ s.pc \notin {"drop", "save"}
    <3>1. IdleTool.op = "none"
      BY DEF IdleTool
    <3>2. CASE StartDelete(t, j)
      <4> DEFINE s == [IdleTool EXCEPT !.op = "delete", !.pc = "get", !.todo = {j}, !.ids = {j}]
      <4>1. s.op = "delete"
        BY DEF IdleTool
      <4>2. tool' = [tool EXCEPT ![t] = s]
        BY <3>2 DEF StartDelete, ToolBecomes
      <4> HIDE DEF s
      <4> QED
        BY <4>1, <4>2
    <3>3. CASE CollectTerminal(t, j)
      <4>1. v.op = "delete"
        BY <3>3 DEF CollectTerminal, ToolAt
      <4>2. \A p, q, r : /\ [v EXCEPT !.todo = p, !.ids = q].op = "delete"
                         /\ [v EXCEPT !.pc = r, !.todo = p, !.ids = q].op = "delete"
        BY <1>1, <4>1 DEF ToolState
      <4> QED
        BY <3>1, <3>3, <4>2 DEF CollectTerminal, ToolBecomes
    <3>4. ASSUME v.op = "delete", NEW next, NextId(t, j, next)
          PROVE  \E s : tool' = [tool EXCEPT ![t] = s] /\ s.op # "cancel"
      <4>1. \A p, r : /\ [v EXCEPT !.todo = p].op = "delete"
                      /\ [v EXCEPT !.pc = r, !.todo = p].op = "delete"
        BY <1>1, <3>4 DEF ToolState
      <4> QED
        BY <3>1, <3>4, <4>1 DEF NextId, ToolBecomes
    <3> QED
      BY <1>9, <3>2, <3>3, <3>4 DEF EraseRecord, UnlinkQueued, UnlinkProcessing, ToolAt
  <2>2. UNCHANGED << producer, worker >> /\ (credit' = credit \/ Unlisted(j))
    BY <1>9 DEF StartDelete, CollectTerminal, EraseRecord, UnlinkQueued, UnlinkProcessing, history
  <2>3. record' = record \/ record' = [record EXCEPT ![j] = NoRecord]
    BY <1>9 DEF StartDelete, CollectTerminal, EraseRecord, UnlinkQueued, UnlinkProcessing, Store
  <2>4. \A k \in Jobs : record'[k] = record[k] \/ record'[k].status = "none"
    BY <2>3 DEF TypeOK, NoRecord
  <2> QED
    BY <2>1, <2>2, <2>4, ToolStepOnce
<1> QED
  BY <1>3, <1>5, <1>6, <1>7, <1>8, <1>9 DEF Cancel, Delete

\* An enqueue brings the one credit of its job; time changes nothing.
LEMMA EnqueueOnce ==
    ASSUME TypeOK, OnceInv, NEW i \in Jobs, Enqueue(i) \/ Age(i)
    PROVE  OnceInv'
<1> USE DEF OnceInv
<1>1. /\ worker' = worker /\ tool' = tool
      /\ credit \in [Jobs -> Int] /\ producer \in [Jobs -> {"new", "saved", "done"}]
      /\ record \in [Jobs -> JobRecord]
  BY DEF Enqueue, EnqueueSave, EnqueuePush, EnqueueFails, Age, history, TypeOK
<1>2. \A j \in Jobs \ {i} : /\ record'[j] = record[j] /\ credit'[j] = credit[j]
                            /\ producer'[j] = producer[j]
  BY <1>1 DEF Enqueue, EnqueueSave, EnqueuePush, EnqueueFails, Age, history, Store
<1>3. /\ credit'[i] <= 1
      /\ producer'[i] # "done" => credit'[i] = 0
      /\ record'[i].status = "queued" => record'[i].args
      /\ (producer'[i] # "done" \/ credit'[i] > 0) =>
            Unstarted(i) /\ (record'[i].status # "none" => record'[i].args)
  <2>1. CASE EnqueueSave(i)
    <3>1. /\ record'[i] = Written("queued", TRUE) /\ producer'[i] = "saved"
          /\ producer[i] = "new" /\ credit'[i] = credit[i]
      BY <1>1, <2>1 DEF EnqueueSave, Store, history
    <3> QED
      BY <3>1 DEF JobsOnce, Unstarted, Written
  <2>2. CASE EnqueuePush(i)
    <3>1. /\ record'[i] = record[i] /\ producer'[i] = "done"
          /\ producer[i] = "saved" /\ credit'[i] = credit[i] + 1
      BY <1>1, <2>2 DEF EnqueuePush
    <3> QED
      BY <3>1 DEF JobsOnce, Unstarted, Exists
  <2>3. CASE EnqueueFails(i)
    <3>1. /\ record'[i] = record[i] /\ producer'[i] = "done"
          /\ producer[i] = "saved" /\ credit'[i] = credit[i]
      BY <1>1, <2>3 DEF EnqueueFails
    <3> QED
      BY <3>1 DEF JobsOnce, Unstarted, Exists
  <2>4. CASE Age(i)
    <3>1. record[i] \in JobRecord
      BY <1>1
    <3>2. /\ [record[i] EXCEPT !.old = TRUE].status = record[i].status
          /\ [record[i] EXCEPT !.old = TRUE].args = record[i].args
      BY ONLY <3>1 DEF JobRecord
    <3>3. /\ record'[i].status = record[i].status /\ record'[i].args = record[i].args
          /\ producer'[i] = producer[i] /\ credit'[i] = credit[i]
      BY <1>1, <2>4, <3>2 DEF Age, Store, history
    <3> QED
      BY <3>3 DEF JobsOnce, Unstarted, Exists
  <2> QED
    BY <2>1, <2>2, <2>3, <2>4 DEF Enqueue
<1>4. JobsOnce'
  BY <1>2, <1>3 DEF JobsOnce, Unstarted, Exists
<1>5. WorkersOnce'
  <2>1. \A w \in Workers : worker[w].pc \in Begun => worker[w].job \in Jobs
    BY DEF TypeOK, Begun
  <2>2. \A j \in Jobs : ~Unstarted(j) => producer'[j] = "done" /\ ~(credit'[j] > 0)
    BY <1>2, <1>3 DEF Unstarted
  <2> QED
    BY <1>1, <2>1, <2>2 DEF WorkersOnce, Unstarted
<1>6. CancelsOnce'
  BY <1>1 DEF CancelsOnce
<1> QED
  BY <1>4, <1>5, <1>6

LEMMA OnceInvariant == Spec /\ []NoRequeue => []OnceInv
<1>1. Init => OnceInv
  BY DEF Init, OnceInv, JobsOnce, WorkersOnce, CancelsOnce, Unstarted, Exists, Begun, NoRecord,
     IdleWorker, IdleTool
<1>2. Inv /\ Backed /\ NoRequeue /\ NoRequeue' /\ OnceInv /\ [Next]_vars => OnceInv'
  <2> SUFFICES ASSUME TypeOK, Backed, NoRequeue, NoRequeue', OnceInv, [Next]_vars PROVE OnceInv'
    BY DEF Inv
  <2>1. CASE UNCHANGED vars
    BY <2>1 DEF vars, OnceInv, JobsOnce, WorkersOnce, CancelsOnce, Unstarted, Exists
  <2> QED
    BY <2>1, EnqueueOnce, WorkOnce, ToolOnce DEF Next
<1> QED
  BY <1>1, <1>2, Invariance, BackedInvariant, PTL DEF Spec

\* A job is run by one worker at most.
OneRun ==
    \A w, x \in Workers :
        worker[w].pc = "running" /\ worker[x].pc = "running" /\ worker[w].job = worker[x].job
            => w = x

\* Only the requeue command starts a job a second time, or without the arguments
\* it was enqueued with: as long as nobody runs it, a job that runs has its
\* arguments and runs in one worker, whatever is cancelled, deleted or stopped.
THEOREM RunsOnceWithoutRequeue == Spec /\ []NoRequeue => [](RunsWithArguments /\ OneRun)
<1>1. OnceInv => RunsWithArguments /\ OneRun
  BY DEF OnceInv, WorkersOnce, RunsWithArguments, OneRun, Begun
<1> QED
  BY <1>1, OnceInvariant, PTL

-----------------------------------------------------------------------------
(***************************************************************************)
(* Cancelling what nobody has.  The command removes the id from the list   *)
(* and then writes the record, whether the id was still there or not: what *)
(* it promises of running jobs holds as long as no worker has the job in   *)
(* between.                                                                *)
(***************************************************************************)

\* No worker has a job between its reading by a cancellation and its marking.
CancelAlone ==
    \A t \in Tools : tool[t].op = "cancel" /\ tool[t].pc \in {"drop", "save"} =>
        \A w \in Workers : worker[w].pc # "idle" => worker[w].job # tool[t].job

\* A worker that will run the job, runs it, or puts it back in the list.
Taking == {"popped", "skipping", "returning", "running"}

\* A cancelled job was enqueued, and has left the list and the workers.
CancelledGone ==
    \A j \in Jobs : record[j].status = "cancelled" =>
        /\ producer[j] = "done"
        /\ j \notin Waiting
        /\ \A w \in Workers : worker[w].pc \in Taking => worker[w].job # j

\* What a cancellation is to look at was enqueued; what it marks has left the list.
CancelsKnown ==
    \A t \in Tools : tool[t].op = "cancel" =>
        /\ \A j \in tool[t].todo : producer[j] = "done"
        /\ tool[t].pc \in {"drop", "save"} => producer[tool[t].job] = "done"
        /\ tool[t].pc = "save" => tool[t].job \notin Waiting

CancelSound == CancelledGone /\ CancelsKnown

\* A step of a worker that puts nothing in the list.
LEMMA WorkerCancel ==
    ASSUME TypeOK, CancelSound, NEW w \in Workers, NEW s, worker' = [worker EXCEPT ![w] = s],
           s.pc \in Taking => \/ s.job = worker[w].job /\ worker[w].pc \in Taking
                             \/ s.job \in Waiting,
           UNCHANGED << producer, tool >>, Waiting' \subseteq Waiting,
           \A j \in Jobs : record'[j].status = "cancelled" => record[j].status = "cancelled"
    PROVE  CancelSound'
<1> USE DEF CancelSound
<1>1. CancelledGone'
  <2> SUFFICES ASSUME NEW j \in Jobs, record[j].status = "cancelled"
               PROVE  /\ producer[j] = "done"
                      /\ j \notin Waiting'
                      /\ \A x \in Workers : worker'[x].pc \in Taking => worker'[x].job # j
    BY DEF CancelledGone
  <2>1. /\ producer[j] = "done" /\ j \notin Waiting
        /\ \A x \in Workers : worker[x].pc \in Taking => worker[x].job # j
    BY DEF CancelledGone
  <2>2. worker'[w] = s /\ \A x \in Workers \ {w} : worker'[x] = worker[x]
    BY DEF TypeOK
  <2> QED
    BY <2>1, <2>2
<1>2. CancelsKnown'
  BY DEF CancelsKnown
<1> QED
  BY <1>1, <1>2

\* The steps of workers keep cancelled jobs out of their hands.
LEMMA WorkCancel ==
    ASSUME TypeOK, CancelSound, CancelAlone, NEW w \in Workers, Work(w) \/ WorkerFails(w)
    PROVE  CancelSound'
<1> DEFINE v == worker[w]
<1>1. v \in WorkerState /\ (v.pc # "idle" => v.job \in Jobs)
  BY DEF TypeOK
<1>2. UNCHANGED << producer, tool >>
  BY DEF Work, Pop, StartJob, SkipJob, ReturnJob, PushBack, HandlerEnds, CompleteRead,
     CompleteWrite, FailRead, FailWrite, Release, WorkerFails, history
<1>3. ASSUME NEW s, worker' = [worker EXCEPT ![w] = s], s.pc \notin Taking,
             UNCHANGED << queue, record >>
      PROVE  CancelSound'
  <2>1. Waiting' = Waiting
    BY <1>3 DEF Waiting
  <2> QED
    BY <1>2, <1>3, <2>1, WorkerCancel
<1>4. ASSUME NEW s, worker' = [worker EXCEPT ![w] = s], s.job = v.job, v.pc \in Taking,
             UNCHANGED << queue, record >>
      PROVE  CancelSound'
  <2>1. Waiting' = Waiting
    BY <1>4 DEF Waiting
  <2> QED
    BY <1>2, <1>4, <2>1, WorkerCancel
<1>5. CASE Pop(w)
  <2> DEFINE s == [IdleWorker EXCEPT !.pc = "popped", !.job = Head(queue)]
  <2>1. s.job = Head(queue) /\ v.pc = "idle" /\ "idle" \notin Taking
    BY <1>5 DEF IdleWorker, Pop, Taking
  <2>2. /\ queue # << >> /\ queue' = Tail(queue) /\ record' = record
        /\ worker' = [worker EXCEPT ![w] = s] \/ worker' = [worker EXCEPT ![w] = v]
    BY <1>5 DEF Pop, WorkerBecomes, TypeOK
  <2>3. Waiting' \subseteq Waiting /\ Head(queue) \in Waiting
    BY <2>2, WaitingMoves
  <2> HIDE DEF s
  <2>4. CASE worker' = [worker EXCEPT ![w] = s]
    BY <1>2, <2>1, <2>2, <2>3, <2>4, WorkerCancel
  <2>5. CASE worker' = [worker EXCEPT ![w] = v]
    BY <1>2, <2>1, <2>2, <2>3, <2>5, WorkerCancel
  <2> QED
    BY <2>2, <2>4, <2>5
<1>6. CASE StartJob(w) \/ SkipJob(w) \/ ReturnJob(w)
  <2>1. \A p, q : [v EXCEPT !.pc = p].job = v.job /\ [v EXCEPT !.pc = p, !.args = q].job = v.job
    BY <1>1 DEF WorkerState
  <2>2. PICK s : worker' = [worker EXCEPT ![w] = s] /\ s.job = v.job
    <3>1. CASE StartJob(w)
      <4>1. worker' = [worker EXCEPT ![w] =
                           [v EXCEPT !.pc = "running", !.args = record[v.job].args]]
        BY <3>1 DEF StartJob, WorkerBecomes
      <4>2. [v EXCEPT !.pc = "running", !.args = record[v.job].args].job = v.job
        BY <1>1 DEF WorkerState
      <4> QED
        BY <4>1, <4>2
    <3>2. CASE SkipJob(w)
      BY <2>1, <3>2 DEF SkipJob, WorkerGoes, WorkerBecomes
    <3>3. CASE ReturnJob(w)
      BY <2>1, <3>3 DEF ReturnJob, WorkerGoes, WorkerBecomes
    <3> QED
      BY <1>6, <3>1, <3>2, <3>3
  <2>3. v.pc \in Taking /\ UNCHANGED << queue, record >>
    BY <1>6 DEF StartJob, SkipJob, ReturnJob, Taking, history
  <2> QED
    BY <1>4, <2>2, <2>3
\* The id that comes back is nobody's to cancel.
<1>7. CASE PushBack(w)
  <2>1. /\ v.pc = "returning" /\ v.job \in Jobs /\ queue' = Append(queue, v.job)
        /\ worker' = [worker EXCEPT ![w] = IdleWorker] /\ record' = record
    BY <1>1, <1>7 DEF PushBack, WorkerBecomes
  <2>2. Waiting' = Waiting \cup {v.job}
    BY <2>1, WaitingMoves
  <2>3. record[v.job].status # "cancelled"
    BY <2>1 DEF CancelSound, CancelledGone, Taking
  <2>4. \A t \in Tools : tool[t].op = "cancel" /\ tool[t].pc = "save" => tool[t].job # v.job
    BY <2>1 DEF CancelAlone
  <2>5. \A x \in Workers : worker'[x].pc \in Taking => worker'[x] = worker[x]
    BY <2>1 DEF IdleWorker, Taking, TypeOK
  <2>6. CancelledGone'
    BY <1>2, <2>1, <2>2, <2>3, <2>5 DEF CancelSound, CancelledGone
  <2>7. CancelsKnown'
    BY <1>2, <2>2, <2>4 DEF CancelSound, CancelsKnown
  <2> QED
    BY <2>6, <2>7 DEF CancelSound
<1>8. CASE HandlerEnds(w) \/ CompleteRead(w) \/ FailRead(w) \/ Release(w) \/ WorkerFails(w)
  <2>1. IdleWorker.pc = "idle"
    BY DEF IdleWorker
  <2>2. PICK s : worker' = [worker EXCEPT ![w] = s] /\ s.pc \notin Taking
    <3>1. CASE HandlerEnds(w)
      <4>1. PICK p \in {"succeeded", "failed"} :
               worker' = [worker EXCEPT ![w] = [v EXCEPT !.pc = p, !.args = FALSE]]
        BY <3>1 DEF HandlerEnds, WorkerBecomes
      <4>2. [v EXCEPT !.pc = p, !.args = FALSE].pc = p
        BY <1>1 DEF WorkerState
      <4> QED
        BY <4>1, <4>2 DEF Taking
    <3>2. CASE CompleteRead(w)
      <4> DEFINE s == [v EXCEPT !.pc = "completing", !.args = record[v.job].args]
      <4>1. s.pc = "completing"
        BY <1>1 DEF WorkerState
      <4>2. worker' = [worker EXCEPT ![w] = s] \/ worker' = [worker EXCEPT ![w] = IdleWorker]
        BY <3>2 DEF CompleteRead, WorkerBecomes
      <4>3. "completing" \notin Taking /\ "idle" \notin Taking
        BY DEF Taking
      <4> HIDE DEF s
      <4> QED
        BY <2>1, <4>1, <4>2, <4>3
    <3>3. CASE FailRead(w)
      <4>1. PICK p \in {"failing", "releasing"} :
               worker' = [worker EXCEPT ![w] = [v EXCEPT !.pc = p]]
        BY <3>3 DEF FailRead, WorkerGoes, WorkerBecomes
      <4>2. [v EXCEPT !.pc = p].pc = p
        BY <1>1 DEF WorkerState
      <4> QED
        BY <4>1, <4>2 DEF Taking
    <3>4. CASE Release(w) \/ WorkerFails(w)
      BY <2>1, <3>4 DEF Release, WorkerFails, WorkerBecomes, Taking
    <3> QED
      BY <1>8, <3>1, <3>2, <3>3, <3>4
  <2>3. UNCHANGED << queue, record >>
    BY <1>8 DEF HandlerEnds, CompleteRead, FailRead, Release, WorkerFails, history
  <2> QED
    BY <1>3, <2>2, <2>3
<1>9. CASE CompleteWrite(w) \/ FailWrite(w)
  <2>1. /\ [v EXCEPT !.pc = "releasing"].pc = "releasing"
        /\ [v EXCEPT !.pc = "releasing", !.args = FALSE].pc = "releasing"
    BY <1>1 DEF WorkerState
  <2>2. PICK s : worker' = [worker EXCEPT ![w] = s] /\ s.pc = "releasing"
    <3>1. \/ worker' = [worker EXCEPT ![w] = [v EXCEPT !.pc = "releasing", !.args = FALSE]]
          \/ worker' = [worker EXCEPT ![w] = [v EXCEPT !.pc = "releasing"]]
      BY <1>9 DEF CompleteWrite, FailWrite, WorkerGoes, WorkerBecomes
    <3> QED
      BY <2>1, <3>1
  <2>3. PICK r : record' = [record EXCEPT ![v.job] = r] /\ r.status # "cancelled"
    <3>1. /\ \A q : Written("completed", q).status # "cancelled"
          /\ \A q : Written("failed", q).status # "cancelled"
      BY DEF Written
    <3> QED
      BY <1>9, <3>1 DEF CompleteWrite, FailWrite, Store
  <2>4. \A j \in Jobs : record'[j].status = "cancelled" => record[j].status = "cancelled"
    BY <2>3 DEF TypeOK
  <2>5. Waiting' = Waiting
    BY <1>9 DEF CompleteWrite, FailWrite, history, Waiting
  <2> QED
    BY <1>2, <2>2, <2>4, <2>5, WorkerCancel DEF Taking
<1> QED
  BY <1>5, <1>6, <1>7, <1>8, <1>9 DEF Work

\* A step of a tool.
LEMMA ToolStepCancel ==
    ASSUME TypeOK, CancelSound, NEW t \in Tools, NEW s, tool' = [tool EXCEPT ![t] = s],
           UNCHANGED << producer, worker >>, Waiting' \subseteq Waiting,
           \A j \in Jobs : record'[j].status = "cancelled" =>
               \/ record[j].status = "cancelled"
               \/ /\ producer[j] = "done" /\ j \notin Waiting
                  /\ \A w \in Workers : worker[w].pc \in Taking => worker[w].job # j,
           s.op = "cancel" =>
               /\ \A j \in s.todo : producer[j] = "done"
               /\ s.pc \in {"drop", "save"} => producer[s.job] = "done"
               /\ s.pc = "save" => s.job \notin Waiting'
    PROVE  CancelSound'
<1>1. CancelledGone'
  BY DEF CancelSound, CancelledGone
<1>2. CancelsKnown'
  <2>1. tool'[t] = s /\ \A u \in Tools \ {t} : tool'[u] = tool[u]
    BY DEF TypeOK
  <2> QED
    BY <2>1 DEF CancelSound, CancelsKnown
<1> QED
  BY <1>1, <1>2 DEF CancelSound

\* An id that stands in the list once is not there any more when it is removed.
LEMMA DroppedIsGone ==
    ASSUME TypeOK, Backed, NEW j \in Jobs, credit[j] <= 1, Unlisted(j)
    PROVE  j \notin Waiting'
<1>1. queue \in Seq(Jobs) /\ credit[j] \in Int
  BY DEF TypeOK
<1>2. CASE j \notin Waiting /\ queue' = queue
  BY <1>2 DEF Waiting
<1>3. ASSUME NEW i \in 1 .. Len(queue), queue[i] = j, queue' = RemoveAt(queue, i)
      PROVE  j \notin Waiting'
  <2>1. queue' \in Seq(Jobs) /\ Count(queue', j) <= Count(queue, j) - 1
    BY <1>1, <1>3, RemoveAtElements, CountRemoved
  <2>2. Count(queue, j) \in Nat /\ Count(queue, j) <= credit[j]
    BY CreditFacts
  <2>3. IsFiniteSet(Places(queue', j)) /\ Count(queue', j) \in Nat
    BY <2>1, CountType
  <2>4. Count(queue', j) = 0
    BY <1>1, <2>1, <2>2, <2>3
  <2>5. Places(queue', j) = {}
    BY <2>3, <2>4, FS_EmptySet DEF Count
  <2> QED
    BY <2>5 DEF Places, Waiting
<1> QED
  BY <1>2, <1>3 DEF Unlisted

\* The next job of a cancellation is one of those it had.
LEMMA OnwardCancel ==
    ASSUME NEW s \in ToolState
    PROVE  /\ Onward(s).pc \notin {"drop", "save"}
           /\ Onward(s).op = "cancel" => Onward(s).todo \subseteq s.todo
BY DEF Onward, ToolState, ToolStages, IdleTool

\* The steps of the tools keep cancelled jobs away.
LEMMA ToolCancel ==
    ASSUME TypeOK, Backed, OnceInv, CancelSound, CancelAlone, NoRequeue, NoRequeue',
           NEW t \in Tools, Requeue(t) \/ Cancel(t) \/ Delete(t) \/ ToolFails(t)
    PROVE  CancelSound'
<1> DEFINE v == tool[t]
<1>1. v \in ToolState /\ tool'[t].op # "requeue" /\ v.op # "requeue"
  BY DEF TypeOK, NoRequeue
<1>2. v.op = "cancel" => /\ \A j \in v.todo : producer[j] = "done"
                         /\ v.pc \in {"drop", "save"} => v.job \in Jobs /\ producer[v.job] = "done"
                         /\ v.pc = "save" => v.job \notin Waiting
  BY DEF CancelSound, CancelsKnown, TypeOK
<1>3. UNCHANGED queue => Waiting' = Waiting
  BY DEF Waiting
<1>4. ~Requeue(t)
  <2>1. ~StartRequeue(t)
    <3>1. [IdleTool EXCEPT !.op = "requeue", !.pc = "scan", !.todo = processing].op = "requeue"
      BY DEF IdleTool
    <3> QED
      BY <1>1, <3>1 DEF StartRequeue, ToolBecomes, TypeOK
  <2> QED
    BY <1>1, <2>1 DEF Requeue, RequeueRead, RequeueTake, RequeueSave, RequeuePush, ToolAt
<1>5. CASE StartCancel(t)
  <2> DEFINE s == [IdleTool EXCEPT !.op = "cancel", !.pc = "scan", !.todo = Waiting]
  <2>1. s.pc = "scan" /\ s.todo = Waiting
    BY DEF IdleTool
  <2>2. tool' = [tool EXCEPT ![t] = s] /\ UNCHANGED << queue, record, producer, worker >>
    BY <1>5 DEF StartCancel, ToolBecomes
  <2>3. \A j \in Waiting : producer[j] = "done"
    <3>1. Waiting \subseteq Jobs
      BY WaitingMoves
    <3>2. \A j \in Waiting : credit[j] >= 1
      BY <3>1, CreditFacts
    <3> QED
      BY <3>1, <3>2 DEF OnceInv, JobsOnce
  <2> HIDE DEF s
  <2> QED
    BY <1>3, <2>1, <2>2, <2>3, ToolStepCancel
<1>6. ASSUME NEW j \in Jobs, CancelRead(t, j) PROVE CancelSound'
  <2> DEFINE s == [v EXCEPT !.job = j]
             d == [s EXCEPT !.pc = "drop", !.args = record[j].args]
  <2>1. /\ tool' = [tool EXCEPT ![t] = IF record[j].status = "queued" THEN d ELSE Onward(s)]
        /\ UNCHANGED << queue, record, producer, worker >>
        /\ v.op = "cancel" /\ j \in v.todo
    BY <1>6 DEF CancelRead, ToolBecomes, ToolAt
  <2>2. /\ s \in ToolState /\ s.todo = v.todo
        /\ d.pc = "drop" /\ d.job = j /\ d.todo = v.todo
    BY <1>1 DEF ToolState
  <2> HIDE DEF s, d
  <2>3. CASE tool' = [tool EXCEPT ![t] = d]
    <3>1. /\ \A k \in d.todo : producer[k] = "done"
          /\ producer[d.job] = "done" /\ d.pc # "save"
      BY <1>2, <2>1, <2>2
    <3> QED
      BY <2>1, <2>3, <3>1, ToolStepCancel, <1>3
  <2>4. CASE tool' = [tool EXCEPT ![t] = Onward(s)]
    <3>1. /\ Onward(s).pc \notin {"drop", "save"}
          /\ Onward(s).op = "cancel" => \A k \in Onward(s).todo : producer[k] = "done"
      BY <1>2, <2>1, <2>2, OnwardCancel
    <3> DEFINE o == Onward(s)
    <3> HIDE DEF o
    <3>2. tool' = [tool EXCEPT ![t] = o] /\ o.pc # "drop" /\ o.pc # "save"
          /\ (o.op = "cancel" => \A k \in o.todo : producer[k] = "done")
      BY <2>4, <3>1 DEF o
    <3> QED
      BY <1>3, <2>1, <3>2, ToolStepCancel
  <2> QED
    BY <2>1, <2>3, <2>4
<1>7. CASE CancelDrop(t)
  <2> DEFINE s == [v EXCEPT !.pc = "save"]
  <2>1. s.pc = "save" /\ s.todo = v.todo /\ s.job = v.job
    BY <1>1 DEF ToolState
  <2>2. /\ tool' = [tool EXCEPT ![t] = s] /\ Unlisted(v.job) /\ v.op = "cancel" /\ v.pc = "drop"
        /\ UNCHANGED << record, producer, worker >>
    BY <1>7 DEF CancelDrop, ToolBecomes, ToolAt
  <2> HIDE DEF s
  <2>3. v.job \in Jobs /\ credit[v.job] <= 1
    BY <1>2, <2>2 DEF OnceInv, JobsOnce
  <2>4. Waiting' \subseteq Waiting /\ v.job \notin Waiting'
    BY <2>2, <2>3, DroppedIsGone, WaitingMoves
  <2> QED
    BY <1>2, <2>1, <2>2, <2>4, ToolStepCancel
\* The record is marked while nobody has the job.
<1>8. CASE CancelSave(t)
  <2>1. /\ v.op = "cancel" /\ v.pc = "save" /\ tool' = [tool EXCEPT ![t] = Onward(v)]
        /\ record' = [record EXCEPT ![v.job] = Written("cancelled", v.args)]
        /\ UNCHANGED << queue, producer, worker >>
    BY <1>8 DEF CancelSave, ToolAt, ToolBecomes, Store
  <2>2. /\ Onward(v).pc \notin {"drop", "save"}
        /\ Onward(v).op = "cancel" => Onward(v).todo \subseteq v.todo
    BY <1>1, OnwardCancel
  <2>3. \A j \in Jobs \ {v.job} : record'[j] = record[j]
    BY <2>1 DEF TypeOK
  <2>4. \A w \in Workers : worker[w].pc \in Taking => worker[w].job # v.job
    BY <2>1 DEF CancelAlone, Taking
  <2> QED
    BY <1>2, <1>3, <2>1, <2>2, <2>3, <2>4, ToolStepCancel
<1>9. ASSUME NEW s, tool' = [tool EXCEPT ![t] = s], s.op # "cancel",
             UNCHANGED << producer, worker >>, UNCHANGED queue \/ \E j \in Jobs : Unlisted(j),
             \A j \in Jobs : record'[j].status = "cancelled" => record[j].status = "cancelled"
      PROVE  CancelSound'
  <2>1. Waiting' \subseteq Waiting
    BY <1>3, <1>9, WaitingMoves
  <2> QED
    BY <1>9, <2>1, ToolStepCancel
<1>10. CASE DeleteRead(t) \/ StartClearTerminal(t) \/ ToolFails(t)
  <2>1. PICK s : /\ tool' = [tool EXCEPT ![t] = s] /\ s.op # "cancel"
                 /\ UNCHANGED << queue, producer, worker, record >>
    <3>1. CASE DeleteRead(t)
      <4>1. [v EXCEPT !.pc = "erase"].op = v.op /\ IdleTool.op = "none"
        BY <1>1 DEF ToolState, IdleTool
      <4> QED
        BY <3>1, <4>1 DEF DeleteRead, ToolBecomes, ToolAt
    <3>2. CASE StartClearTerminal(t)
      <4> DEFINE listed == {j \in Jobs : Exists(j)}
                 s == [IdleTool EXCEPT !.op = "delete", !.pc = "collect", !.todo = listed]
      <4>1. s.op = "delete"
        BY DEF IdleTool
      <4>2. tool' = [tool EXCEPT ![t] = s]
        BY <3>2 DEF StartClearTerminal, ToolBecomes
      <4> HIDE DEF s
      <4> QED
        BY <3>2, <4>1, <4>2 DEF StartClearTerminal
    <3>3. CASE ToolFails(t)
      <4>1. IdleTool.op = "none"
        BY DEF IdleTool
      <4> QED
        BY <3>3, <4>1 DEF ToolFails, ToolBecomes
    <3> QED
      BY <1>10, <3>1, <3>2, <3>3
  <2> QED
    BY <1>9, <2>1
<1>11. ASSUME NEW j \in Jobs,
              StartDelete(t, j) \/ CollectTerminal(t, j) \/ EraseRecord(t, j)
                 \/ UnlinkQueued(t, j) \/ UnlinkProcessing(t, j)
       PROVE  CancelSound'
  <2>1. PICK s : tool' = [tool EXCEPT ![t] = s] /\ s.op # "cancel"
    <3>1. IdleTool.op = "none"
      BY DEF IdleTool
    <3>2. CASE StartDelete(t, j)
      <4> DEFINE s == [IdleTool EXCEPT !.op = "delete", !.pc = "get", !.todo = {j}, !.ids = {j}]
      <4>1. s.op = "delete"
        BY DEF IdleTool
      <4>2. tool' = [tool EXCEPT ![t] = s]
        BY <3>2 DEF StartDelete, ToolBecomes
      <4> HIDE DEF s
      <4> QED
        BY <4>1, <4>2
    <3>3. CASE CollectTerminal(t, j)
      <4>1. v.op = "delete"
        BY <3>3 DEF CollectTerminal, ToolAt
      <4>2. \A p, q, r : /\ [v EXCEPT !.todo = p, !.ids = q].op = "delete"
                         /\ [v EXCEPT !.pc = r, !.todo = p, !.ids = q].op = "delete"
        BY <1>1, <4>1 DEF ToolState
      <4> QED
        BY <3>1, <3>3, <4>2 DEF CollectTerminal, ToolBecomes
    <3>4. ASSUME v.op = "delete", NEW next, NextId(t, j, next)
          PROVE  \E s : tool' = [tool EXCEPT ![t] = s] /\ s.op # "cancel"
      <4>1. \A p, r : /\ [v EXCEPT !.todo = p].op = "delete"
                      /\ [v EXCEPT !.pc = r, !.todo = p].op = "delete"
        BY <1>1, <3>4 DEF ToolState
      <4> QED
        BY <3>1, <3>4, <4>1 DEF NextId, ToolBecomes
    <3> QED
      BY <1>11, <3>2, <3>3, <3>4 DEF EraseRecord, UnlinkQueued, UnlinkProcessing, ToolAt
  <2>2. UNCHANGED << producer, worker >> /\ (queue' = queue \/ Unlisted(j))
    BY <1>11 DEF StartDelete, CollectTerminal, EraseRecord, UnlinkQueued, UnlinkProcessing
  <2>3. record' = record \/ record' = [record EXCEPT ![j] = NoRecord]
    BY <1>11 DEF StartDelete, CollectTerminal, EraseRecord, UnlinkQueued, UnlinkProcessing, Store
  <2>4. \A k \in Jobs : record'[k].status = "cancelled" => record[k].status = "cancelled"
    <3>1. NoRecord.status = "none"
      BY DEF NoRecord
    <3>2. \A k \in Jobs : record'[k] = record[k] \/ record'[k] = NoRecord
      BY <2>3 DEF TypeOK
    <3> QED
      BY <3>1, <3>2
  <2> QED
    BY <1>9, <2>1, <2>2, <2>4
<1> QED
  BY <1>4, <1>5, <1>6, <1>7, <1>8, <1>10, <1>11 DEF Cancel, Delete

\* What is being enqueued is not cancelled, nor looked at by a cancellation.
LEMMA EnqueueCancel ==
    ASSUME TypeOK, CancelSound, NEW i \in Jobs, Enqueue(i) \/ Age(i)
    PROVE  CancelSound'
<1>1. worker' = worker /\ tool' = tool
  BY DEF Enqueue, EnqueueSave, EnqueuePush, EnqueueFails, Age
<1>2. /\ \A j \in Jobs : producer[j] = "done" => producer'[j] = "done"
      /\ \A j \in Jobs : record'[j].status = "cancelled" => record[j].status = "cancelled"
      /\ \/ Waiting' = Waiting
         \/ Waiting' = Waiting \cup {i} /\ producer[i] # "done"
  <2>1. CASE EnqueueSave(i)
    <3>1. Waiting' = Waiting
      BY <2>1 DEF EnqueueSave, Waiting
    <3>2. producer' = [producer EXCEPT ![i] = "saved"] /\ producer[i] = "new"
      BY <2>1 DEF EnqueueSave
    <3>3. record' = [record EXCEPT ![i] = Written("queued", TRUE)]
      BY <2>1 DEF EnqueueSave, Store
    <3>4. Written("queued", TRUE).status = "queued"
      BY DEF Written
    <3> QED
      BY <3>1, <3>2, <3>3, <3>4 DEF TypeOK
  <2>2. CASE EnqueuePush(i)
    <3>1. Waiting' = Waiting \cup {i}
      BY <2>2, WaitingMoves DEF EnqueuePush
    <3> QED
      BY <2>2, <3>1 DEF EnqueuePush, TypeOK
  <2>3. CASE EnqueueFails(i)
    BY <2>3 DEF EnqueueFails, TypeOK, Waiting
  <2>4. CASE Age(i)
    <3>1. record[i] \in JobRecord
      BY DEF TypeOK
    <3>2. [record[i] EXCEPT !.old = TRUE].status = record[i].status
      BY ONLY <3>1 DEF JobRecord
    <3> QED
      BY <2>4, <3>2 DEF Age, Store, TypeOK, Waiting
  <2> QED
    BY <2>1, <2>2, <2>3, <2>4 DEF Enqueue
<1>3. CancelledGone'
  BY <1>1, <1>2 DEF CancelSound, CancelledGone
<1>4. CancelsKnown'
  <2>1. \A t \in Tools : tool[t].op = "cancel" /\ tool[t].pc = "save" => tool[t].job \notin Waiting'
    BY <1>2 DEF CancelSound, CancelsKnown
  <2>2. \A j \in Jobs : producer[j] = "done" => producer'[j] = "done"
    BY <1>2
  <2>3. ASSUME NEW t \in Tools, tool[t].op = "cancel"
        PROVE  /\ \A j \in tool[t].todo : producer'[j] = "done"
               /\ tool[t].pc \in {"drop", "save"} => producer'[tool[t].job] = "done"
    <3>1. /\ \A j \in tool[t].todo : producer[j] = "done"
          /\ tool[t].pc \in {"drop", "save"} => producer[tool[t].job] = "done"
      BY <2>3 DEF CancelSound, CancelsKnown
    <3>2. \A j \in tool[t].todo : j \in Jobs
      BY DEF TypeOK, ToolState
    <3>3. tool[t].pc \in {"drop", "save"} => tool[t].job \in Jobs
      BY DEF TypeOK
    <3> QED
      BY <2>2, <3>1, <3>2, <3>3
  <2> QED
    BY <1>1, <2>1, <2>3 DEF CancelsKnown
<1> QED
  BY <1>3, <1>4 DEF CancelSound

\* Only jobs that nobody has are marked cancelled, as the comment says, as long
\* as no worker has a job between its reading and its marking, and no requeue
\* puts a job in the list a second time.
THEOREM CancelSparesRunningAlone ==
    Spec /\ []NoRequeue /\ []CancelAlone => []CancelSparesRunning
<1>1. Init => CancelSound
  BY DEF Init, CancelSound, CancelledGone, CancelsKnown, NoRecord, IdleTool
<1>2. Inv /\ Backed /\ OnceInv /\ CancelAlone /\ NoRequeue /\ NoRequeue' /\ CancelSound /\ [Next]_vars
          => CancelSound'
  <2> SUFFICES ASSUME TypeOK, Backed, OnceInv, CancelAlone, NoRequeue, NoRequeue', CancelSound,
                      [Next]_vars
               PROVE  CancelSound'
    BY DEF Inv
  <2>1. CASE UNCHANGED vars
    BY <2>1 DEF vars, CancelSound, CancelledGone, CancelsKnown, Waiting
  <2> QED
    BY <2>1, EnqueueCancel, WorkCancel, ToolCancel DEF Next
<1>3. Inv /\ CancelSound => CancelSparesRunning
  BY DEF Inv, TypeOK, CancelSound, CancelledGone, Taking, CancelSparesRunning
<1> QED
  BY <1>1, <1>2, <1>3, Invariance, BackedInvariant, OnceInvariant, PTL DEF Spec

=============================================================================
