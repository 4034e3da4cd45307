# sesame-admin: specifications, model checking and proofs

sesame-admin is a multi-tenant administration backend in Rust: axum handlers on
the loco framework (a patched copy of which is in `loco-rs-patched/`), Postgres
through sea-orm, Redis for sessions, caches, counters and background jobs. This
directory holds TLA+ specifications of its concurrent core and of the components
around it, the TLC runs that check them on small instances, and TLAPS proofs for
every instance. Paths below
are relative to the repository.

## 1. What is hard in this program

A handler is a sequence of awaits. Each query or Redis command in it is atomic,
nothing around two of them is unless a transaction or a Lua script says so, and
the future of a handler may be dropped at any await (client gone, process
stopped). Several application servers and workers run at once over one
Postgres and one Redis. Four patterns follow from it, over and over:

* *commit, then tell Redis* (role edits, password changes, dictionaries) or the
  reverse (tenants, menus, dictionary entries), with a failure or a reader in
  between;
* *read, then decide* (a token's grants, a row's status, a job's record), with a
  writer in between;
* *move a name from one key to another* with two commands (the job queue);
* *let an expiry clean up* what the protocol may leave behind (markers, lists,
  session rows, counters, links).

`PROJECT.json` lists, under `hazards`, the lines where they bite. Where the code has no
answer to a race, a property cannot forbid it: the property then says that nothing but this race
does the harm, and the hazard's `note` names what is exempt.

## 2. Inventory

The status of every part, with its sources, is in `PROJECT.json` under `components`.

| Part | State | Operations | Interacts with | What makes it correct |
|---|---|---|---|---|
| Session revocation (`middleware/session_guard.rs`) | a marker per user in Redis (second, expiry) | `revoke_user`, `revoke_users_in_tenant`, `is_session_valid` | called by nine handlers, read by every request | a revocation is final; a change ends the tokens from before it |
| Login (`controllers/auth.rs`, `models/users.rs`) | users, failed attempts, JWTs (kept by clients only) | login, logout, refresh of grants by a new login, magic link, reset, registration | session rows, markers, rate limiter, captcha, mailer jobs | no token for a disabled tenant, a token carries current grants |
| Users, roles, menus, tenants (`controllers/{users,roles,menus,tenants}.rs`) | rows and their join tables | edits, removals, each with its own revocation rule | session revocation | whoever loses a right loses the tokens that carry it |
| Online users (`models/user_sessions.rs`) | a row per login, 24 hours | list, forced logout, cleanup task | session revocation | a row names a user that can be logged out |
| Dictionary cache (`controllers/dictionar*.rs`, `data/shared_redis.rs`) | lists in Redis for 60 s | read through, clear of the scope | dictionary tables, cache page, sync job | staleness is bounded and ends |
| Redis job queue (`bgworker/redis.rs`) | `job:<id>`, `queue:<name>`, `processing:<name>` | enqueue, pop, complete, fail, return, requeue, cancel | workers, CLI, queue page | a job is not lost, not run twice, not run with something else's arguments |
| Queue page (`controllers/queue.rs`) | none | delete a job, clear ended jobs | Redis queue | only jobs nobody runs are touched |
| Postgres and SQLite queues (`bgworker/{pg,sqlt,mod}.rs`) | one table, in SQLite a lock row too | setup, flush, enqueue, dequeue, report, cancel, requeue, tidy, purge | workers, CLI | the same promises, by row locks and transactions |
| Departments, menus, roles as rows (`models/departments.rs`, `controllers/{departments,menus,roles,users}.rs`) | trees, assignments | create, move with a cycle check, remove with a count | foreign keys of the schema | no cycles, no orphans, no right lost in silence |
| One-time links (`controllers/auth.rs`, `models/users.rs`) | a token column and a time per kind | issue, mail, redeem | login, mailer | a link works, and once |
| Rate limiter, mail limit (`middleware/rate_limiter.rs`, `controllers/jobs.rs`) | a Redis counter with an expiry | one script per request | login, queue | a budget holds, and is not a lock-out |
| Storage strategies (`storage/strategies/`) | the same objects in several stores | upload, delete, rename, copy, download | stores that fail | what was acknowledged is where the mode says |
| Files (`controllers/files.rs`, `storage.rs`, `models/storage_config.rs`) | objects, one row that says where | upload with cleanup, delete, configuration | stores | an acknowledged file is served, a refused one is gone |
| Synchronisation (`workers/syncer.rs`) | source and target tables, `last_sync_at` | full and incremental copy, clearing of caches | job queue, notifications | a copy is whole, a full one replaces, a failure leaves the target as it was |
| Scheduled tasks (`controllers/scheduled_tasks.rs`) | task rows, log rows | edit, trigger | registered handlers | a run is logged once |
| Captcha, data scope | a Redis key; `users_departments` | issue and consume; the visible set | login; every list of users | a captcha is used once; the set is the subtree |
| The rest | rows | plain CRUD, logs, monitoring, code generation | — | mostly one statement per request |

## 3. Modules

| Module | Models | Kind |
|---|---|---|
| `SessionGuard` | revocation, login, and the handlers that revoke | specification |
| `MCSessionGuard` | the instance TLC checks | model |
| `SessionGuard_proofs` | eight theorems about it | proofs |
| `DictCache` | the dictionary cache with readers and writers | specification (TLC checks it directly) |
| `DictCache_proofs` | three theorems | proofs |
| `JobQueue` | the Redis queue, workers, CLI tools, queue page | specification |
| `MCJobQueue` | the tags of the workers in the instance TLC checks | model |
| `JobQueue_proofs` | six theorems | proofs |
| `Queue` | what a job queue promises: a job waits, is taken, has ended | abstract specification |
| `SqlQueue` | the Postgres and SQLite backends, their workers and commands; implements `Queue` | specification |
| `MCSqlQueue` | tags and handlers in the instance TLC checks | model |
| `SqlQueue_proofs` | six theorems, the refinement among them | proofs |
| `OrgTree` | trees of departments and menus, accounts, roles, removals | specification |
| `OneTimeLinks` | links for verification, reset and login | specification |
| `Throttle` | the Redis counters of the rate limits | specification |
| `SessionRows` | `user_sessions` beside the tokens | specification |
| `Replicas` | the storage strategies and their failure modes | specification |
| `SourceSync` | the copying of source tables | specification |
| `FileStore` | uploads, deletions and the storage configuration | specification |
| `MCBackOffice` | the instance TLC checks of the last seven | model |
| `OrgTree_proofs` | five theorems | proofs |
| `Login_proofs` | five theorems, about `OneTimeLinks`, `SessionRows` and `Throttle` | proofs |
| `Storage_proofs` | eight theorems, about `FileStore`, `Replicas` and `SourceSync` | proofs |
| `BackOffice_proofs` | two theorems, about `MCBackOffice` itself | proofs |

The components meet at few places in the code: handlers end sessions
(`SessionGuard` has the handlers themselves, `SessionRows` what becomes of the rows
beside the same two steps of a revocation), a synchronisation or a
mail is a job of one of the queues, and a synchronisation clears the dictionary
cache (the op `"clear"` of `DictCache`). The seven components of `MCBackOffice`
share no state at all: its variable `subject` names the one that moves in a
behaviour while the others rest in an initial state, so that one run checks the
seven without multiplying their states.

### SessionGuard

| Specification | Code |
|---|---|
| `marker[u]` | the Redis key written by `revoke_user`, with the expiry SET_EX gives it |
| `tokens` | JWTs; nothing on the server knows them. `iat` is the claim; `born` and `seen` are histories |
| `accounts`, `members`, `tenant` | `users`, `users_roles`, `tenants.status` |
| `login[l]`, `request[r]` | local variables of a handler between two awaits |
| `LoginVerify`, `LoginCheckTenant`, `LoginLoad`, `LoginSign` | the queries of `login` and `build_login_token`, then the signature with the clock of that moment |
| `RevokeStamp`, `RevokeStore` | the two halves of `revoke_user`: read the clock, SET_EX |
| `Logout` ... `RemoveUser` | handlers that revoke one user; the database change is one transaction |
| `UpdateRole`, `SetMenus`, `LookupRole` | row, menus, then the query for the ids of the holders, whose error counts as "nobody" |
| `UpdateMenu`, `RemoveMenu`, `LookupMenu`, `DeleteMenu` | update commits before the revocation, removal after it |
| `LookupUsers` | the query for the rows of these ids; of a role its error counts as "nobody" too, of a menu it ends the request |
| `DisableTenant`, `DeleteTenant`, `LookupTenant`, `PersistDisabled`, `PersistDeleted` | revoke everybody, then persist |
| `Abort` | `?` on a failed query or Redis command, a dropped connection, a stopped process |

`MarkerPresent` compares the clock with the key's expiry instead of deleting the
key. `UpdateRole` and `UpdateMenu` stand for the edits that revoke: a change of
data scope or of sorting revokes nobody and is in no token. The check of the
caller's token and the handler's work are separate in the code, so `Logout` and
`ChangePassword` ask for a token of the user, not for one that is still accepted.
The tenant check of a login is an `if let Ok`: a query that fails lets the login
through, so that `LoginCheckTenant` may go on whatever the status, and refusing is
`LoginGivesUp`. `LoginLoad` is the first of the queries for roles and permissions: all
of what the token carries is at least as new as it found. There is one role, which references every menu that is edited, so that
the first query of a menu's lookup, for the roles, has one answer. `holders` keeps, for
the properties, whom a request has to reach.

### DictCache

| Specification | Code |
|---|---|
| `row`, `code`, `items` | `dictionaries` and the entries of each, named by the change that made them |
| `cache[c]` | `dict_cache:<tenant>:<code>` with the rest of its 60 seconds |
| `Hit`, `Miss`, `FindDictionary`, `FindNothing`, `LoadEntries`, `StoreList` | `options`: GET, the two queries of `get_by_dict_code`, SET_EX |
| `CreateDictionary`, `UpdateDictionary`, `RemoveDictionary` | commit, then clear (creation does not clear) |
| `StartClear`, `WriteEntry` | entries: clear, then commit |
| `ScanKeys`, `DeleteKeys`, `ClearFails` | `delete_by_prefix`, whose error the callers drop |

The unique index on code and tenant is the one of the schema; without it two
live dictionaries share a code and a list is arbitrary, which the type invariant
excludes. The iteration over SCAN ends at an error as it does at the last key, so
that a clear that was cut short reports success: such a clear is responsible for
nothing in `settled`. The cache page enumerates, then deletes, like
`delete_by_prefix`; the synchronisation job deletes batch by batch and stops
after 10 000 keys, which the op `"clear"` covers as long as there are fewer.

### JobQueue

| Specification | Code |
|---|---|
| `record[j]` | `job:<id>`: status, whether `data` still holds the arguments, whether `updated_at` is past the age of requeue |
| `queue`, `processing` | `queue:<name>` and `processing:<name>` of one queue |
| `Pop` | the Lua script: LPOP, and SADD, which tells whether the id was there already |
| `StartJob`, `SkipJob`, `ReturnJob`, `PushBack` | `dequeue_with_conn` after the script: record, tags, SREM, RPUSH |
| `CompleteRead/Write`, `FailRead/Write`, `Release` | GET, SET, SREM of `complete_job_with_conn` and `fail_job_with_conn` |
| `StartRequeue`, `RequeueRead/Take/Save/Push` | `requeue` over the processing set |
| `StartCancel`, `CancelRead/Drop/Save` | `cancel_jobs_by_name` |
| `StartDelete`, `DeleteRead`, `StartClearTerminal`, `CollectTerminal`, `EraseRecord`, `UnlinkQueued`, `UnlinkProcessing` | the queue page |
| `WorkerFails`, `ToolFails`, `EnqueueFails` | an error that is logged, a stopped process, a job without a handler |

The record keeps the status `queued` while the job runs: the Redis backend never
writes `processing`.

### Queue and SqlQueue

| Specification | Code |
|---|---|
| `row[j]` | the row of `pg_loco_queue` or `sqlt_loco_queue`: status, whether `updated_at` is past the age of requeue |
| `due`, `ahead` | `run_at` in the past, and the order of it among the due rows |
| `backend`, `flush` | the configuration of the queue |
| `lockRow` | the one row of `sqlt_loco_queue_lock`, which `clear` deletes too |
| `Setup`, `Clear` | `converge`: the tables of `initialize_database`, then `clear` if the queue is to be flushed |
| `Select`, `Commit`, `Rollback` | the transaction of `dequeue` |
| `StartHandler`, `NoHandler`, `HandlerEnds` | the loop of a worker, around the registry of its process |
| `CompleteJob`, `FailJob` | one UPDATE by id; a recurring job is queued again |
| `Abandon`, `Shutdown` | a process that stops with a job, or between two |
| `CancelJob`, `Requeue`, `ClearByStatus`, `ClearOlderThan` | the commands |

Postgres skips the rows that another dequeue has locked; SQLite lets one
transaction write at a time, and a dequeue first updates the lock row. Every job
has a name of its own, so that cancelling by name is cancelling a job; rows of
one second are ordered as they were inserted; `purge` by age takes any set of
rows, as ages are not modelled beyond that of requeue; the two DELETEs of SQLite's
`clear` are one step.

`Queue` is what an owner of jobs may rely on: a job is handed out only while it
waits, only an operator takes it back from its holder, a removed job stays
removed. `SqlQueue` implements it with `stage` from the status, `holders` from the
local state of the workers and `released` for `seized`. The Redis queue does not:
it can hold an id twice, and its tools work in several commands; `JobQueue` states
what is left (`ExclusiveRun`, `StartsAreAccounted`, `NoJobVanishes`).

### OrgTree

| Specification | Code |
|---|---|
| `nodes`, `parent`, `unborn` | `departments` (or `menus`), `parent_id`, ids of the sequence not used yet |
| `people`, `home`, `roles`, `held` | `users`, `department_id`, `roles`, `users_roles` |
| `LoadNode`, `Climb`, `WriteParent` | `update` with `would_create_cycle`: a query per level, at most `MaxClimb`, then the UPDATE |
| `LoadParent`, `InsertNode` | `create`; a foreign key refuses a parent that is gone |
| `CountChildren`, `LoadForRemoval`, `DeleteNode` | `remove`, and ON DELETE SET NULL and CASCADE of the schema |
| `LoadAccount`, `WriteAccount` | `users::update`: the account and the validation of the references, the transaction |
| `LoadRole`, `CountHolders`, `DeleteRole` | `roles::remove` |

The queries of `LoadAccount` are one step: each only refuses, and what one of them found
can vanish before the others, or before the transaction, whose foreign keys look for all
of it again.

`crossed`, `late` and `raced` are histories: another move was written during a
climb, something was attached after a count, a node was placed by a check that
could not know. `OrgInit` is any forest over the nodes that are born (`Acyclic`:
no non-empty set of nodes has all its parents in itself). For TLC
`MCBackOffice` writes the same forests with parents of a smaller number than their
children, which loses no shape; `BackOffice_proofs` proves that such trees are
forests.

### OneTimeLinks

`token` and `validTo` are the columns of one kind of link, of one account; links
are numbered as they are stored. `FindAccount`, `StoreLink`, `MailLink` are the
three statements of an issue, `FindByToken` and `Redeem` those of a redemption:
the second finds the row by the account, not by the token. `outrun` holds the
links that a redemption cleared without having seen them.

### Throttle

`hits` and `hitsUntil` are the counter and its expiry, `IncrWithExpiry` the Lua
script, `LetThrough` and `TurnAway` the two outcomes, `AnswerLost` a script that ran
and whose answer did not arrive (503). `Budget` and `Window` are 10 in 300 s for
logins; the mail limit has the same script with others. The histories `passed` and
`lost` are sets of requests, each told from the others by when its window began and
the number it got from the counter (`Requests`); what a span holds is the number of
their elements in it.

### SessionRows

`SignIn`, `InsertRow` (whose failure is ignored), `LogoutDeletes`, `FindSession`,
`DeleteSession`, and `Cleanup`, which deletes rows whose `expires_at`, not their login,
is a day ago. `RevokeStamp` and `RevokeStore` are the two halves of `revoke_user`, for a
logout and for the requests that revoke and leave the rows alone (`RevokeOnly`). The
marker is what was stored last, and may be of an earlier second than the one it replaces:
`undone` holds the sessions which the one covered and the other does not.

### Replicas

`failureMode` stands for the strategy with its mode: single, backup with four
modes, mirror with two. `StoreDoes`, `StoreErrs` and `Download` are the turn of a request
at one store, `RetryPrimary` the primary's second turn in a mirror's `download_stream`
(`"fetch"`), when no secondary had the object either; `ShouldFail` is `FailureMode::should_fail`, `StopsEarly` the operations
whose loop asks for the verdict in its body. `Leftovers` is what a store may hold
after an error: nothing done, all done, or the copy of a rename that is a copy
and a delete.

### SourceSync

`ReadSource`, `BeginCopy`, `DeleteTarget`, `InsertBatch`, `CommitCopy`, `TouchLastSync` are
the queries of a run, in the order of `sync_table`. The DELETE takes its snapshot in
`BeginCopy` and ends in `DeleteTarget`, once no other transaction has locked what it
found: READ COMMITTED. `RunAgain` is the queue's doing. `met` holds the pairs of runs
of which one was committed after the other had read.

### FileStore

| Specification | Code |
|---|---|
| `config` | rows of `storage_config` of the tenant; nothing keeps them to one |
| `Denoted` | `find_by_tenant`: any of the rows, or the default directory |
| `OpenStore` | `DynamicStorage::new`, to which an error of the query is no configuration |
| `StoreFile`, `Refuse`, `CleanFile`, `AnswerRefusal`, `Acknowledge` | the upload handler and `cleanup_uploaded` |
| `BeginDelete`, `DeleteFile` | the deletion of any name that a store has, which asks only the store |
| `FindConfig`, `InsertConfig`, `LoadConfig`, `UpdateConfig` | `get_or_create`, then the query and the UPDATE of `update_config`; the second `get_or_create`, for a masked secret, is the first one again |

## 4. Runs

States are distinct states, on two cores.

| Run | Question | Outcome |
|---|---|---|
| `SessionGuard` | do revocations hold under any interleaving and failure? | holds, 2.66 M states |
| `SessionGuard_RevokedTokensRejected` | without the exception for markers stored out of order? | violated |
| `SessionGuard_NoStaleGrants` | do the grants in a token also fall to the revocation? | violated |
| `SessionGuard_RoleChangeForcesLogin` | does a successful role edit log its holders out? | violated |
| `DictCache` | is a clear complete, and does staleness end? | holds, 1.21 M states |
| `DictCache_NoStaleLists` | is a cached list current when nobody is writing? | violated |
| `JobQueue` | are jobs neither lost, nor run twice at once, nor run unasked? | holds, 2.19 M states |
| `JobQueue_CancelSparesRunning` | does cancel affect waiting jobs only? | violated |
| `JobQueue_RunsWithArguments` | does a recovered job run with its arguments? | violated |
| `SqlQueue` | do the SQL backends implement `Queue`, and serve what is due? | holds, 108 K states |
| `SqlQueue_FlushedQueueServes` | does a queue that is flushed at the start serve at all? | violated |
| `BackOffice` | do the other seven components keep what they promise, but for the overlaps and faults that their properties name? | holds, 1.70 M states |

What holds:

* `RevocationIsFinal`, `ChangesEndOlderTokens`, `SuccessEndsTokens` (a change of a user,
  a password or a menu is not reported as a success unless it was followed by its
  revocation) and `TenantEndRevokesFirst` except for a user whose marker is `Regressed`: an earlier clock reading was written
  over a later one. The exception is exact about its cause, and the first
  violated run shows it happening. `TenantEndRevokesFirst` speaks of a request
  that read the tenant as enabled (`since` > 0): one that read it as disabled
  revokes nobody, although the tenant may have been enabled since.
* `ClearIsComplete`: what a completed clear leaves behind was stored after the
  change it is responsible for. `EventuallyFresh`: once the commits end, the
  cache agrees with the database for good, because lists expire and a read does
  not renew them.
* `StartsAreAccounted`, `ExclusiveRun`, `NoJobVanishes`, with the exceptions the
  code makes real: a tool that released the id from under a worker (`seized`),
  an actor that stopped between two keys, a deletion, and a requeue that wrote
  `queued` over the record of a job that a worker had (`excused`).
* `ImplementsQueue`, `ExclusiveHold`, `StuckOnlyByFailure` and `EndedIsFinal` of the
  SQL queue. A requeue asks for nothing but the age of a row: a job that is still
  running is handed out a second time, and the first worker's report then counts
  for the second's run; `seized` marks those. `Served`: a due job is served,
  except by a flushed SQLite queue.
* `CyclesAreRaced`: a cycle among departments contains an edge written after another
  move crossed its climb, or by a climb that gave up at its cap. `OrphansCameLate`,
  `StrippedCameLate`: a removal cuts off only what was attached after its count.
* `SpentLinksAreDead`: two uses of one link have overlapped. `MailedLinksWork`: the
  newest mailed link works until it expires or is used, unless a redemption of an
  older one, begun before, cleared it.
* `BurstBounded`: less than twice the budget in any span of a window.
  `RefusalsEarned`: whoever is turned away has had the budget, or lost answers,
  within a window; refused attempts do not prolong it.
* `AcceptedAreListed`: within the 24 hours of his row, who is logged in is in the list,
  unless the row was never written, went with a logout that has not revoked yet or
  then failed, or a revocation covered the token and one of an earlier second, stored
  over it, brought it back.
* `AcknowledgedCopies`, `DownloadsAreCurrent`: after an acknowledged operation that
  met no other, at most as many secondaries differ as the mode tolerates, and a
  fall-back does not bring back an overwritten object.
* `CopiesAreWhole`: a copy is in the target entirely or not at all. `CopiesReplace`:
  two full runs are side by side in the target only if they overlapped.
* `RefusedUploadsLeaveNothing`, `AcknowledgedAreServed`, `UpdatesTakeHold`: up to
  failed cleanups, fall-backs to the default store, changes of the configuration,
  and two requests that both found no row.

What does not hold is in section 8.

### Bounds

* Sessions: two users, one login, two revoking requests of any kind, a clock of
  three seconds, tokens that live one tick and markers two, two committed changes.
  Two requests are what it takes to store markers out of order or to end
  a tenant over a role change; one login gives a token to race with. A third
  second is needed for markers to expire. The proofs have no bound.
* Dictionaries: two rows, two codes, one reader, one writer, a TTL of two ticks,
  two commits. Two codes let one key survive a clear that the other does not,
  two rows let a code pass from one to the other. With two readers or two
  writers the liveness check does not end in minutes; `ClearIsComplete` is proved
  for any number of them.
* Jobs: two jobs, two workers of which one takes only the first job, one tool, one
  aging of a record. Two workers are what a lock is about, tags make the second
  return what it pops, and one aging suffices for a requeue of a job that runs.
* SQL queue: a recurring and an ordinary job, so that one can get in the other's
  way; two workers of processes with different handlers, so that a job can be taken
  by a process that cannot run it; one requeue, which suffices to seize a job and
  to bring back a stuck one. (Without a bound, an operator who always requeues a
  running job, whose `run_at` stays the earliest, keeps later jobs waiting.)
* Trees: four nodes in every shape, or three and one to be created, two requests, a
  climb of two: deep enough to exceed the cap, and for two moves to cross. One
  account and one role are what a removal can strip.
* Links: two issues, two redemptions, a life of one tick in three. Counters: a
  budget of two in a window of three, five ticks, so that two windows meet a span.
  Session rows: two logins, two logouts or other revocations, which suffices to store
  markers out of order, rows that live one tick and tokens four, which puts a row's end
  before its token's as 24 hours and 7 days do.
* Stores: two secondaries, two paths, two requests, two errors of a store, so that both
  secondaries can fail one operation and `AtLeastOneFailure` and `CountFailure(2)` refuse
  it, where one failure passes. Copies:
  three rows of which two are read, batches of one, two runs, one change of the
  source. Files: two files, two stores, two requests of either kind, two rows.

### Fairness

`DictCache` assumes weak fairness of time (`Tick`), and of each reader's
`Fill`, since a query or command that was sent ends with an answer or an error
and the read then goes on or gives up. Writers are not assumed to get anywhere,
readers are not assumed to come, and clears may all fail.

`SqlQueue` assumes weak fairness of each worker's own steps (the loop goes on, a
handler returns) and of time (`FallsDue`). The poll loop looks again for as long
as the process runs, and a busy SQLite transaction is retried, so that an opening
that comes back for ever is used: strong fairness of `Select`. A database that
fails every single dequeue of a job serves nothing, whence strong fairness of its
commit (`CommitOf`). Operators, shutdowns, failures and enqueues are not assumed.

Deadlock is checked in `DictCache`; in the other runs every request, login and job
of the instance may be served and the clock at its bound, so that a state without
successors is an end.

## 5. Proofs

For every value of the constants that meets their assumptions:

| Theorem | Statement | Argument |
|---|---|---|
| `SessionGuard_proofs!TypeCorrect` | `Spec => []TypeOK` | inductive as it stands |
| `SessionGuard_proofs!RevocationFinal` | `Spec => []RevocationIsFinal` | see below |
| `SessionGuard_proofs!ChangesFinal` | `Spec => []ChangesEndOlderTokens` | the same invariant |
| `SessionGuard_proofs!SuccessMeansRevoked` | `Spec => []SuccessEndsTokens` | with `HoldersSound` of the operations in question, below |
| `SessionGuard_proofs!TenantEndsSafely` | `Spec => TenantEndRevokesFirst` | the same invariant |
| `SessionGuard_proofs!RevokedRejectedInTurn` | `Spec /\ []StampsInTurn => []RevokedTokensRejected` | *Promises*, below |
| `SessionGuard_proofs!GrantsCurrentInTurn` | `Spec /\ []LoginsCurrent => []NoStaleGrants` | *Promises* |
| `SessionGuard_proofs!RoleChangesWhenLookupsSucceed` | `Spec /\ LookupsSucceed => []RoleChangeForcesLogin` | *Promises* |
| `DictCache_proofs!TypeCorrect` | `Spec => []TypeOK` | inductive as it stands |
| `DictCache_proofs!ClearComplete` | `Spec => []ClearIsComplete` | see below |
| `DictCache_proofs!FreshWithoutOverlap` | `RedisMayFail = FALSE`, then `Spec /\ []NoOverlap /\ [][ClearsRun]_vars => []NoStaleLists` | *Promises* |
| `JobQueue_proofs!TypeCorrect` | `Spec => []TypeOK` | inductive, with a lemma on sequences |
| `JobQueue_proofs!RunsAreExclusive` | `Spec => []ExclusiveRun` | see below |
| `JobQueue_proofs!JobsAreTracked` | `Spec => []NoJobVanishes` | see below |
| `JobQueue_proofs!StartsAccounted` | `Spec => []StartsAreAccounted` | see below |
| `JobQueue_proofs!RunsOnceWithoutRequeue` | `Spec /\ []NoRequeue => [](RunsWithArguments /\ OneRun)` | *Promises* |
| `JobQueue_proofs!CancelSparesRunningAlone` | `Spec /\ []NoRequeue /\ []CancelAlone => []CancelSparesRunning` | *Promises* |
| `SqlQueue_proofs!TypeCorrect` | `Spec => []TypeOK` | inductive as it stands |
| `SqlQueue_proofs!ExclusiveHolding` | `Spec => []ExclusiveHold` | see below |
| `SqlQueue_proofs!StuckRows` | `Spec => []StuckOnlyByFailure` | the same invariant |
| `SqlQueue_proofs!EndedJobs` | `Spec => EndedIsFinal` | the same invariant |
| `SqlQueue_proofs!SqlQueueImplementsQueue` | `Spec => ImplementsQueue` | step by step, under the same invariant |
| `SqlQueue_proofs!LockRowOnlyUnflushed` | in SQLite, `Select` with `flush` only while `flushing`; without it the lock row is there | *Promises* |
| `OrgTree_proofs!OrgTypeCorrect` | `OrgSpec => []OrgTypeOK` | inductive as it stands |
| `OrgTree_proofs!OrgCyclesAreRaced` | `OrgSpec => []CyclesAreRaced` | see below |
| `OrgTree_proofs!OrgOrphansCameLate` | `OrgSpec => OrphansCameLate` | see below |
| `OrgTree_proofs!OrgStrippedCameLate` | `OrgSpec => StrippedCameLate` | the same invariant |
| `OrgTree_proofs!OrgTreeWithoutRaces` | finitely many nodes, at most `MaxClimb`: `OrgSpec /\ []MovesInTurn => []Acyclic` | see below |
| `Login_proofs!LinksAreSpentOnce` | `LinkSpec => []SpentLinksAreDead` | see below |
| `Login_proofs!LinksWork` | `LinkSpec => []MailedLinksWork` | the same invariant |
| `Login_proofs!LoginsAreListed` | `SessionSpec => []AcceptedAreListed` | see below |
| `Login_proofs!BurstsAreBounded` | `ThrottleSpec => []BurstBounded` | see below |
| `Login_proofs!RefusalsAreEarned` | `ThrottleSpec => []RefusalsEarned` | the same invariant |
| `Storage_proofs!CopiesWhole` | `SyncSpec => []CopiesAreWhole` | see below |
| `Storage_proofs!CopiesReplaced` | `SyncSpec => []CopiesReplace` | the same invariant |
| `Storage_proofs!AcknowledgedServed` | `FileSpec => []AcknowledgedAreServed` | see below |
| `Storage_proofs!RefusedCleaned` | `FileSpec => []RefusedUploadsLeaveNothing` | the same invariant |
| `Storage_proofs!UpdatesHold` | `FileSpec => []UpdatesTakeHold` | the same invariant |
| `Storage_proofs!CopiesAcknowledged` | `ReplicaSpec => []AcknowledgedCopies` | see below |
| `Storage_proofs!DownloadsCurrent` | `ReplicaSpec => DownloadsAreCurrent` | the same invariant |
| `BackOffice_proofs!BackOfficeIsItsParts` | `MCSpec` implies the specifications of its seven components | see below |
| `BackOffice_proofs!BackOfficeTypes` | `MCSpec => []BackOfficeTypeOK` | from it, and each component's own invariant |

*Sessions.* The properties speak of accepted tokens, and whether a step makes one
acceptable cannot be judged from them alone: one has to know what the marker
covers and until when. The inductive invariant adds to `TypeOK`
`MarkersSound` (a marker is never ahead of `revokedAt`, that never ahead of the
clock, and the key of a revoked user lasts `RevocationTTL` past `revokedAt`),
`TokensSound` (no token is from the future, in seconds or in changes),
`RequestsSound` (what a request took down is not ahead of what it took it from; of
a request between its clock reading and its SET, every token born before the
change has an `iat` of at most the reading; of a tenant request, every account
is still to be revoked or was revoked since it began) and `SettledSound` (tokens
born before a settled change have an `iat` of at most `revokedAt`). The expiry of a
token then comes before that of the marker by `TimesAssumption`
(`RevocationTTL > TokenLifetime`): the code has 30 days, longer on purpose
(`middleware/session_guard.rs:31-34`), and the configurations sign for 7.

*Dictionaries.* `CountsSound` bounds the histories by the number of changes;
`KeysInHand` says that a writer about to delete holds every key that was stored
before its target, which is why keys stored in between do not matter.

*Jobs.* `LockHeld` says that a worker's job is in the processing set unless a tool
seized it. `ExclusiveRun` is not inductive without it: the pop refuses an id only
because it finds it in the set. `Tracked` adds to `NoJobVanishes` what a record
that is new, released or being deleted says about the list and the set.
`StartsAreAccounted` counts: `Backed` says that the credit of a job (how often it was
queued and not taken out) covers its occurrences in the list and each worker that
has popped it and not decided; the lemmas before it are about the number of
occurrences in a sequence after an append, a tail, or the removal of one element.

*SQL queue.* `SelectionLocks` says that a row which an open transaction has selected is
queued and selected by nobody else, since every writer waits for it; `HeldIsMarked`
that a job in a worker's hands is `processing` or was requeued or deleted. With
them each step is one of `Queue`'s or changes nothing that the mapping sees.

*Trees.* `ClimbsSound` says that a climb which no other move crossed has been through
ancestors of the new parent and has not met the node to be moved. Then a set of
nodes that only point at each other cannot arise by an uncrossed move: such a set
would contain the climb's whole way, and the way ended at a root. `RemovalsSound`
says that the children (holders) of what is about to be removed are all `late`.
`OrgTreeWithoutRaces` is the other side of it. While moves come in turn, the tree under
a climb changes only by creations and removals, which put no node above another;
`MovesSound` follows the climb: the nodes it has visited are distinct, as many as its
steps, and what is above it is closed under parents and disjoint from them. A climb as
long as there are nodes thus ends at a root, the set `Above` it then excludes the
node to be moved, and the write keeps `Acyclic`.

*Counters.* The invariant says of the requests of a window that their numbers are
1 up to the counter's value, at most `Budget` of them passed, and that windows do
not overlap. A span of a window's length meets two windows at most, and of the older
one not the request that began it unless it misses the newer: the pairs of a window and a
number that are left are less than twice the budget. A refusal finds numbers 1 to
`Budget` of its own window among the passed and the lost.

*The instance is its parts.* `MCSpec` moves one component and leaves the others
in their initial states. `BackOfficeIsItsParts` shows that each component, moved or
not, behaves as its specification says, from initial states of it: nothing that is
proved of a component is lost in the composition, and what TLC explores are
behaviours of the specifications. The forests of `MCInit` need an argument of their
own, by well-founded induction on the least node of a set closed under parents.

*Links.* `FoundSound` says that the column holds the link a redemption found, none, or
one that was stored since; `NewestKept` that the newest link is in the column, was
used or was outrun. *Copies.* `FreshSound` and `DoomedSound` say what the open
transactions have inserted and found: all copies of another run or none of them;
`MissedSound` that a full run which missed another has it in `met`. *Files.*
`HandlesSound` says that a sound handle denotes what the next one will, `NamesApart` that
the names of an upload are nobody else's, `UploadsSound` that what an upload wrote is
noted, `RowsSound` that there is one row at most without `twins`.

*Session rows.* `ListedSound` says that a row was inserted no earlier than its token was
signed, so that the task deletes it no earlier than its life after; `EndersSound`
that only a logout between its deletion and its SET has deleted rows in mind, and that
their tokens were signed by the second it has read. Its marker then covers them, and
what a later marker no longer covers is `undone`.

*Replicas.* `PlainSound` counts: among the secondaries that an upload or deletion has
been at, no more than its errors differ from the primary. `TwofoldSound` says that a
copy or rename without errors, of what was the same everywhere (`Alike`), has left the
same behind it and finds the same before it. `ApartSound` keeps the paths of a request
that met no other one out of reach of the others, and `SureSound` the acknowledged
ones. 

*Promises.* What the violated runs refute is often nearly kept, and the theorems say by
how little it is not. Each adds to the specification that the one cause which the run
shows does not happen, and proves the promise as the comment or document states it:

* `RevokedRejectedInTurn`: of one user, at most one request is between reading the clock
  and storing the marker. The marker is then the last completed revocation
  (`MarkersExact`), and no reading waits that is older (`StampsAhead`).
* `GrantsCurrentInTurn`: no change commits while a login is between its queries and its
  signature. It follows at once from the step that signs, and is there to say that
  nothing else makes stale grants.
* `RoleChangesWhenLookupsSucceed`: the two queries for the holders of a role return them.
  The holders are then revoked or still to be (`HoldersSound`). For the changes whose
  lookups report their errors the same invariant needs no assumption, which is
  `SuccessMeansRevoked`.
* `RunsOnceWithoutRequeue`: nobody runs the requeue command. A job then has one credit in
  its life, and until it is spent nobody has run the job and nothing has taken the
  arguments from its record (`OnceInv`, on top of `Backed`).
* `CancelSparesRunningAlone`: no worker has a job between its reading by a cancellation
  and its marking. With one credit per job, one LREM removes the id for good
  (`DroppedIsGone`), so that nobody can pop what is marked (`CancelSound`).
* `FreshWithoutOverlap`: no list is filled while somebody writes or clears, Redis
  does not fail, a dictionary's commit is followed by its clear. The cache only shrinks
  under a writer then: a clear has in hand all there is, an entry commits to an empty
  cache, and a list can be stale only while a clear is due (`Fed`). Writers among
  themselves, the order of commit and clear, and creations without a clear need no
  assumption.
* `LockRowOnlyUnflushed` is the safety behind `Served` and `FlushedQueueServes`: the lock
  row of SQLite is there for good unless the queue is to be flushed, and otherwise only
  between a setup and its clear.

TLC finds behaviours of these assumptions in which the guarded steps happen: jobs run,
are cancelled, skipped and abandoned without a requeue, lists are stored and cleared.

Assumptions beyond those of the constants: one clock for the application servers
and Redis, Redis commands and scripts atomic, Postgres transactions atomic and
each statement reading what is committed.

Left to model checking: liveness (`EventuallyFresh`, `Served`), which the prover
cannot do. Every other property of a passing run is stated by a theorem. The violated
properties have no proof without the assumptions above; `FlushedQueueServes` is liveness.

## 6. Not modelled

Parts listed as not modelled in `PROJECT.json`, for the reasons given there. Inside
the modelled parts:

* Sessions: failed-login lockout, captcha, registration (also while
  a tenant is being disabled), creation of accounts, several roles and several
  tenants, clocks that differ between servers.
* Dictionaries: several tenants; a clear is for all of them, and one tenant
  sees the others' clears as the op `"clear"`.
* Jobs: `interval` (the Redis enqueue never sets it), records that cannot be read,
  `clear_by_status`, `clear_jobs_older_than`, the FLUSHDB of `clear`, the scan of
  `failed:*` keys that nothing writes, several queue names, and the set
  `cancelled:<name>`, which decides nothing.
* SQL queues: `dump` and `import` of jobs as files, names shared by several jobs, the
  age of rows beyond that of requeue.
* Trees: names, codes, leaders, positions, and the sessions of accounts that go with
  their department: no marker is written for them, and the middleware does not ask
  whether the account is still there.
* Links: several accounts, the creation of an account, the captcha.
* Stores: the contents of buckets and paths outside of the requests, listing.
* Copies: the validation of names, CRUD of sources, the API source, which is a stub.
* Files: the size and the type of a file beyond "refused", the test of a connection.
* `SessionRows`, `Throttle`, `Replicas`: several users, addresses, or groups of stores; each is
  one instance of many that share nothing.

What remains unmodelled is CRUD of one statement per request, presentation, code
generation, and the parts of the loco framework that configure and wire a
process: they are a large share of the lines and hold no protocol of the
application. The permission model (who may see which rows) is a function of the
assignments read per request.

## 7. Plan

1. Done: `SessionGuard`, `DictCache`, `JobQueue`; `Queue` and `SqlQueue` with the refinement;
   the seven components of `BackOffice`; proofs of every safety property of the passing
   runs, and of what the violated promises need to be kept.
2. Proofs: a refinement of what `JobQueue` keeps of `Queue`, with duplicates, and of all of
   it without a requeue; `TenantEndRevokesFirst` without its exception, from `StampsInTurn`.
3. The Redis queue's `clear_by_status`, `clear_jobs_older_than` and FLUSHDB while workers run;
   liveness of its workers.
4. Scheduled tasks: triggers that overlap, logs after runs; the data scope as a function
   checked against reachability in `OrgTree`; the lockout after failed logins.
5. `SessionGuard` with creation and removal of accounts, so that the department that takes
   its accounts along meets their tokens.

## 8. Findings

Each is a run with `expect: violation`; TLC prints the steps.

* *Markers can go back.* `revoke_user` reads the clock and then replaces the marker
  unconditionally. Two concurrent revocations store in the other order, and tokens
  issued between the two seconds are accepted again
  (`SessionGuard_RevokedTokensRejected`; `middleware/session_guard.rs:29`).
* *A login can outlive a change of grants.* Roles and menus are read before `iat` is
  stamped; a change and its revocation fit in between
  (`SessionGuard_NoStaleGrants`; `controllers/users.rs:381-384`).
* *A role edit can succeed without revoking.* A failed query for the holders is
  taken for no holders (`SessionGuard_RoleChangeForcesLogin`;
  `controllers/roles.rs:171-172` and 290).
* *Entries are invalidated too early.* The clear precedes the write, so that nothing
  clears after the commit. In the run a reader has loaded the old list before the writer
  begins, stores it after the writer's clear has found no key, and the commit follows:
  the old list is served until it expires. A reader that misses after the
  clear and before the commit does the same (`DictCache_NoStaleLists`;
  `controllers/dictionary_entries.rs:118-119`).
* *Cancel marks running jobs.* The record of a running job says queued and the
  result of LREM is not looked at (`JobQueue_CancelSparesRunning`;
  `bgworker/redis.rs:825-827`).
* *A requeued job may have lost its arguments.* `fail_job` stores the error in their
  place before it releases the id. In the run a requeue by age takes the id from a worker that
  has read the record to fail it, and saves the record; the worker's failed record overwrites
  that, and the requeue pushes the id. Nobody stops (`JobQueue_RunsWithArguments`;
  `bgworker/redis.rs:721-725`).
* *A flushed SQLite queue serves nothing.* `clear` deletes the row of the lock table that
  `dequeue` must update, and only `setup`, which came before, inserts it
  (`SqlQueue_FlushedQueueServes`; `bgworker/mod.rs:654-697`, `bgworker/sqlt.rs:480-494`).

Disagreements between code and documentation that were met while modelling, and
that have no run of their own because the models follow the code:

* The mirror strategy says it goes on after a failing secondary
  (`storage/strategies/mirror.rs:12-14`); rename, copy and the upload from a stream stop
  at the first verdict.
* The backup strategy fails under `CountFailure(k)` as soon as there are `k` errors, where
  it says that it allows `k` (`storage/strategies/backup.rs:39-41`), and under
  `AtLeastOneFailure` with two errors, however many stores succeed (17-18).
  `AcknowledgedCopies` is about what the code and its tests (471-540) do: fewer than `k`.
* Session rows are said to be cleaned after 24 hours (`models/user_sessions.rs:10`,
  `tasks/cleanup_sessions.rs:18`); the task compares `expires_at`, which is 24 hours
  after the login, with a day ago: 48. `AcceptedAreListed` asks for no more than 24.
* An empty source in full mode leaves the target as it was unless the columns are
  configured; with two overlapping full runs the one that read earlier may be the
  one that stays.
