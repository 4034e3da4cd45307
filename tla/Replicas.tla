------------------------------ MODULE Replicas ------------------------------
(***************************************************************************)
(* The storage strategies of the framework.  An operation is done on the   *)
(* primary store, whose error ends it, and then on one secondary after     *)
(* another; the failure mode decides from the number of errors whether the *)
(* whole is an error.  Backup always goes through all secondaries; mirror  *)
(* stops at the first verdict in rename, copy and upload from a stream,    *)
(* and its downloads try the secondaries when the primary has nothing,     *)
(* those of a stream then the primary once more.                           *)
(*                                                                         *)
(* An operation that a store answers with an error may have been done, and *)
(* a rename of a store without renames is a copy and then a delete.        *)
(***************************************************************************)
EXTENDS Integers, FiniteSets

CONSTANTS
    Paths,        \* names of objects
    Requesters,   \* requests; an upload stores its request's name
    Old, Absent,  \* what was there before, and nothing
    Backups,      \* number of secondaries; the primary is store 0
    FailureCount, \* of FailureMode::CountFailure
    MaxFaults     \* bound on errors of stores

ASSUME PathsAssumption == Paths # {}
ASSUME FaultsAssumption == MaxFaults \in Nat
ASSUME BackupsAssumption == Backups \in Nat \ {0}
ASSUME FailureCountAssumption == FailureCount \in Nat

VARIABLES
    failureMode,  \* the strategy and its failure mode
    object,       \* what each store holds under each path
    req,          \* local state of each request
    faults,       \* how many errors there were
    sure          \* history: paths of which the last writer was acknowledged, and met no other

replicaVars == << failureMode, object, req, faults, sure >>

Replicated == 0 .. Backups
Contents == Requesters \cup {Old, Absent}
MirrorModes == {"MirrorAll", "AllowMirrorFailure"}
Modes == MirrorModes \cup
         {"Single", "BackupAll", "AllowBackupFailure", "AtLeastOneFailure", "CountFailure"}
\* download and download_stream; "stream" is upload_stream.
Reads == {"download", "fetch"}
Operations == {"upload", "stream", "delete", "copy", "rename"} \cup Reads

\* store: the one whose turn it is; got: the result of a download.
RequestState ==
    [ op : Operations, pc : {"idle", "work", "retry", "ok", "error"}, from : Paths,
      to : Paths, store : Replicated, errors : 0 .. Backups, crossed : BOOLEAN, clear : BOOLEAN,
      got : Contents ]

ReplicaTypeOK ==
    /\ failureMode \in Modes
    /\ object \in [Replicated -> [Paths -> Contents]]
    /\ req \in [Requesters -> RequestState]
    /\ faults \in 0 .. MaxFaults
    /\ sure \subseteq Paths

NoRequest ==
    [ op |-> "download", pc |-> "idle", from |-> CHOOSE p \in Paths : TRUE,
      to |-> CHOOSE p \in Paths : TRUE, store |-> 0, errors |-> 0, crossed |-> FALSE,
      clear |-> FALSE, got |-> Absent ]

ReplicaInit ==
    /\ failureMode \in Modes
    /\ \E initial \in [Paths -> {Old, Absent}] : object = [s \in Replicated |-> initial]
    /\ req = [r \in Requesters |-> NoRequest]
    /\ faults = 0
    /\ sure = Paths

-----------------------------------------------------------------------------
(* FailureMode::should_fail, and the order of an operation.                *)

\* Mutant: off by one, every mode lets one secondary more fail.
ShouldFail_OneMore(errors) ==
    CASE failureMode \in {"MirrorAll", "BackupAll"} -> errors > 1
      [] failureMode = "AtLeastOneFailure" -> errors > 2
      [] failureMode = "CountFailure" -> FailureCount < errors
      [] OTHER -> FALSE

ShouldFail(errors) ==
    CASE failureMode \in {"MirrorAll", "BackupAll"} -> errors > 0
      [] failureMode = "AtLeastOneFailure" -> errors > 1
      [] failureMode = "CountFailure" -> FailureCount <= errors
      [] OTHER -> FALSE

Last == IF failureMode = "Single" THEN 0 ELSE Backups

\* The verdict is asked for inside the loop, and not only after it.
StopsEarly(op) == failureMode \in MirrorModes /\ op \in {"stream", "copy", "rename"}

Fails(s, errors) ==
    IF s.store = 0 THEN errors > 0
    ELSE (StopsEarly(s.op) \/ s.store = Last) /\ ShouldFail(errors)

\* The request after its turn at a store, with so many errors by then.
AfterTurn(s, errors) ==
    IF Fails(s, errors) THEN [s EXCEPT !.errors = errors, !.pc = "error"]
    ELSE IF s.store = Last THEN [s EXCEPT !.errors = errors, !.pc = "ok"]
    ELSE [s EXCEPT !.errors = errors, !.store = @ + 1]

-----------------------------------------------------------------------------

WrittenBy(s) ==
    CASE s.op \in Reads -> {}
      [] s.op = "rename" -> {s.from, s.to}
      [] OTHER -> {s.to}
Uses(s) == {s.from, s.to}
Strict == failureMode \in {"Single", "MirrorAll", "BackupAll"}
          \/ (failureMode = "CountFailure" /\ FailureCount <= 1)

\* Two requests that use a path one of them writes.
Meet(s, t) == (WrittenBy(s) \cap Uses(t)) \cup (WrittenBy(t) \cap Uses(s)) # {}
Others(r) == {q \in Requesters \ {r} : req[q].pc = "work"}

StartRequest(r, op, from, to) ==
    LET s == [ NoRequest EXCEPT !.op = op, !.pc = "work", !.from = from, !.to = to,
                                !.clear = from \in sure ]
        met == {q \in Others(r) : Meet(s, req[q])}
    IN
    /\ req[r].pc = "idle"
    /\ op \in {"copy", "rename"} <=> from # to
    /\ req' = [q \in Requesters |->
                  IF q = r THEN [s EXCEPT !.crossed = (met # {})]
                  ELSE IF q \in met THEN [req[q] EXCEPT !.crossed = TRUE]
                  ELSE req[q]]
    /\ sure' = sure \ WrittenBy(s)
    /\ UNCHANGED << failureMode, object, faults >>

\* An object as the operation leaves it; a copy or rename of nothing is an error.
Possible(s, files) == s.op \in {"copy", "rename"} => files[s.from] # Absent
Result(r, files) ==
    LET s == req[r] IN
    CASE s.op \in {"upload", "stream"} -> [files EXCEPT ![s.to] = r]
      [] s.op = "delete" -> [files EXCEPT ![s.to] = Absent]
      [] s.op = "copy" -> [files EXCEPT ![s.to] = files[s.from]]
      [] s.op = "rename" -> [files EXCEPT ![s.to] = files[s.from], ![s.from] = Absent]

\* With the error of a store, what it was asked for may be done, or half of a rename.
Leftovers(r, files) ==
    LET s == req[r] IN
    IF ~Possible(s, files) THEN {files}
    ELSE {files, Result(r, files)} \cup
         (IF s.op = "rename" THEN {[files EXCEPT ![s.to] = files[s.from]]} ELSE {})

\* What the acknowledgement of an operation vouches for.
Vouches(r, after) ==
    LET s == req[r] IN
    IF /\ after.pc = "ok" /\ ~s.crossed
       /\ s.op \in {"copy", "rename"} => (Strict /\ s.clear)
    THEN sure \cup WrittenBy(s) ELSE sure

Turn(r, files, errors) ==
    LET s == req[r]  after == AfterTurn(s, errors) IN
    /\ object' = [object EXCEPT ![s.store] = files]
    /\ req' = [req EXCEPT ![r] = after]
    /\ sure' = Vouches(r, after)
    /\ UNCHANGED failureMode

Writing(r) == req[r].pc = "work" /\ req[r].op \notin Reads

StoreDoes(r) ==
    LET files == object[req[r].store] IN
    /\ Writing(r)
    /\ \/ /\ Possible(req[r], files)
          /\ Turn(r, Result(r, files), req[r].errors)
       \/ /\ ~Possible(req[r], files)
          /\ Turn(r, files, req[r].errors + 1)
    /\ UNCHANGED faults

StoreErrs(r) ==
    /\ Writing(r)
    /\ faults < MaxFaults
    /\ faults' = faults + 1
    /\ \E files \in Leftovers(r, object[req[r].store]) : Turn(r, files, req[r].errors + 1)

\* Where a read goes when a store has nothing or errs: a mirror asks store after store.
AfterMiss(s) ==
    CASE failureMode \in MirrorModes /\ s.store < Last -> [s EXCEPT !.store = @ + 1]
      [] failureMode \in MirrorModes /\ s.store = Last /\ s.op = "fetch" ->
             [s EXCEPT !.pc = "retry"]
      [] OTHER -> [s EXCEPT !.pc = "error"]

\* A store answers with the object, or has none, or errs.
Answers(r, store, miss) ==
    LET s == req[r]  content == object[store][s.to] IN
    /\ \/ /\ content # Absent
          /\ req' = [req EXCEPT ![r] = [s EXCEPT !.pc = "ok", !.got = content]]
          /\ UNCHANGED faults
       \/ /\ \/ content = Absent /\ UNCHANGED faults
             \/ faults < MaxFaults /\ faults' = faults + 1
          /\ req' = [req EXCEPT ![r] = miss]
    /\ UNCHANGED << failureMode, object, sure >>

Download(r) ==
    /\ req[r].pc = "work"
    /\ req[r].op \in Reads
    /\ Answers(r, req[r].store, AfterMiss(req[r]))

\* download_stream of a mirror, after all: the answer of the primary, whatever it is.
RetryPrimary(r) ==
    /\ req[r].pc = "retry"
    /\ Answers(r, 0, [req[r] EXCEPT !.pc = "error"])

ReplicaNext ==
    \E r \in Requesters :
        \/ \E op \in Operations, from, to \in Paths : StartRequest(r, op, from, to)
        \/ StoreDoes(r) \/ StoreErrs(r) \/ Download(r) \/ RetryPrimary(r)

ReplicaSpec == ReplicaInit /\ [][ReplicaNext]_replicaVars

-----------------------------------------------------------------------------
(* Properties.                                                             *)

Tolerated ==
    CASE Strict -> 0
      [] failureMode = "AtLeastOneFailure" -> 1
      [] failureMode = "CountFailure" /\ ~Strict -> FailureCount - 1
      [] OTHER -> Backups

Differing(p) == {s \in 1 .. Last : object[s][p] # object[0][p]}

\* What an acknowledgement vouches for: once an operation on a path was acknowledged, and no
\* other met it, fewer secondaries differ from the primary than it takes errors for
\* should_fail (strategies/backup.rs:273-283, mirror.rs:316-322).  With CountFailure(n) that
\* is fewer than n, as the tests have it (backup.rs:471-540: of two secondaries one may
\* fail under CountFailure(2), and not both), where the variant's comment allows n.
AcknowledgedCopies == \A p \in sure : Cardinality(Differing(p)) <= Tolerated

\* A download that falls back to a secondary (strategies/mirror.rs:86-107, 218-242) does not bring
\* back what an acknowledged operation has overwritten or deleted, unless the mode lets
\* secondaries fail, or a writer of the path is under way or has failed.
DownloadsAreCurrent ==
    [][\A r \in Requesters :
        (/\ req[r].op \in Reads /\ req[r].pc \in {"work", "retry"} /\ req'[r].pc = "ok"
         /\ Strict /\ ~req[r].crossed /\ req[r].to \in sure)
            => req'[r].got = object[0][req[r].to]]_replicaVars
=============================================================================
