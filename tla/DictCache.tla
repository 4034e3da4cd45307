----------------------------- MODULE DictCache -----------------------------
(***************************************************************************)
(* The cache of dictionary options.  A read of the options of a code       *)
(* (dictionary_entries.rs, options) goes to Redis first and on a miss runs *)
(* two queries and stores the list with an expiry.  Writers do not touch   *)
(* single keys: they enumerate every key of the scope and delete what they *)
(* saw.  Writers of a dictionary do it after their commit, writers of an   *)
(* entry before it, and both ignore an error of Redis.  Nothing orders a   *)
(* reader's queries and its later SET against a writer's commit and clear. *)
(*                                                                         *)
(* One tenant: the scope is shared by all, and a clear empties it for all. *)
(* `list` is the content of a list; equal names mean equal content.        *)
(***************************************************************************)
EXTENDS Integers, FiniteSets

CONSTANTS
    Dicts,         \* rows of dictionaries, unborn ones included
    Codes,         \* dictionary codes, the names the lists are cached under
    Readers,       \* requests for options
    Writers,       \* requests that write or clear
    NoCode,        \* no code
    NoDict,        \* no dictionary
    CacheTTL,      \* expiry of a cached list, in ticks
    RedisMayFail,  \* whether a command of a request may fail
    MaxChanges     \* bound on the number of commits

ASSUME TTLAssumption == CacheTTL \in Nat \ {0}
ASSUME NullsAssumption == NoCode \notin Codes /\ NoDict \notin Dicts
ASSUME RedisAssumption == RedisMayFail \in BOOLEAN
ASSUME ChangesAssumption == MaxChanges \in Nat

VARIABLES
    row,      \* dictionary -> unborn, live or deleted
    code,     \* dictionary -> its code
    items,    \* dictionary -> its list of entries, named by the change that made it
    cache,    \* Redis: code -> cached list and what is left of its expiry
    reader,   \* local state of each reader
    writer,   \* local state of each writer
    changes,  \* number of commits
    settled   \* history: latest change that a completed clear is responsible for

vars == << row, code, items, cache, reader, writer, changes, settled >>
db == << row, code, items, changes >>

Later(a, b) == IF a < b THEN b ELSE a

\* The list of a dictionary without entries, and of a code without dictionary.
Empty == 0

Live == {d \in Dicts : row[d] = "live"}

\* What a read of the database returns for a code; codes of live rows are unique.
Current(c) ==
    IF \E d \in Live : code[d] = c
    THEN items[CHOOSE d \in Live : code[d] = c]
    ELSE Empty

\* stored: history, the number of commits when the list was stored.
CacheEntry == [list : Nat, left : 0 .. CacheTTL, stored : Nat]
NotCached == [list |-> Empty, left |-> 0, stored |-> 0]

Cached(c) == cache[c].left > 0
CachedCodes == {c \in Codes : Cached(c)}

ReaderState ==
    [ pc : {"idle", "missed", "found", "loaded"}, code : Codes \cup {NoCode},
      dict : Dicts \cup {NoDict}, list : Nat ]
NoRead == [pc |-> "idle", code |-> NoCode, dict |-> NoDict, list |-> Empty]

ReaderBecomes(q, state) == reader' = [reader EXCEPT ![q] = state]

\* clear: enumerate the keys; delete: delete those seen; write: commit the entry.
\* target: history, the changes made by the time the clear was due.
WriterState ==
    [ pc : {"idle", "clear", "delete", "write"}, op : {"none", "entry", "dictionary", "clear"},
      keys : SUBSET Codes, target : Nat ]
NoWrite == [pc |-> "idle", op |-> "none", keys |-> {}, target |-> 0]

WriterBecomes(w, state) == writer' = [writer EXCEPT ![w] = state]
Clearing(op, target) == [pc |-> "clear", op |-> op, keys |-> {}, target |-> target]

\* Where a request goes once its clear is over, done or failed.
AfterClear(w) ==
    IF writer[w].op = "entry" THEN [NoWrite EXCEPT !.pc = "write", !.op = "entry"] ELSE NoWrite

TypeOK ==
    /\ row \in [Dicts -> {"unborn", "live", "deleted"}]
    /\ code \in [Dicts -> Codes]
    /\ items \in [Dicts -> Nat]
    /\ cache \in [Codes -> CacheEntry]
    /\ reader \in [Readers -> ReaderState]
    /\ \A q \in Readers :
          /\ reader[q].pc # "idle" => reader[q].code \in Codes
          /\ reader[q].pc = "found" => reader[q].dict \in Dicts
    /\ writer \in [Writers -> WriterState]
    /\ changes \in Nat
    /\ settled \in Nat
    /\ \A d, e \in Live : code[d] = code[e] => d = e

Init ==
    /\ row \in [Dicts -> {"unborn", "live"}]
    /\ code \in [Dicts -> Codes]
    /\ \A d, e \in Live : code[d] = code[e] => d = e
    /\ items = [d \in Dicts |-> Empty]
    /\ cache = [c \in Codes |-> NotCached]
    /\ reader = [q \in Readers |-> NoRead]
    /\ writer = [w \in Writers |-> NoWrite]
    /\ changes = 0
    /\ settled = 0

\* Redis counts every expiry down.
Tick ==
    /\ CachedCodes # {}
    /\ cache' = [c \in Codes |-> IF cache[c].left > 1
                                 THEN [cache[c] EXCEPT !.left = @ - 1]
                                 ELSE NotCached]
    /\ UNCHANGED << reader, writer, db, settled >>

-----------------------------------------------------------------------------
(* options: the cache, the row of the dictionary, its entries, the cache.  *)

\* Mutant: a hit prolongs the list it serves.
Hit_Sliding(q, c) ==
    /\ reader[q].pc = "idle"
    /\ Cached(c)
    /\ cache' = [cache EXCEPT ![c].left = CacheTTL]
    /\ UNCHANGED << reader, writer, db, settled >>

\* Answered from Redis, in one command that changes nothing.
Hit(q, c) ==
    /\ reader[q].pc = "idle"
    /\ Cached(c)
    /\ UNCHANGED vars

\* A failed GET counts as a miss.
Miss(q, c) ==
    /\ reader[q].pc = "idle"
    /\ ~Cached(c) \/ RedisMayFail
    /\ ReaderBecomes(q, [NoRead EXCEPT !.pc = "missed", !.code = c])
    /\ UNCHANGED << cache, writer, db, settled >>

FindDictionary(q) ==
    /\ reader[q].pc = "missed"
    /\ \E d \in Live :
          /\ code[d] = reader[q].code
          /\ ReaderBecomes(q, [reader[q] EXCEPT !.pc = "found", !.dict = d])
    /\ UNCHANGED << cache, writer, db, settled >>

\* An unknown code has an empty list, cached like any other.
FindNothing(q) ==
    /\ reader[q].pc = "missed"
    /\ \A d \in Live : code[d] # reader[q].code
    /\ ReaderBecomes(q, [reader[q] EXCEPT !.pc = "loaded"])
    /\ UNCHANGED << cache, writer, db, settled >>

\* By the id found: the code may have moved on, and a deleted dictionary has
\* no entries left.
LoadEntries(q) ==
    /\ reader[q].pc = "found"
    /\ ReaderBecomes(q, [reader[q] EXCEPT !.pc = "loaded", !.dict = NoDict,
                                          !.list = items[reader[q].dict]])
    /\ UNCHANGED << cache, writer, db, settled >>

\* SET_EX: replaces whatever another reader stored since the miss.
StoreList(q) ==
    /\ reader[q].pc = "loaded"
    /\ cache' = [cache EXCEPT ![reader[q].code] =
                     [list |-> reader[q].list, left |-> CacheTTL, stored |-> changes]]
    /\ ReaderBecomes(q, NoRead)
    /\ UNCHANGED << writer, db, settled >>

\* A query fails, the client leaves, or the SET fails, which is only logged.
ReaderLeaves(q) ==
    /\ reader[q].pc # "idle"
    /\ ReaderBecomes(q, NoRead)
    /\ UNCHANGED << cache, writer, db, settled >>

-----------------------------------------------------------------------------
(* Writers of dictionaries: commit, then clear.                            *)

\* Mutant: the unique index on the code and the tenant is not there.
CodeIsFree_NoIndex(c) == c \in Codes

CodeIsFree(c) == \A d \in Live : code[d] # c

\* A new row: no clear.
CreateDictionary(d, c) ==
    /\ row[d] = "unborn"
    /\ CodeIsFree(c)
    /\ changes < MaxChanges
    /\ row' = [row EXCEPT ![d] = "live"]
    /\ code' = [code EXCEPT ![d] = c]
    /\ changes' = changes + 1
    /\ UNCHANGED << items, cache, reader, writer, settled >>

\* A rename.  An update that keeps the code changes no list and clears: StartClear.
UpdateDictionary(w, d, c) ==
    /\ writer[w].pc = "idle"
    /\ d \in Live
    /\ CodeIsFree(c)
    /\ changes < MaxChanges
    /\ code' = [code EXCEPT ![d] = c]
    /\ changes' = changes + 1
    /\ WriterBecomes(w, Clearing("dictionary", changes'))
    /\ UNCHANGED << row, items, cache, reader, settled >>

\* The foreign key deletes the entries with the row.
RemoveDictionary(w, d) ==
    /\ writer[w].pc = "idle"
    /\ d \in Live
    /\ changes < MaxChanges
    /\ row' = [row EXCEPT ![d] = "deleted"]
    /\ items' = [items EXCEPT ![d] = Empty]
    /\ changes' = changes + 1
    /\ WriterBecomes(w, Clearing("dictionary", changes'))
    /\ UNCHANGED << code, cache, reader, settled >>

-----------------------------------------------------------------------------
(* Writers of entries: clear, then commit.  The cache page and the sync    *)
(* job clear and do nothing else.                                          *)

StartClear(w, op) ==
    /\ writer[w].pc = "idle"
    /\ op \in {"entry", "clear"}
    /\ WriterBecomes(w, Clearing(op, changes))
    /\ UNCHANGED << cache, reader, db, settled >>

\* An entry is created, edited, moved to another dictionary or removed.
WriteEntry(w, touched) ==
    /\ writer[w].pc = "write"
    /\ touched # {} /\ touched \subseteq Live
    /\ Cardinality(touched) <= 2
    /\ changes < MaxChanges
    /\ items' = [d \in Dicts |-> IF d \in touched THEN changes + 1 ELSE items[d]]
    /\ changes' = changes + 1
    /\ WriterBecomes(w, NoWrite)
    /\ UNCHANGED << row, code, cache, reader, settled >>

\* No such row, a failed query, or the client left.
WriterLeaves(w) ==
    /\ writer[w].pc # "idle"
    /\ WriterBecomes(w, NoWrite)
    /\ UNCHANGED << cache, reader, db, settled >>

-----------------------------------------------------------------------------
(* delete_by_prefix: the keys are enumerated, then deleted.                *)

\* Mutant: one reply of SCAN is taken for the whole enumeration.
ScanKeys_FirstPage(w) ==
    /\ writer[w].pc = "clear"
    /\ \E page \in SUBSET CachedCodes :
          /\ CachedCodes # {} => Cardinality(page) = 1
          /\ WriterBecomes(w, [writer[w] EXCEPT !.pc = "delete", !.keys = page])
    /\ UNCHANGED << cache, reader, db, settled >>

\* The iteration of SCAN returns at least the keys that are there throughout.  It
\* ends alike after the last key and on an error: what was seen by then is taken
\* for everything, and such a clear is responsible for nothing.
ScanKeys(w) ==
    /\ writer[w].pc = "clear"
    /\ \E seen \in SUBSET CachedCodes :
          /\ seen = CachedCodes \/ RedisMayFail
          /\ WriterBecomes(w, [writer[w] EXCEPT !.pc = "delete", !.keys = seen,
                                  !.target = IF seen = CachedCodes THEN @ ELSE 0])
    /\ UNCHANGED << cache, reader, db, settled >>

\* One DEL of the keys seen; a list stored since under one of them goes too.
DeleteKeys(w) ==
    /\ writer[w].pc = "delete"
    /\ cache' = [c \in Codes |-> IF c \in writer[w].keys THEN NotCached ELSE cache[c]]
    /\ settled' = Later(settled, writer[w].target)
    /\ WriterBecomes(w, AfterClear(w))
    /\ UNCHANGED << reader, db >>

\* `let _`: an error of Redis is dropped and the request goes on.
ClearFails(w) ==
    /\ RedisMayFail
    /\ writer[w].pc \in {"clear", "delete"}
    /\ WriterBecomes(w, AfterClear(w))
    /\ UNCHANGED << cache, reader, db, settled >>

-----------------------------------------------------------------------------
Fill(q) ==
    \/ FindDictionary(q)
    \/ FindNothing(q)
    \/ LoadEntries(q)
    \/ StoreList(q)
    \/ ReaderLeaves(q)

ReaderNext(q) ==
    \/ \E c \in Codes : Hit(q, c) \/ Miss(q, c)
    \/ Fill(q)

WriterNext(w) ==
    \/ \E d \in Dicts, c \in Codes : UpdateDictionary(w, d, c)
    \/ \E d \in Dicts : RemoveDictionary(w, d)
    \/ \E op \in {"entry", "clear"} : StartClear(w, op)
    \/ \E touched \in SUBSET Dicts : WriteEntry(w, touched)
    \/ WriterLeaves(w)
    \/ ScanKeys(w)
    \/ DeleteKeys(w)
    \/ ClearFails(w)

Next ==
    \/ Tick
    \/ \E d \in Dicts, c \in Codes : CreateDictionary(d, c)
    \/ \E q \in Readers : ReaderNext(q)
    \/ \E w \in Writers : WriterNext(w)

Spec == Init /\ [][Next]_vars

\* Time passes, and a read that has begun ends: its queries answer or fail.
\* No writer is assumed to get anywhere, and no reader to come.
Fairness ==
    /\ WF_vars(Tick)
    /\ \A q \in Readers : WF_vars(Fill(q))

FairSpec == Spec /\ Fairness

-----------------------------------------------------------------------------
(* What must hold.                                                         *)

\* A clear that completed, not cut short by an error of Redis, left nothing behind
\* of what was stored before the change it is responsible for: the writer's own
\* commit for a dictionary, the commits before it started for an entry or for the
\* cache page.
ClearIsComplete ==
    \A c \in Codes : Cached(c) => cache[c].stored >= settled

\* Whatever raced with the writers, failed in Redis or was cleared too soon,
\* the cache comes to agree with the database for good once the commits end.
EventuallyFresh ==
    <>[](\A c \in Codes : Cached(c) => cache[c].list = Current(c))

-----------------------------------------------------------------------------
(* What a comment of the code promises and the code does not keep.         *)

\* dictionary_entries.rs: writes invalidate the whole scope so no stale list is
\* served.  With no request in progress, a cached list is the current one.
AtRest ==
    /\ \A q \in Readers : reader[q].pc = "idle"
    /\ \A w \in Writers : writer[w].pc = "idle"

NoStaleLists ==
    AtRest => \A c \in Codes : Cached(c) => cache[c].list = Current(c)

=============================================================================
