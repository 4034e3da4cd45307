-------------------------- MODULE DictCache_proofs --------------------------
(***************************************************************************)
(* DictCache for any number of dictionaries, codes, readers and writers:   *)
(* a clear that completed left nothing of what it was due to remove, and   *)
(* without overlap no list that is served is stale.                        *)
(***************************************************************************)
EXTENDS DictCache, TLAPS

\* Counters of commits that were taken down are never ahead of the commits.
CountsSound ==
    /\ settled <= changes
    /\ \A c \in Codes : cache[c].stored <= changes
    /\ \A w \in Writers : writer[w].target <= changes

\* Between its SCAN and its DEL a writer has in hand every list it is due to
\* remove; one that is not in its hand was stored since.
KeysInHand ==
    \A w \in Writers : writer[w].pc = "delete" =>
        \A c \in Codes : Cached(c) /\ cache[c].stored < writer[w].target
                            => c \in writer[w].keys

Inv == TypeOK /\ CountsSound /\ KeysInHand /\ ClearIsComplete

-----------------------------------------------------------------------------
\* The later of two counts is one of them and not before either.
LEMMA LaterFacts ==
    ASSUME NEW a \in Nat, NEW b \in Nat
    PROVE  /\ Later(a, b) \in Nat
           /\ a <= Later(a, b) /\ b <= Later(a, b)
           /\ Later(a, b) = a \/ Later(a, b) = b
BY DEF Later

\* A list that is not there, and a request that has not begun, are well formed.
LEMMA NullTypes ==
    /\ NotCached \in CacheEntry
    /\ NoRead \in ReaderState
    /\ NoWrite \in WriterState
    /\ \A w \in Writers : AfterClear(w) \in WriterState
<1>1. NotCached \in CacheEntry /\ NoRead \in ReaderState
  BY TTLAssumption DEF NotCached, CacheEntry, Empty, NoRead, ReaderState
<1>2. /\ NoWrite \in WriterState
      /\ [NoWrite EXCEPT !.pc = "write", !.op = "entry"] \in WriterState
  BY DEF NoWrite, WriterState
<1> QED
  BY <1>1, <1>2 DEF AfterClear

-----------------------------------------------------------------------------
\* The steps of readers keep the invariant: what they store, they store now.
LEMMA ReaderStep ==
    ASSUME Inv, NEW q \in Readers, ReaderNext(q)
    PROVE  Inv'
<1> USE NullTypes, TTLAssumption, NullsAssumption
        DEF Inv, TypeOK, CountsSound, KeysInHand, ClearIsComplete, Cached, Live, db, ReaderBecomes
<1>1. ASSUME NEW c \in Codes, Hit(q, c) PROVE Inv'
  BY <1>1 DEF Hit, vars
<1>2. ASSUME NEW c \in Codes, Miss(q, c) PROVE Inv'
  BY <1>2 DEF Miss, NoRead, ReaderState, Empty
<1>3. CASE FindDictionary(q)
  <2>1. PICK d \in Live : reader' = [reader EXCEPT ![q] =
                                [reader[q] EXCEPT !.pc = "found", !.dict = d]]
    BY <1>3 DEF FindDictionary
  <2>2. reader[q].code \in Codes /\ UNCHANGED << cache, writer, row, code, items, changes, settled >>
    BY <1>3 DEF FindDictionary
  <2>3. [reader[q] EXCEPT !.pc = "found", !.dict = d] \in ReaderState
    BY <2>1 DEF ReaderState
  <2> QED
    BY <2>1, <2>2, <2>3 DEF ReaderState
<1>4. CASE FindNothing(q)
  BY <1>4 DEF FindNothing, ReaderState
<1>5. CASE LoadEntries(q)
  BY <1>5 DEF LoadEntries, ReaderState
<1>6. CASE StoreList(q)
  <2> DEFINE e == [list |-> reader[q].list, left |-> CacheTTL, stored |-> changes]
  <2>1. reader[q].code \in Codes
    BY <1>6 DEF StoreList
  <2>2. e \in CacheEntry
    BY DEF CacheEntry, ReaderState
  <2>3. /\ cache' = [cache EXCEPT ![reader[q].code] = e]
        /\ reader' = [reader EXCEPT ![q] = NoRead]
        /\ UNCHANGED << writer, row, code, items, changes, settled >>
    BY <1>6 DEF StoreList
  <2>4. TypeOK'
    BY <2>1, <2>2, <2>3 DEF NoRead
  <2>5. (CountsSound /\ KeysInHand /\ ClearIsComplete)'
    BY <2>1, <2>3 DEF WriterState
  <2> QED BY <2>4, <2>5
<1>7. CASE ReaderLeaves(q)
  BY <1>7 DEF ReaderLeaves, NoRead
<1> QED
  BY <1>1, <1>2, <1>3, <1>4, <1>5, <1>6, <1>7 DEF ReaderNext, Fill

-----------------------------------------------------------------------------
\* The steps of writers keep the invariant: a commit leaves the lists that
\* were stored before it to the clear that follows, the clear takes them all
\* in hand, and what it deletes is at least what it is due to remove.
LEMMA WriterStep ==
    ASSUME Inv, NEW w \in Writers, WriterNext(w)
    PROVE  Inv'
<1> USE NullTypes DEF Inv, TypeOK, CountsSound, KeysInHand, ClearIsComplete,
            Cached, Live, db, WriterBecomes, Clearing
<1>1. ASSUME NEW d \in Dicts, NEW c \in Codes, UpdateDictionary(w, d, c) PROVE Inv'
  <2>1. TypeOK'
    BY <1>1 DEF UpdateDictionary, CodeIsFree, WriterState
  <2> QED
    BY <2>1, <1>1 DEF UpdateDictionary, WriterState, CacheEntry
<1>2. ASSUME NEW d \in Dicts, RemoveDictionary(w, d) PROVE Inv'
  <2>1. TypeOK'
    BY <1>2 DEF RemoveDictionary, WriterState, Empty
  <2> QED
    BY <2>1, <1>2 DEF RemoveDictionary, WriterState, CacheEntry
<1>3. ASSUME NEW op \in {"entry", "clear"}, StartClear(w, op) PROVE Inv'
  BY <1>3 DEF StartClear, WriterState
<1>4. ASSUME NEW touched \in SUBSET Dicts, WriteEntry(w, touched) PROVE Inv'
  <2>1. TypeOK'
    BY <1>4 DEF WriteEntry
  <2> QED
    BY <2>1, <1>4 DEF WriteEntry, NoWrite, WriterState, CacheEntry
<1>5. CASE WriterLeaves(w)
  BY <1>5 DEF WriterLeaves, NoWrite
<1>6. CASE ScanKeys(w)
  <2>1. PICK seen \in SUBSET CachedCodes :
           writer' = [writer EXCEPT ![w] = [writer[w] EXCEPT !.pc = "delete", !.keys = seen,
                         !.target = IF seen = CachedCodes THEN @ ELSE 0]]
    BY <1>6 DEF ScanKeys
  <2>2. UNCHANGED << cache, reader, row, code, items, changes, settled >>
    BY <1>6 DEF ScanKeys
  <2> DEFINE due == IF seen = CachedCodes THEN writer[w].target ELSE 0
             s == [writer[w] EXCEPT !.pc = "delete", !.keys = seen, !.target = due]
  <2>3. writer[w] \in WriterState /\ seen \subseteq Codes
    BY DEF CachedCodes
  <2>4. due \in Nat /\ due <= changes
    BY <2>3 DEF WriterState
  <2>5. \A c \in Codes : Cached(c) /\ cache[c].stored < due => c \in seen
    BY DEF CachedCodes, CacheEntry
  <2>6. writer' = [writer EXCEPT ![w] = s]
    BY <2>1, <2>3 DEF WriterState
  <2> HIDE DEF due
  <2>7. s \in WriterState /\ s.target = due /\ s.keys = seen
    BY <2>3, <2>4 DEF WriterState
  <2> HIDE DEF s
  <2> QED
    BY <2>2, <2>4, <2>5, <2>6, <2>7
<1>7. CASE DeleteKeys(w)
  <2>1. /\ cache' = [c \in Codes |-> IF c \in writer[w].keys THEN NotCached ELSE cache[c]]
        /\ settled' = Later(settled, writer[w].target)
        /\ writer' = [writer EXCEPT ![w] = AfterClear(w)]
        /\ writer[w].pc = "delete"
        /\ UNCHANGED << reader, row, code, items, changes >>
    BY <1>7 DEF DeleteKeys
  <2>2. /\ settled' \in Nat /\ writer[w].target \in Nat
        /\ settled' = settled \/ settled' = writer[w].target
    BY <2>1, LaterFacts DEF WriterState
  <2>3. TypeOK'
    BY <2>1, <2>2
  <2>4. AfterClear(w).target = 0 /\ AfterClear(w).pc # "delete"
    BY DEF AfterClear, NoWrite
  <2>5. CountsSound'
    BY <2>1, <2>2, <2>4 DEF NotCached, WriterState
  <2>6. \A c \in Codes : Cached(c)' =>
           c \notin writer[w].keys /\ Cached(c) /\ cache'[c] = cache[c]
    BY <2>1 DEF NotCached
  <2>7. KeysInHand'
    BY <2>1, <2>4, <2>6
  <2>8. ClearIsComplete'
    BY <2>1, <2>2, <2>6 DEF CacheEntry
  <2> QED
    BY <2>3, <2>5, <2>7, <2>8
<1>8. CASE ClearFails(w)
  <2>1. AfterClear(w).target = 0 /\ AfterClear(w).pc # "delete"
    BY DEF AfterClear, NoWrite
  <2> QED
    BY <2>1, <1>8 DEF ClearFails
<1> QED
  BY <1>1, <1>2, <1>3, <1>4, <1>5, <1>6, <1>7, <1>8 DEF WriterNext

\* Expiry and the creation of a dictionary keep the invariant.
LEMMA OtherStep ==
    ASSUME Inv
    PROVE  /\ Tick => Inv'
           /\ \A d \in Dicts, c \in Codes : CreateDictionary(d, c) => Inv'
<1> USE NullTypes DEF Inv, TypeOK, CountsSound, KeysInHand, ClearIsComplete, Cached, Live, db
<1>1. ASSUME Tick PROVE Inv'
  <2>1. /\ cache' = [c \in Codes |-> IF cache[c].left > 1
                                     THEN [cache[c] EXCEPT !.left = @ - 1]
                                     ELSE NotCached]
        /\ UNCHANGED << reader, writer, row, code, items, changes, settled >>
    BY <1>1 DEF Tick
  <2>2. \A c \in Codes : cache'[c] \in CacheEntry
    BY <2>1, TTLAssumption DEF CacheEntry
  <2>3. \A c \in Codes : /\ cache'[c].stored <= changes
                         /\ Cached(c)' => Cached(c) /\ cache'[c].stored = cache[c].stored
    BY <2>1 DEF CacheEntry, NotCached
  <2> QED
    BY <2>1, <2>2, <2>3
<1>2. ASSUME NEW d \in Dicts, NEW c \in Codes, CreateDictionary(d, c) PROVE Inv'
  <2>1. TypeOK'
    BY <1>2 DEF CreateDictionary, CodeIsFree
  <2> QED
    BY <2>1, <1>2 DEF CreateDictionary, CacheEntry, WriterState
<1> QED
  BY <1>1, <1>2

\* The invariant holds throughout.
LEMMA Invariance == Spec => []Inv
<1>1. Init => Inv
  BY NullTypes DEF Init, Inv, TypeOK, CountsSound, KeysInHand, ClearIsComplete, NotCached,
     NoRead, NoWrite, Empty, Cached, Live
<1>2. Inv /\ [Next]_vars => Inv'
  <2> SUFFICES ASSUME Inv, [Next]_vars PROVE Inv'
    OBVIOUS
  <2>1. CASE Next
    BY <2>1, ReaderStep, WriterStep, OtherStep DEF Next
  <2>2. CASE UNCHANGED vars
    BY <2>2 DEF vars, Inv, TypeOK, CountsSound, KeysInHand, ClearIsComplete, Cached, Live
  <2> QED BY <2>1, <2>2
<1> QED
  BY <1>1, <1>2, PTL DEF Spec

-----------------------------------------------------------------------------
\* Every state is well formed, and no two live dictionaries have one code.
THEOREM TypeCorrect == Spec => []TypeOK
BY Invariance, PTL DEF Inv

\* delete_by_prefix does what its callers rely on, however many of them and of
\* the readers run at once: it enumerates and deletes in two commands, and
\* still no list stored before the change it follows survives it, unless an error
\* of Redis cut the enumeration short.
THEOREM ClearComplete == Spec => []ClearIsComplete
BY Invariance, PTL DEF Inv

-----------------------------------------------------------------------------
(***************************************************************************)
(* Without overlap.  What the comment of the code promises, that no stale  *)
(* list is served, holds as long as no list is being filled while a writer *)
(* is under way, no command of Redis fails, and no writer of a dictionary  *)
(* leaves between its commit and its clear: the order in which the writers *)
(* commit and clear does not matter then, nor how many of them run.        *)
(***************************************************************************)

\* No options are being read from the database while somebody writes or clears.
NoOverlap ==
    (\E w \in Writers : writer[w].pc # "idle") => \A q \in Readers : reader[q].pc = "idle"

\* A dictionary that was written is cleared.
ClearsRun == \A w \in Writers : writer[w].op = "dictionary" => ~WriterLeaves(w)

Fresh == \A c \in Codes : Cached(c) => cache[c].list = Current(c)

\* While nobody fills, a clear has every list in hand, and an entry is committed
\* to an empty cache; a list can be stale only while a dictionary is cleared.
WritersReady ==
    \A w \in Writers :
        /\ writer[w].pc = "delete" => CachedCodes \subseteq writer[w].keys
        /\ writer[w].pc = "write" => CachedCodes = {}
        /\ writer[w].op = "dictionary" => writer[w].pc \in {"clear", "delete"}

FreshOrDue == Fresh \/ \E w \in Writers : writer[w].op = "dictionary"

\* What a reader has in hand is what the database has.
ReadersCurrent ==
    \A q \in Readers :
        /\ reader[q].pc = "missed" => reader[q].list = Empty
        /\ reader[q].pc = "found" => /\ reader[q].dict \in Live
                                     /\ code[reader[q].dict] = reader[q].code
        /\ reader[q].pc = "loaded" => reader[q].list = Current(reader[q].code)

GoneEmpty == \A d \in Dicts \ Live : items[d] = Empty

Fed == GoneEmpty /\ WritersReady /\ FreshOrDue /\ ReadersCurrent

\* The list of a code is that of the one live dictionary that has it.
LEMMA CurrentList ==
    ASSUME TypeOK, NEW c
    PROVE  /\ \A d \in Live : code[d] = c => Current(c) = items[d]
           /\ (\A d \in Live : code[d] # c) => Current(c) = Empty
<1>1. ASSUME NEW d \in Live, code[d] = c PROVE Current(c) = items[d]
  <2> DEFINE e == CHOOSE e \in Live : code[e] = c
  <2>1. e \in Live /\ code[e] = c
    BY <1>1
  <2>2. e = d
    BY <1>1, <2>1 DEF TypeOK
  <2> QED
    BY <1>1, <2>2 DEF Current
<1> QED
  BY <1>1 DEF Current

LEMMA SameCurrent ==
    ASSUME UNCHANGED db
    PROVE  /\ Live' = Live /\ (GoneEmpty => GoneEmpty')
           /\ \A c : Current(c)' = Current(c)
BY DEF db, Live, Current, GoneEmpty

\* A new dictionary has no entries: the list of its code stays empty.
LEMMA CreateKeepsLists ==
    ASSUME TypeOK, TypeOK', GoneEmpty, NEW d \in Dicts, NEW c \in Codes, CreateDictionary(d, c)
    PROVE  /\ GoneEmpty' /\ Live' = Live \cup {d} /\ d \notin Live
           /\ \A e \in Live : code'[e] = code[e]
           /\ \A k : Current(k)' = Current(k)
<1>1. /\ Live' = Live \cup {d} /\ d \notin Live /\ items' = items /\ code'[d] = c
      /\ \A e \in Live : code'[e] = code[e] /\ code[e] # c
      /\ items[d] = Empty
  BY DEF CreateDictionary, CodeIsFree, Live, TypeOK, GoneEmpty
<1>2. GoneEmpty'
  BY <1>1 DEF GoneEmpty
<1>3. ASSUME NEW k PROVE Current(k)' = Current(k)
  <2>1. CASE \E e \in Live : code[e] = k
    <3>1. PICK e \in Live : code[e] = k
      BY <2>1
    <3>2. Current(k) = items[e]
      BY <3>1, CurrentList
    <3> DEFINE f == CHOOSE f \in Live' : code'[f] = k
    <3>3. e \in Live' /\ code'[e] = k
      BY <1>1, <3>1
    <3>4. f \in Live' /\ code'[f] = k
      BY <3>3
    <3>5. f = e
      BY <1>1, <3>1, <3>4 DEF TypeOK
    <3>6. Current(k)' = items'[f]
      BY <3>3 DEF Current
    <3> QED
      BY <1>1, <3>2, <3>5, <3>6
  <2>2. CASE \A e \in Live : code[e] # k
    <3>1. Current(k) = Empty
      BY <2>2, CurrentList
    <3>2. CASE k # c
      BY <1>1, <2>2, <3>1, <3>2 DEF Current
    <3>3. CASE k = c
      <4> DEFINE f == CHOOSE f \in Live' : code'[f] = k
      <4>1. d \in Live' /\ code'[d] = k
        BY <1>1, <3>3
      <4>2. f \in Live' /\ code'[f] = k
        BY <4>1
      <4>3. f = d
        BY <1>1, <3>3, <4>2
      <4>4. Current(k)' = items'[f]
        BY <4>1 DEF Current
      <4> QED
        BY <1>1, <3>1, <4>3, <4>4
    <3> QED
      BY <3>2, <3>3
  <2> QED
    BY <2>1, <2>2
<1> QED
  BY <1>1, <1>2, <1>3

\* A reader at work has no writer beside it, and so its list is current.
LEMMA ReaderFed ==
    ASSUME TypeOK, NoOverlap, Fed, NEW q \in Readers, ReaderNext(q)
    PROVE  Fed'
<1>1. UNCHANGED << writer, row, code, items, changes >>
  BY DEF ReaderNext, Fill, Hit, Miss, FindDictionary, FindNothing, LoadEntries, StoreList,
     ReaderLeaves, db, vars
<1>2. GoneEmpty' /\ Live' = Live /\ \A c : Current(c)' = Current(c)
  BY <1>1, SameCurrent DEF db, Fed
<1>3. ASSUME NEW s, reader' = [reader EXCEPT ![q] = s], cache' = cache,
             /\ s.pc = "missed" => s.list = Empty
             /\ s.pc = "found" => s.dict \in Live /\ code[s.dict] = s.code
             /\ s.pc = "loaded" => s.list = Current(s.code)
      PROVE  Fed'
  <2>1. reader'[q] = s /\ \A x \in Readers \ {q} : reader'[x] = reader[x]
    BY <1>3 DEF TypeOK
  <2>2. ReadersCurrent'
    BY <1>1, <1>2, <1>3, <2>1 DEF ReadersCurrent, Fed
  <2>3. CachedCodes' = CachedCodes /\ (Fresh => Fresh')
    BY <1>2, <1>3 DEF CachedCodes, Cached, Fresh
  <2>4. WritersReady' /\ FreshOrDue'
    BY <1>1, <2>3 DEF WritersReady, FreshOrDue, Fed
  <2> QED
    BY <1>2, <2>2, <2>4 DEF Fed
<1>4. reader[q] \in ReaderState /\ (reader[q].pc # "idle" => reader[q].code \in Codes)
  BY DEF TypeOK
<1>5. ASSUME NEW c \in Codes, Hit(q, c) PROVE Fed'
  BY <1>2, <1>5 DEF Hit, vars, Fed, WritersReady, FreshOrDue, ReadersCurrent, Fresh, Cached,
     CachedCodes
<1>6. ASSUME NEW c \in Codes, Miss(q, c) PROVE Fed'
  BY <1>3, <1>6 DEF Miss, ReaderBecomes, NoRead
<1>7. CASE FindDictionary(q)
  <2>1. PICK d \in Live : /\ code[d] = reader[q].code /\ cache' = cache
                          /\ reader' = [reader EXCEPT ![q] =
                                           [reader[q] EXCEPT !.pc = "found", !.dict = d]]
    BY <1>7 DEF FindDictionary, ReaderBecomes
  <2> DEFINE s == [reader[q] EXCEPT !.pc = "found", !.dict = d]
  <2>2. s.pc = "found" /\ s.dict = d /\ s.code = reader[q].code
    BY <1>4 DEF ReaderState
  <2>3. reader' = [reader EXCEPT ![q] = s]
    BY <2>1
  <2> HIDE DEF s
  <2> QED
    BY <1>3, <2>1, <2>2, <2>3
<1>8. CASE FindNothing(q)
  <2> DEFINE s == [reader[q] EXCEPT !.pc = "loaded"]
  <2>1. s.pc = "loaded" /\ s.list = reader[q].list /\ s.code = reader[q].code
    BY <1>4 DEF ReaderState
  <2>2. reader' = [reader EXCEPT ![q] = s] /\ cache' = cache
    BY <1>8 DEF FindNothing, ReaderBecomes
  <2>3. reader[q].list = Empty /\ Current(reader[q].code) = Empty
    BY <1>8, CurrentList DEF FindNothing, Fed, ReadersCurrent
  <2> HIDE DEF s
  <2> QED
    BY <1>3, <2>1, <2>2, <2>3
<1>9. CASE LoadEntries(q)
  <2> DEFINE s == [reader[q] EXCEPT !.pc = "loaded", !.dict = NoDict,
                                    !.list = items[reader[q].dict]]
  <2>1. s.pc = "loaded" /\ s.list = items[reader[q].dict] /\ s.code = reader[q].code
    BY <1>4 DEF ReaderState
  <2>2. reader' = [reader EXCEPT ![q] = s] /\ cache' = cache
    BY <1>9 DEF LoadEntries, ReaderBecomes
  <2>3. Current(reader[q].code) = items[reader[q].dict]
    BY <1>9, CurrentList DEF LoadEntries, Fed, ReadersCurrent
  <2> HIDE DEF s
  <2> QED
    BY <1>3, <2>1, <2>2, <2>3
<1>10. CASE StoreList(q)
  <2>1. /\ reader[q].pc = "loaded" /\ reader' = [reader EXCEPT ![q] = NoRead]
        /\ cache' = [cache EXCEPT ![reader[q].code] =
                        [list |-> reader[q].list, left |-> CacheTTL, stored |-> changes]]
    BY <1>10 DEF StoreList, ReaderBecomes
  <2>2. \A w \in Writers : writer[w].pc = "idle"
    BY <2>1 DEF NoOverlap
  <2>3. Fresh /\ WritersReady'
    BY <1>1, <2>2 DEF Fed, FreshOrDue, WritersReady
  <2>4. \A c \in Codes : \/ cache'[c] = cache[c]
                        \/ cache'[c].list = Current(c)
    BY <2>1 DEF Fed, ReadersCurrent, TypeOK
  <2>5. Fresh'
    BY <1>2, <2>3, <2>4 DEF Fresh, Cached
  <2>6. reader'[q].pc = "idle" /\ \A x \in Readers \ {q} : reader'[x] = reader[x]
    BY <2>1 DEF TypeOK, NoRead
  <2>7. ReadersCurrent'
    BY <1>1, <1>2, <2>6 DEF Fed, ReadersCurrent
  <2> QED
    BY <1>2, <2>3, <2>5, <2>7 DEF Fed, FreshOrDue
<1>11. CASE ReaderLeaves(q)
  BY <1>3, <1>11 DEF ReaderLeaves, ReaderBecomes, NoRead
<1> QED
  BY <1>5, <1>6, <1>7, <1>8, <1>9, <1>10, <1>11 DEF ReaderNext, Fill

\* A step of a writer that leaves the cache as it is, or takes lists out of it,
\* while nobody reads.
LEMMA WriterFrame ==
    ASSUME TypeOK, Fed, NEW w \in Writers, NEW s, writer' = [writer EXCEPT ![w] = s],
           reader' = reader, \A q \in Readers : reader[q].pc = "idle",
           GoneEmpty',
           \A c \in Codes : cache'[c] = cache[c] \/ ~Cached(c)',
           s.pc = "delete" => CachedCodes' \subseteq s.keys,
           s.pc = "write" => CachedCodes' = {},
           s.op = "dictionary" => s.pc \in {"clear", "delete"},
           \/ s.op = "dictionary"
           \/ UNCHANGED db /\ writer[w].op # "dictionary"
           \/ CachedCodes' = {}
    PROVE  Fed'
<1>1. writer'[w] = s /\ \A x \in Writers \ {w} : writer'[x] = writer[x]
  BY DEF TypeOK
<1>2. CachedCodes' \subseteq CachedCodes
  BY DEF CachedCodes, Cached
<1>3. WritersReady'
  BY <1>1, <1>2 DEF Fed, WritersReady
<1>4. FreshOrDue'
  <2>1. CASE s.op = "dictionary"
    BY <1>1, <2>1 DEF FreshOrDue
  <2>2. CASE CachedCodes' = {}
    BY <2>2 DEF FreshOrDue, Fresh, CachedCodes, Cached
  <2>3. CASE UNCHANGED db /\ writer[w].op # "dictionary"
    <3>1. CASE Fresh
      <4>1. Fresh'
        BY <2>3, <3>1, SameCurrent DEF Fresh, Cached
      <4> QED
        BY <4>1 DEF FreshOrDue
    <3>2. CASE \E x \in Writers : writer[x].op = "dictionary"
      BY <1>1, <2>3, <3>2 DEF FreshOrDue
    <3> QED
      BY <3>1, <3>2 DEF Fed, FreshOrDue
  <2> QED
    BY <2>1, <2>2, <2>3
<1>5. ReadersCurrent'
  BY DEF ReadersCurrent
<1> QED
  BY <1>3, <1>4, <1>5 DEF Fed

\* The steps of writers, with their clears not cut short.
LEMMA WriterFed ==
    ASSUME TypeOK, NoOverlap, NoOverlap', ClearsRun, RedisMayFail = FALSE, Fed,
           NEW w \in Writers, WriterNext(w)
    PROVE  Fed'
<1> DEFINE v == writer[w]
<1>1. v \in WriterState /\ reader' = reader
  BY DEF TypeOK, WriterNext, UpdateDictionary, RemoveDictionary, StartClear, WriteEntry,
     WriterLeaves, ScanKeys, DeleteKeys, ClearFails
<1>2. ASSUME v.pc # "idle" \/ writer'[w].pc # "idle"
      PROVE  \A q \in Readers : reader[q].pc = "idle"
  BY <1>1, <1>2 DEF NoOverlap
<1>3. \A op, n : Clearing(op, n).pc = "clear" /\ Clearing(op, n).op = op
  BY DEF Clearing
<1>4. UNCHANGED db => GoneEmpty'
  BY SameCurrent DEF Fed
\* A commit of a dictionary, with the clear that follows it due.
<1>5. ASSUME NEW n, writer' = [writer EXCEPT ![w] = Clearing("dictionary", n)],
             GoneEmpty', cache' = cache
      PROVE  Fed'
  <2> DEFINE s == Clearing("dictionary", n)
  <2>1. s.pc = "clear" /\ s.op = "dictionary" /\ writer'[w] = s
    BY <1>3, <1>5 DEF TypeOK
  <2>2. \A q \in Readers : reader[q].pc = "idle"
    BY <1>2, <2>1
  <2> HIDE DEF s
  <2> QED
    BY <1>1, <1>5, <2>1, <2>2, WriterFrame DEF s
<1>6. ASSUME NEW d \in Dicts, NEW c \in Codes, UpdateDictionary(w, d, c) PROVE Fed'
  <2>1. GoneEmpty'
    BY <1>6 DEF UpdateDictionary, GoneEmpty, Live, Fed
  <2> QED
    BY <1>5, <1>6, <2>1 DEF UpdateDictionary, WriterBecomes
<1>7. ASSUME NEW d \in Dicts, RemoveDictionary(w, d) PROVE Fed'
  <2>1. GoneEmpty'
    BY <1>7 DEF RemoveDictionary, GoneEmpty, Live, Fed, TypeOK
  <2> QED
    BY <1>5, <1>7, <2>1 DEF RemoveDictionary, WriterBecomes
<1>8. ASSUME NEW op \in {"entry", "clear"}, StartClear(w, op) PROVE Fed'
  <2> DEFINE s == Clearing(op, changes)
  <2>1. /\ s.pc = "clear" /\ s.op # "dictionary" /\ v.pc = "idle"
        /\ writer' = [writer EXCEPT ![w] = s] /\ cache' = cache /\ UNCHANGED db
    BY <1>3, <1>8 DEF StartClear, WriterBecomes
  <2> HIDE DEF s
  <2>2. writer'[w] = s /\ v.op # "dictionary"
    BY <2>1 DEF TypeOK, Fed, WritersReady
  <2>3. \A q \in Readers : reader[q].pc = "idle"
    BY <1>2, <2>1, <2>2
  <2> QED
    BY <1>1, <1>4, <2>1, <2>2, <2>3, WriterFrame
<1>9. ASSUME NEW touched \in SUBSET Dicts, WriteEntry(w, touched) PROVE Fed'
  <2>1. /\ v.pc = "write" /\ touched \subseteq Live /\ writer' = [writer EXCEPT ![w] = NoWrite]
        /\ items' = [d \in Dicts |-> IF d \in touched THEN changes + 1 ELSE items[d]]
        /\ UNCHANGED << row, cache >>
    BY <1>9 DEF WriteEntry, WriterBecomes
  <2>2. GoneEmpty'
    BY <2>1 DEF GoneEmpty, Live, Fed
  <2>3. CachedCodes' = {}
    BY <2>1 DEF Fed, WritersReady, CachedCodes, Cached
  <2>4. NoWrite.pc = "idle" /\ NoWrite.op = "none"
    BY DEF NoWrite
  <2> QED
    BY <1>1, <1>2, <2>1, <2>2, <2>3, <2>4, WriterFrame
<1>10. CASE WriterLeaves(w)
  <2>1. /\ v.pc # "idle" /\ v.op # "dictionary" /\ writer' = [writer EXCEPT ![w] = NoWrite]
        /\ cache' = cache /\ UNCHANGED db
    BY <1>10 DEF ClearsRun, WriterLeaves, WriterBecomes
  <2>2. NoWrite.pc = "idle" /\ NoWrite.op = "none"
    BY DEF NoWrite
  <2> QED
    BY <1>1, <1>2, <1>4, <2>1, <2>2, WriterFrame
<1>11. CASE ScanKeys(w)
  <2> DEFINE s == [v EXCEPT !.pc = "delete", !.keys = CachedCodes]
  <2>1. /\ v.pc = "clear" /\ cache' = cache /\ UNCHANGED db
        /\ writer' = [writer EXCEPT ![w] = s]
    BY <1>11 DEF ScanKeys, WriterBecomes
  <2>2. s.pc = "delete" /\ s.keys = CachedCodes /\ s.op = v.op
    BY <1>1 DEF WriterState
  <2>3. CachedCodes' = CachedCodes
    BY <2>1 DEF CachedCodes, Cached
  <2> HIDE DEF s
  <2> QED
    BY <1>1, <1>2, <1>4, <2>1, <2>2, <2>3, WriterFrame
\* Everything that is cached is in hand: the cache is empty afterwards.
<1>12. CASE DeleteKeys(w)
  <2>1. /\ v.pc = "delete" /\ UNCHANGED db
        /\ cache' = [c \in Codes |-> IF c \in v.keys THEN NotCached ELSE cache[c]]
        /\ writer' = [writer EXCEPT ![w] = AfterClear(w)]
    BY <1>12 DEF DeleteKeys, WriterBecomes
  <2>2. CachedCodes \subseteq v.keys
    BY <2>1 DEF Fed, WritersReady
  <2>3. CachedCodes' = {} /\ \A c \in Codes : ~Cached(c)'
    BY <2>1, <2>2 DEF CachedCodes, Cached, NotCached
  <2>4. AfterClear(w).pc \in {"idle", "write"} /\ AfterClear(w).op # "dictionary"
    BY DEF AfterClear, NoWrite
  <2> QED
    BY <1>1, <1>2, <1>4, <2>1, <2>3, <2>4, WriterFrame
<1>13. ~ClearFails(w)
  BY DEF ClearFails
<1> QED
  BY <1>6, <1>7, <1>8, <1>9, <1>10, <1>11, <1>12, <1>13 DEF WriterNext

\* Expiry takes lists out; a new dictionary changes none.
LEMMA OtherFed ==
    ASSUME TypeOK, TypeOK', Fed
    PROVE  /\ Tick => Fed'
           /\ \A d \in Dicts, c \in Codes : CreateDictionary(d, c) => Fed'
<1>1. ASSUME Tick PROVE Fed'
  <2>1. /\ UNCHANGED << reader, writer, row, code, items, changes >>
        /\ \A c \in Codes : Cached(c)' => Cached(c) /\ cache'[c].list = cache[c].list
    <3>1. cache' = [c \in Codes |-> IF cache[c].left > 1
                                    THEN [cache[c] EXCEPT !.left = @ - 1]
                                    ELSE NotCached]
      BY <1>1 DEF Tick
    <3>2. \A c \in Codes : cache[c] \in CacheEntry
      BY DEF TypeOK
    <3> QED
      BY <1>1, <3>1, <3>2 DEF Tick, db, Cached, NotCached, CacheEntry
  <2>2. GoneEmpty' /\ Live' = Live /\ \A c : Current(c)' = Current(c)
    BY <2>1, SameCurrent DEF db, Fed
  <2>3. CachedCodes' \subseteq CachedCodes /\ (Fresh => Fresh')
    BY <2>1, <2>2 DEF CachedCodes, Fresh
  <2> QED
    BY <2>1, <2>2, <2>3 DEF Fed, WritersReady, FreshOrDue, ReadersCurrent
<1>2. ASSUME NEW d \in Dicts, NEW c \in Codes, CreateDictionary(d, c) PROVE Fed'
  <2>1. UNCHANGED << cache, reader, writer >>
    BY <1>2 DEF CreateDictionary
  <2>2. /\ GoneEmpty' /\ Live' = Live \cup {d}
        /\ \A e \in Live : code'[e] = code[e]
        /\ \A k : Current(k)' = Current(k)
    BY <1>2, CreateKeepsLists DEF Fed
  <2>3. CachedCodes' = CachedCodes /\ (Fresh => Fresh')
    BY <2>1, <2>2 DEF CachedCodes, Cached, Fresh
  <2> QED
    BY <2>1, <2>2, <2>3 DEF Fed, WritersReady, FreshOrDue, ReadersCurrent
<1> QED
  BY <1>1, <1>2

\* No stale list stays in the cache, as the comment says, as long as no read of
\* the database overlaps a write or a clear, Redis does not fail, and the writers
\* of dictionaries get to their clear: committing an entry after its clear, not
\* before it, and creating a dictionary without one, do no harm of themselves.
THEOREM FreshWithoutOverlap ==
    ASSUME RedisMayFail = FALSE
    PROVE  Spec /\ []NoOverlap /\ [][ClearsRun]_vars => []NoStaleLists
<1>1. Init => Fed
  BY DEF Init, Fed, GoneEmpty, WritersReady, FreshOrDue, Fresh, ReadersCurrent, Cached,
     NotCached, NoRead, NoWrite
<1>2. Inv /\ Inv' /\ NoOverlap /\ NoOverlap' /\ Fed /\ [Next]_vars /\ [ClearsRun]_vars => Fed'
  <2> SUFFICES ASSUME Inv, Inv', NoOverlap, NoOverlap', Fed, [Next]_vars, [ClearsRun]_vars
               PROVE  Fed'
    OBVIOUS
  <2>1. TypeOK /\ TypeOK'
    BY DEF Inv
  <2>2. CASE UNCHANGED vars
    <3>1. GoneEmpty' /\ Live' = Live /\ \A c : Current(c)' = Current(c)
      BY <2>2, SameCurrent DEF vars, db, Fed
    <3> QED
      BY <2>2, <3>1 DEF vars, Fed, WritersReady, FreshOrDue, Fresh, ReadersCurrent, Cached,
         CachedCodes
  <2>3. CASE Next /\ ClearsRun
    BY <2>1, <2>3, ReaderFed, WriterFed, OtherFed DEF Next
  <2> QED
    BY <2>2, <2>3
<1>3. Fed => NoStaleLists
  BY DEF Fed, FreshOrDue, WritersReady, Fresh, NoStaleLists, AtRest
<1> QED
  BY <1>1, <1>2, <1>3, Invariance, PTL DEF Spec

=============================================================================
