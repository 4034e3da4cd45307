------------------------------ MODULE FileStore ------------------------------
(***************************************************************************)
(* Uploaded files, which only the object store knows, and the row of       *)
(* storage_config that says which store it is.  Every request builds its   *)
(* own handle from the row and keeps it; when the query fails, or there is *)
(* no row, the handle is for the default local directory.  Nothing but two *)
(* statements (find, then insert) keeps a tenant to one row, and a query   *)
(* for "the" row takes any.                                                *)
(***************************************************************************)
EXTENDS Integers, FiniteSets

CONSTANTS
    Files,         \* names of stored files, each a new UUID
    Stores,        \* places a row can denote: local directories and buckets
    DefaultStore,  \* the directory "uploads"
    Clients,       \* requests that upload or delete
    Admins,        \* requests for the storage configuration
    ConfigRows,    \* ids of storage_config
    NoStore,       \* a row that was not inserted
    MaxFiles       \* files per request (20)

ASSUME StoresAssumption == DefaultStore \in Stores /\ NoStore \notin Stores
ASSUME FilesAssumption == MaxFiles \in Nat

VARIABLES
    config,    \* rows of the tenant in storage_config
    objects,   \* what each store holds
    client,    \* local state of each request on files
    admin,     \* local state of each request on the configuration
    acked,     \* history: files whose upload was acknowledged
    touched,   \* history: files a deletion was asked for
    astray,    \* history: files whose handle denoted another store than a later one
    leftover,  \* history: files whose cleanup failed or was not reached
    latest,    \* history: what the last completed update of the configuration set
    twins      \* history: a row was inserted after another one that the insert's request
               \* had not seen

fileVars == << config, objects, client, admin, acked, touched, astray, leftover, latest,
               twins >>

\* sound: nothing but this store was denoted since the handle was built.
ClientState ==
    [ pc : {"idle", "receive", "clean", "delete", "done", "refused"},
      store : Stores \cup {NoStore}, sound : BOOLEAN,
      paths : SUBSET Files, todo : SUBSET Files ]
NewClient == [pc |-> "idle", store |-> NoStore, sound |-> TRUE, paths |-> {}, todo |-> {}]

\* missed: another request inserted a row since this one found none.
AdminState == [ pc : {"idle", "missing", "found", "loaded", "done"}, row : SUBSET ConfigRows,
                missed : BOOLEAN ]
NewAdmin == [pc |-> "idle", row |-> {}, missed |-> FALSE]

FileTypeOK ==
    /\ config \in [ConfigRows -> Stores \cup {NoStore}]
    /\ objects \in [Stores -> SUBSET Files]
    /\ client \in [Clients -> ClientState]
    /\ admin \in [Admins -> AdminState]
    /\ acked \subseteq Files
    /\ touched \subseteq Files
    /\ astray \subseteq Files
    /\ leftover \subseteq Files
    /\ latest \in Stores \cup {NoStore}
    /\ twins \in BOOLEAN

FileInit ==
    /\ config = [c \in ConfigRows |-> NoStore]
    /\ objects = [s \in Stores |-> {}]
    /\ client = [u \in Clients |-> NewClient]
    /\ admin = [a \in Admins |-> NewAdmin]
    /\ acked = {}
    /\ touched = {}
    /\ astray = {}
    /\ leftover = {}
    /\ latest = NoStore
    /\ twins = FALSE

RowsOf(f) == {c \in ConfigRows : f[c] # NoStore}

\* What find_by_tenant may make of the rows.
Denoted(f) == IF RowsOf(f) = {} THEN {DefaultStore} ELSE {f[c] : c \in RowsOf(f)}

Stored == UNION {objects[s] : s \in Stores}
\* Names are never given out twice.
Named == (UNION {client[u].paths : u \in Clients}) \cup Stored \cup acked \cup touched \cup leftover

ClientBecomes(u, state) == client' = [client EXCEPT ![u] = state]
ConfigUnchanged == UNCHANGED << config, admin, latest, twins >>

-----------------------------------------------------------------------------
(* Uploads and deletions.                                                  *)

\* DynamicStorage::new: an error of the query counts as no configuration.
OpenStore(u, stage, store, paths) ==
    /\ client[u].pc = "idle"
    /\ store \in Denoted(config) \cup {DefaultStore}
    /\ ClientBecomes(u, [NewClient EXCEPT !.pc = stage, !.store = store, !.paths = paths,
                                          !.sound = (Denoted(config) = {store})])
    /\ ConfigUnchanged
    /\ UNCHANGED << objects, acked, astray, leftover >>

BeginUpload(u, store) == OpenStore(u, "receive", store, {}) /\ UNCHANGED touched

\* The name is one that a list of the store has shown, be its upload at an end or not.
BeginDelete(u, store, f) ==
    /\ f \in Stored
    /\ OpenStore(u, "delete", store, {f})
    /\ touched' = touched \cup {f}

Writes(s, f) == objects' = [objects EXCEPT ![s] = @ \cup {f}]
Erases(s, f) == objects' = [objects EXCEPT ![s] = @ \ {f}]

\* Mutant: the name is noted after a write that succeeded.
StoreFile_NotesLate(u, f) ==
    LET s == [client[u] EXCEPT !.paths = @ \cup {f}] IN
    /\ client[u].pc = "receive"
    /\ f \notin Named
    /\ Cardinality(client[u].paths) < MaxFiles
    /\ \/ Writes(s.store, f) /\ ClientBecomes(u, s)
       \/ /\ ClientBecomes(u, [s EXCEPT !.pc = "clean", !.todo = client[u].paths])
          /\ Writes(s.store, f) \/ UNCHANGED objects
    /\ ConfigUnchanged
    /\ UNCHANGED << acked, touched, astray, leftover >>

\* Mutant: the error of the write is dropped.
StoreFile_DropsError(u, f) ==
    /\ client[u].pc = "receive"
    /\ f \notin Named
    /\ Cardinality(client[u].paths) < MaxFiles
    /\ ClientBecomes(u, [client[u] EXCEPT !.paths = @ \cup {f}])
    /\ Writes(client[u].store, f) \/ UNCHANGED objects
    /\ ConfigUnchanged
    /\ UNCHANGED << acked, touched, astray, leftover >>

\* The name is noted before the write, so that the cleanup covers a write that failed
\* and left something all the same.
StoreFile(u, f) ==
    LET s == [client[u] EXCEPT !.paths = @ \cup {f}] IN
    /\ client[u].pc = "receive"
    /\ f \notin Named
    /\ Cardinality(client[u].paths) < MaxFiles
    /\ \/ Writes(s.store, f) /\ ClientBecomes(u, s)
       \/ /\ ClientBecomes(u, [s EXCEPT !.pc = "clean", !.todo = s.paths])
          /\ Writes(s.store, f) \/ UNCHANGED objects
    /\ ConfigUnchanged
    /\ UNCHANGED << acked, touched, astray, leftover >>

\* A type that is not allowed, too many files, too many bytes, a body that breaks off.
Refuse(u) ==
    /\ client[u].pc = "receive"
    /\ ClientBecomes(u, [client[u] EXCEPT !.pc = "clean", !.todo = client[u].paths])
    /\ ConfigUnchanged
    /\ UNCHANGED << objects, acked, touched, astray, leftover >>

\* cleanup_uploaded: one file after another, and errors are dropped.
CleanFile(u, f) ==
    /\ client[u].pc = "clean"
    /\ f \in client[u].todo
    /\ ClientBecomes(u, [client[u] EXCEPT !.todo = @ \ {f}])
    /\ \/ Erases(client[u].store, f) /\ UNCHANGED leftover
       \/ leftover' = leftover \cup {f} /\ UNCHANGED objects
    /\ ConfigUnchanged
    /\ UNCHANGED << acked, touched, astray >>

AnswerRefusal(u) ==
    /\ client[u].pc = "clean"
    /\ client[u].todo = {}
    /\ ClientBecomes(u, [client[u] EXCEPT !.pc = "refused"])
    /\ ConfigUnchanged
    /\ UNCHANGED << objects, acked, touched, astray, leftover >>

Acknowledge(u) ==
    /\ client[u].pc = "receive"
    /\ acked' = acked \cup client[u].paths
    /\ astray' = IF client[u].sound THEN astray ELSE astray \cup client[u].paths
    /\ ClientBecomes(u, [NewClient EXCEPT !.pc = "done"])
    /\ ConfigUnchanged
    /\ UNCHANGED << objects, touched, leftover >>

\* delete_file: the store may answer with an error and have deleted the file.
DeleteFile(u, f) ==
    /\ client[u].pc = "delete"
    /\ f \in client[u].paths
    /\ \/ Erases(client[u].store, f)
       \/ UNCHANGED objects
    /\ ClientBecomes(u, [NewClient EXCEPT !.pc = "done"])
    /\ ConfigUnchanged
    /\ UNCHANGED << acked, touched, astray, leftover >>

\* The client goes away and the handler is dropped, or the process stops.
ClientStops(u) ==
    /\ client[u].pc \in {"receive", "clean"}
    /\ leftover' = leftover \cup client[u].paths
    /\ ClientBecomes(u, [NewClient EXCEPT !.pc = "done"])
    /\ ConfigUnchanged
    /\ UNCHANGED << objects, acked, touched, astray >>

-----------------------------------------------------------------------------
(* The configuration.                                                      *)

\* What an earlier handle denoted may differ from what the next one denotes.
ConfigBecomes(new) ==
    /\ config' = new
    /\ IF Denoted(new) = Denoted(config) THEN UNCHANGED << astray, client >>
       ELSE /\ astray' = astray \cup Stored
            /\ client' = [u \in Clients |-> [client[u] EXCEPT !.sound = FALSE]]

\* Mutant: a row that is there is not seen.
FindConfig_Blind(a) ==
    /\ admin[a].pc = "idle"
    /\ admin' = [admin EXCEPT ![a] = [NewAdmin EXCEPT !.pc = "missing"]]
    /\ UNCHANGED << config, objects, client, acked, touched, astray, leftover, latest, twins >>

\* get_or_create: the find.
FindConfig(a) ==
    /\ admin[a].pc = "idle"
    /\ \/ \E c \in RowsOf(config) :
             admin' = [admin EXCEPT ![a] = [NewAdmin EXCEPT !.pc = "found", !.row = {c}]]
       \/ /\ RowsOf(config) = {}
          /\ admin' = [admin EXCEPT ![a] = [NewAdmin EXCEPT !.pc = "missing"]]
    /\ UNCHANGED << config, objects, client, acked, touched, astray, leftover, latest, twins >>

\* get_or_create: the insert of a row with the defaults.
InsertConfig(a, c) ==
    /\ admin[a].pc = "missing"
    /\ config[c] = NoStore
    /\ ConfigBecomes([config EXCEPT ![c] = DefaultStore])
    /\ admin' = [b \in Admins |->
                    IF b = a THEN [NewAdmin EXCEPT !.pc = "found", !.row = {c}]
                    ELSE IF admin[b].pc = "missing" THEN [admin[b] EXCEPT !.missed = TRUE]
                    ELSE admin[b]]
    /\ twins' = (twins \/ admin[a].missed)
    /\ UNCHANGED << objects, acked, touched, leftover, latest >>

\* update_config: the row is loaded by the id that was found, and no row is ever deleted.
LoadConfig(a) ==
    /\ admin[a].pc = "found"
    /\ admin[a].row \subseteq RowsOf(config)
    /\ admin' = [admin EXCEPT ![a].pc = "loaded"]
    /\ UNCHANGED << config, objects, client, acked, touched, astray, leftover, latest, twins >>

\* update_config: all columns of the row are replaced.
UpdateConfig(a, store) ==
    /\ admin[a].pc = "loaded"
    /\ ConfigBecomes([c \in ConfigRows |-> IF c \in admin[a].row THEN store ELSE config[c]])
    /\ admin' = [admin EXCEPT ![a] = [NewAdmin EXCEPT !.pc = "done"]]
    /\ latest' = store
    /\ UNCHANGED << objects, acked, touched, leftover, twins >>

\* get_config ends here, and so does a request that fails.
AdminStops(a) ==
    /\ admin[a].pc \in {"missing", "found", "loaded"}
    /\ admin' = [admin EXCEPT ![a] = [NewAdmin EXCEPT !.pc = "done"]]
    /\ UNCHANGED << config, objects, client, acked, touched, astray, leftover, latest, twins >>

ClientStep(u) ==
    \/ \E s \in Stores : BeginUpload(u, s) \/ (\E f \in Files : BeginDelete(u, s, f))
    \/ \E f \in Files : StoreFile(u, f) \/ CleanFile(u, f) \/ DeleteFile(u, f)
    \/ Refuse(u) \/ AnswerRefusal(u) \/ Acknowledge(u) \/ ClientStops(u)

AdminStep(a) ==
    \/ FindConfig(a) \/ LoadConfig(a)
    \/ \E c \in ConfigRows : InsertConfig(a, c)
    \/ \E s \in Stores : UpdateConfig(a, s)
    \/ AdminStops(a)

FileNext ==
    \/ \E u \in Clients : ClientStep(u)
    \/ \E a \in Admins : AdminStep(a)

FileSpec == FileInit /\ [][FileNext]_fileVars

-----------------------------------------------------------------------------
(* Properties.                                                             *)

\* A request that was refused leaves none of its files in any store, whatever went wrong
\* with which of them, but for those whose deletion failed (controllers/files.rs:55-105).
RefusedUploadsLeaveNothing ==
    \A u \in Clients : client[u].pc = "refused" =>
        client[u].paths \cap Stored \subseteq leftover

\* An acknowledged file that nobody deletes is found by every handle that the configuration
\* yields, unless its handle was a fallback or the configuration has changed what it
\* denotes since (storage.rs:40-74).
AcknowledgedAreServed ==
    \A f \in acked \ (touched \cup astray) : \A s \in Denoted(config) : f \in objects[s]

\* Changes of the configuration take effect at once (storage.rs:7): after an update, every
\* handle whose query succeeds is for what it set, unless two requests that found no row both
\* inserted one.  (A query that fails yields the default directory whatever the row says.)
UpdatesTakeHold ==
    (latest # NoStore /\ ~twins) => Denoted(config) = {latest}
=============================================================================
