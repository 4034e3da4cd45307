--------------------------- MODULE Storage_proofs ---------------------------
(***************************************************************************)
(* What is stored, for any number of files, stores, runs and requests.     *)
(* Files: what was acknowledged is served, what was refused is gone, and   *)
(* an update of the configuration takes hold. Replicas: an acknowledged    *)
(* operation has reached as many stores as its mode promises. Copies of    *)
(* source tables: they are whole, and of one full run unless runs          *)
(* overlapped. The three share nothing: the application has a single       *)
(* store.                                                                  *)
(***************************************************************************)
EXTENDS FileStore, Replicas, SourceSync, FiniteSetTheorems, TLAPS

-----------------------------------------------------------------------------
(* Files.                                                                  *)

\* A handle that nothing has changed since it was built denotes what the next one will.
HandlesSound ==
    \A u \in Clients :
        client[u].pc \in {"receive", "clean", "delete", "refused"} /\ client[u].sound =>
            Denoted(config) = {client[u].store}

Uploading == {"receive", "clean", "refused"}

\* The names of an upload are its own, and its files are nowhere but in its store.
NamesApart ==
    \A u \in Clients : client[u].pc \in Uploading =>
        /\ client[u].store \in Stores
        /\ client[u].paths \cap acked = {}
        /\ \A s \in Stores \ {client[u].store} : client[u].paths \cap objects[s] = {}
        /\ \A v \in Clients \ {u} : client[v].pc \in Uploading =>
               client[u].paths \cap client[v].paths = {}

\* An upload that goes on has written all its files, which others may delete; one that is cleaned up has erased
\* what is not still to do, or knows that it has not.
UploadsSound ==
    \A u \in Clients :
        /\ client[u].pc = "receive" => client[u].paths \ touched \subseteq objects[client[u].store]
        /\ client[u].pc = "clean" =>
               /\ client[u].todo \subseteq client[u].paths
               /\ \A f \in client[u].paths \ client[u].todo :
                      f \in leftover \/ f \notin objects[client[u].store]
        /\ client[u].pc = "refused" =>
               \A f \in client[u].paths : f \in leftover \/ f \notin objects[client[u].store]
        /\ client[u].pc = "delete" =>
               client[u].store \in Stores /\ client[u].paths \subseteq touched

\* What a request knows of the rows; there is one row unless twins were inserted.
RowsSound ==
    /\ \A a \in Admins :
          /\ admin[a].pc \in {"found", "loaded"} =>
                 admin[a].row # {} /\ admin[a].row \subseteq RowsOf(config)
          /\ admin[a].pc = "missing" /\ ~admin[a].missed => RowsOf(config) = {}
    /\ ~twins => \A c, d \in RowsOf(config) : c = d
    /\ latest # NoStore => RowsOf(config) # {}

FileInv ==
    /\ FileTypeOK /\ HandlesSound /\ NamesApart /\ UploadsSound /\ RowsSound
    /\ AcknowledgedAreServed /\ UpdatesTakeHold

-----------------------------------------------------------------------------
\* There always is a store that a handle denotes.
LEMMA DenotedStores ==
    ASSUME FileTypeOK
    PROVE  Denoted(config) # {} /\ Denoted(config) \subseteq Stores
BY StoresAssumption DEF FileTypeOK, Denoted, RowsOf

\* The states that requests start from are well formed.
LEMMA NewClientType ==
    /\ NewClient \in ClientState
    /\ NewClient.pc = "idle"
    /\ NewAdmin \in AdminState
    /\ NewAdmin.pc = "idle"
BY DEF NewClient, ClientState, NewAdmin, AdminState

\* An acknowledged file of the invariant is somewhere.
LEMMA ServedAreStored ==
    ASSUME FileInv, NEW f \in acked \ (touched \cup astray)
    PROVE  f \in Stored
<1>1. PICK s \in Denoted(config) : s \in Stores
  BY DenotedStores DEF FileInv
<1>2. f \in objects[s]
  BY <1>1 DEF FileInv, AcknowledgedAreServed
<1> QED
  BY <1>1, <1>2 DEF Stored

\* What a step of a request on files has to show.
LEMMA ClientMoves ==
    ASSUME FileInv, NEW u \in Clients, NEW s \in ClientState,
           client' = [client EXCEPT ![u] = s],
           UNCHANGED << config, admin, latest, twins >>,
           objects' \in [Stores -> SUBSET Files],
           acked' \subseteq Files, touched' \subseteq Files, astray' \subseteq Files,
           leftover' \subseteq Files, touched \subseteq touched', leftover \subseteq leftover',
           \A v \in Clients \ {u} : client[v].pc \in Uploading =>
               /\ client[v].paths \cap acked' = {}
               /\ \A x \in Stores : /\ client[v].paths \cap objects'[x] \subseteq objects[x]
                                  /\ (client[v].paths \ touched') \cap objects[x] \subseteq objects'[x],
           s.pc \in {"receive", "clean", "delete", "refused"} /\ s.sound =>
               Denoted(config) = {s.store},
           s.pc \in Uploading =>
               /\ s.store \in Stores
               /\ s.paths \cap acked' = {}
               /\ \A x \in Stores \ {s.store} : s.paths \cap objects'[x] = {}
               /\ \A v \in Clients \ {u} : client[v].pc \in Uploading =>
                      s.paths \cap client[v].paths = {},
           s.pc = "receive" => s.paths \ touched' \subseteq objects'[s.store],
           s.pc = "clean" =>
               /\ s.todo \subseteq s.paths
               /\ \A f \in s.paths \ s.todo : f \in leftover' \/ f \notin objects'[s.store],
           s.pc = "refused" =>
               \A f \in s.paths : f \in leftover' \/ f \notin objects'[s.store],
           s.pc = "delete" => s.store \in Stores /\ s.paths \subseteq touched',
           acked \subseteq acked',
           AcknowledgedAreServed'
    PROVE  FileInv'
<1> USE DEF FileInv
<1>1. client'[u] = s /\ \A v \in Clients \ {u} : client'[v] = client[v]
  BY DEF FileTypeOK
<1>2. FileTypeOK'
  BY DEF FileTypeOK
<1>3. Denoted(config)' = Denoted(config) /\ RowsOf(config)' = RowsOf(config)
  BY DEF Denoted, RowsOf
<1>4. HandlesSound'
  BY <1>1, <1>3 DEF HandlesSound
<1>5. NamesApart'
  <2> SUFFICES ASSUME NEW v \in Clients, client'[v].pc \in Uploading
               PROVE  /\ client'[v].store \in Stores
                      /\ client'[v].paths \cap acked' = {}
                      /\ \A x \in Stores \ {client'[v].store} : client'[v].paths \cap objects'[x] = {}
                      /\ \A q \in Clients \ {v} : client'[q].pc \in Uploading =>
                             client'[v].paths \cap client'[q].paths = {}
    BY DEF NamesApart
  <2>1. CASE v = u
    BY <1>1, <2>1
  <2>2. CASE v # u
    <3>1. client'[v] = client[v] /\ v \in Clients \ {u}
      BY <1>1, <2>2
    <3>2. /\ client[v].store \in Stores
          /\ \A x \in Stores \ {client[v].store} : client[v].paths \cap objects'[x] = {}
      BY <3>1 DEF NamesApart
    <3>3. \A q \in Clients \ {v} : client'[q].pc \in Uploading =>
             client[v].paths \cap client'[q].paths = {}
      BY <1>1, <3>1 DEF NamesApart
    <3> QED
      BY <3>1, <3>2, <3>3
  <2> QED
    BY <2>1, <2>2
<1>6. UploadsSound'
  <2> SUFFICES ASSUME NEW v \in Clients
               PROVE  /\ client'[v].pc = "receive" =>
                             client'[v].paths \ touched' \subseteq objects'[client'[v].store]
                      /\ client'[v].pc = "clean" =>
                             /\ client'[v].todo \subseteq client'[v].paths
                             /\ \A f \in client'[v].paths \ client'[v].todo :
                                   f \in leftover' \/ f \notin objects'[client'[v].store]
                      /\ client'[v].pc = "refused" =>
                             \A f \in client'[v].paths :
                                   f \in leftover' \/ f \notin objects'[client'[v].store]
                      /\ client'[v].pc = "delete" =>
                             /\ client'[v].store \in Stores
                             /\ client'[v].paths \subseteq touched'
    BY DEF UploadsSound
  <2>1. CASE v = u
    BY <1>1, <2>1
  <2>2. CASE v # u
    <3>1. client'[v] = client[v] /\ v \in Clients \ {u}
      BY <1>1, <2>2
    <3>2. client[v].pc \in Uploading =>
             /\ client[v].store \in Stores
             /\ client[v].paths \cap objects'[client[v].store] \subseteq objects[client[v].store]
             /\ (client[v].paths \ touched') \cap objects[client[v].store]
                    \subseteq objects'[client[v].store]
      BY <3>1 DEF NamesApart
    <3> QED
      BY <3>1, <3>2 DEF UploadsSound, Uploading
  <2> QED
    BY <2>1, <2>2
<1>7. RowsSound'
  BY <1>3 DEF RowsSound
<1>8. UpdatesTakeHold'
  BY <1>3 DEF UpdatesTakeHold
<1> QED
  BY <1>2, <1>4, <1>5, <1>6, <1>7, <1>8

\* What was served is served when the configuration and the objects that matter stay.
LEMMA StillServed ==
    ASSUME FileInv, config' = config, acked' = acked, astray' = astray, touched \subseteq touched',
           \A f \in acked \ touched, x \in Stores : f \in objects[x] => f \in objects'[x]
    PROVE  AcknowledgedAreServed'
<1>1. Denoted(config)' = Denoted(config) /\ Denoted(config) \subseteq Stores
  BY DenotedStores DEF FileInv, Denoted, RowsOf
<1> QED
  BY <1>1 DEF FileInv, AcknowledgedAreServed

\* Requests on files keep the invariant.
LEMMA ClientKeeps ==
    ASSUME FileInv, NEW u \in Clients, ClientStep(u)
    PROVE  FileInv'
<1> DEFINE v == client[u]
<1>1. /\ v \in ClientState /\ objects \in [Stores -> SUBSET Files] /\ config' = config
      /\ acked \subseteq Files /\ touched \subseteq Files /\ astray \subseteq Files
      /\ leftover \subseteq Files
      /\ UNCHANGED << config, admin, latest, twins >>
  BY DEF FileInv, FileTypeOK, ClientStep, OpenStore, BeginUpload, BeginDelete, StoreFile, CleanFile,
     DeleteFile, Refuse, AnswerRefusal, Acknowledge, ClientStops, ConfigUnchanged
<1>2. v.pc \in Uploading =>
         /\ v.store \in Stores
         /\ v.paths \cap acked = {}
         /\ \A x \in Stores \ {v.store} : v.paths \cap objects[x] = {}
         /\ \A w \in Clients \ {u} : client[w].pc \in Uploading => v.paths \cap client[w].paths = {}
  BY DEF FileInv, NamesApart
<1>3. v.pc \in {"receive", "clean", "delete", "refused"} /\ v.sound => Denoted(config) = {v.store}
  BY DEF FileInv, HandlesSound
<1>4. \A w \in Clients \ {u} : client[w].pc \in Uploading => client[w].paths \cap acked = {}
  BY DEF FileInv, NamesApart
<1>5. /\ v.pc = "receive" => v.paths \ touched \subseteq objects[v.store]
      /\ v.pc = "clean" => /\ v.todo \subseteq v.paths
                           /\ \A f \in v.paths \ v.todo : f \in leftover \/ f \notin objects[v.store]
      /\ v.pc = "delete" => v.store \in Stores /\ v.paths \subseteq touched
  BY DEF FileInv, UploadsSound
<1>6. AcknowledgedAreServed
  BY DEF FileInv
<1>done. ASSUME UNCHANGED objects, acked' = acked, UNCHANGED << touched, astray >>,
                leftover' = leftover \cup v.paths,
                client' = [client EXCEPT ![u] = [NewClient EXCEPT !.pc = "done"]]
         PROVE  FileInv'
  <2> DEFINE s == [NewClient EXCEPT !.pc = "done"]
  <2>1. s \in ClientState /\ s.pc = "done"
    BY DEF NewClient, ClientState
  <2> HIDE DEF s
  <2>2. client' = [client EXCEPT ![u] = s] /\ leftover' \subseteq Files
    BY <1>1, <1>done DEF s, ClientState
  <2>3. AcknowledgedAreServed'
    BY <1>1, <1>done, StillServed
  <2> QED
    BY <1>1, <1>4, <1>done, <2>1, <2>2, <2>3, ClientMoves DEF Uploading
<1>7. ASSUME NEW stage \in {"receive", "delete"}, NEW x \in Stores, NEW paths \in SUBSET Files,
             OpenStore(u, stage, x, paths), touched \subseteq touched', touched' \subseteq Files,
             stage = "receive" => paths = {}, stage = "delete" => paths \subseteq touched'
      PROVE  FileInv'
  <2> DEFINE s == [NewClient EXCEPT !.pc = stage, !.store = x, !.paths = paths,
                                    !.sound = (Denoted(config) = {x})]
  <2>1. /\ s \in ClientState /\ s.pc = stage /\ s.store = x /\ s.paths = paths
        /\ s.sound = (Denoted(config) = {x})
    BY DEF NewClient, ClientState
  <2>2. /\ client' = [client EXCEPT ![u] = s] /\ UNCHANGED << objects, acked, astray, leftover >>
    BY <1>7 DEF OpenStore, ClientBecomes
  <2> HIDE DEF s
  <2>3. AcknowledgedAreServed'
    BY <1>1, <1>7, <2>2, StillServed
  <2> QED
    BY <1>1, <1>4, <1>7, <2>1, <2>2, <2>3, ClientMoves DEF Uploading
<1>8. ASSUME NEW x \in Stores, BeginUpload(u, x) PROVE FileInv'
  BY <1>1, <1>7, <1>8 DEF BeginUpload
<1>9. ASSUME NEW x \in Stores, NEW f \in Files, BeginDelete(u, x, f) PROVE FileInv'
  BY <1>1, <1>7, <1>9 DEF BeginDelete
\* A file with a new name is written, or may have been.
<1>10. ASSUME NEW f \in Files, StoreFile(u, f) PROVE FileInv'
  <2> DEFINE on == [v EXCEPT !.paths = @ \cup {f}]
             off == [on EXCEPT !.pc = "clean", !.todo = on.paths]
  <2>1. /\ v.pc = "receive" /\ f \notin Named
        /\ UNCHANGED << acked, touched, astray, leftover >>
        /\ \/ Writes(v.store, f) /\ client' = [client EXCEPT ![u] = on]
           \/ /\ Writes(v.store, f) \/ UNCHANGED objects
              /\ client' = [client EXCEPT ![u] = off]
    BY <1>1, <1>10 DEF StoreFile, ClientBecomes, ClientState
  <2>0. /\ UNCHANGED << config, admin, latest, twins >> /\ acked' = acked
        /\ acked' \subseteq Files /\ touched' \subseteq Files /\ astray' \subseteq Files
        /\ leftover' \subseteq Files /\ touched \subseteq touched' /\ leftover \subseteq leftover'
    BY <1>1, <2>1
  <2>2. /\ on \in ClientState /\ on.pc = "receive" /\ on.store = v.store /\ on.sound = v.sound
        /\ on.paths = v.paths \cup {f}
    BY <1>1, <2>1 DEF ClientState
  <2>3. /\ off \in ClientState /\ off.pc = "clean" /\ off.store = v.store /\ off.sound = v.sound
        /\ off.paths = v.paths \cup {f} /\ off.todo = v.paths \cup {f}
    BY <1>1, <2>1 DEF ClientState
  <2>4. /\ f \notin acked /\ (\A x \in Stores : f \notin objects[x])
        /\ \A w \in Clients : f \notin client[w].paths
    <3>0. f \notin Named
      BY <2>1
    <3>1. f \notin acked /\ f \notin Stored
      BY <3>0 DEF Named
    <3>2. \A x \in Stores : f \notin objects[x]
      BY <3>1 DEF Stored
    <3>3. \A w \in Clients : f \notin client[w].paths
      BY <3>0 DEF Named
    <3> QED
      BY <3>1, <3>2, <3>3
  <2>5. v.store \in Stores
    BY <1>2, <2>1 DEF Uploading
  <2>6. /\ objects' \in [Stores -> SUBSET Files]
        /\ \A x \in Stores \ {v.store} : objects'[x] = objects[x]
        /\ objects'[v.store] \in {objects[v.store], objects[v.store] \cup {f}}
        /\ Writes(v.store, f) => objects'[v.store] = objects[v.store] \cup {f}
    BY <1>1, <2>1, <2>5 DEF Writes
  <2>7. \A x \in Stores : objects[x] \subseteq objects'[x] /\ objects'[x] \subseteq objects[x] \cup {f}
    BY <2>6
  <2>8. AcknowledgedAreServed'
    BY <1>1, <2>1, <2>7, StillServed
  <2>9. \A w \in Clients \ {u} : client[w].pc \in Uploading =>
           /\ client[w].paths \cap acked = {}
           /\ \A x \in Stores :
                 /\ client[w].paths \cap objects'[x] \subseteq objects[x]
                 /\ (client[w].paths \ touched') \cap objects[x] \subseteq objects'[x]
    BY <1>4, <2>4, <2>7
  <2> HIDE DEF on, off
  <2>10. \A w \in Clients \ {u} : client[w].pc \in Uploading => (v.paths \cup {f}) \cap client[w].paths = {}
    BY <1>2, <2>1, <2>4 DEF Uploading
  <2>11. /\ (v.paths \cup {f}) \cap acked = {}
         /\ \A x \in Stores \ {v.store} : (v.paths \cup {f}) \cap objects'[x] = {}
    BY <1>2, <2>1, <2>4, <2>6 DEF Uploading
  <2>12. CASE Writes(v.store, f) /\ client' = [client EXCEPT ![u] = on]
    <3>1. on.paths \ touched' \subseteq objects'[on.store]
      BY <1>5, <2>1, <2>2, <2>6, <2>12
    <3> QED
      <4>0. /\ on \in ClientState /\ client' = [client EXCEPT ![u] = on]
            /\ on.pc # "clean" /\ on.pc # "refused" /\ on.pc # "delete"
        BY <2>2, <2>12
      <4>1. on.pc \in {"receive", "clean", "delete", "refused"} /\ on.sound => Denoted(config) = {on.store}
        BY <1>3, <2>1, <2>2
      <4>2. /\ on.store \in Stores
            /\ on.paths \cap acked' = {}
            /\ \A x \in Stores \ {on.store} : on.paths \cap objects'[x] = {}
            /\ \A w \in Clients \ {u} : client[w].pc \in Uploading =>
                   on.paths \cap client[w].paths = {}
        BY <2>1, <2>2, <2>5, <2>10, <2>11
      <4> QED
        BY <2>0, <2>6, <2>8, <2>9, <3>1, <4>0, <4>1, <4>2, ClientMoves
  <2>13. CASE client' = [client EXCEPT ![u] = off]
    <3>0. /\ off \in ClientState /\ client' = [client EXCEPT ![u] = off]
          /\ off.pc # "receive" /\ off.pc # "refused" /\ off.pc # "delete"
      BY <2>3, <2>13
    <3>1. off.pc \in {"receive", "clean", "delete", "refused"} /\ off.sound => Denoted(config) = {off.store}
      BY <1>3, <2>1, <2>3
    <3>2. /\ off.store \in Stores
          /\ off.paths \cap acked' = {}
          /\ \A x \in Stores \ {off.store} : off.paths \cap objects'[x] = {}
          /\ \A w \in Clients \ {u} : client[w].pc \in Uploading =>
                 off.paths \cap client[w].paths = {}
      BY <2>1, <2>3, <2>5, <2>10, <2>11
    <3>3. off.todo = off.paths
      BY <2>3
    <3> QED
      BY <2>0, <2>6, <2>8, <2>9, <3>0, <3>1, <3>2, <3>3, ClientMoves
  <2> QED
    BY <2>1, <2>12, <2>13
<1>11. CASE Refuse(u)
  <2> DEFINE s == [v EXCEPT !.pc = "clean", !.todo = v.paths]
  <2>1. /\ v.pc = "receive" /\ UNCHANGED << objects, acked, touched, astray, leftover >>
        /\ client' = [client EXCEPT ![u] = s]
    BY <1>11 DEF Refuse, ClientBecomes
  <2>2. /\ s \in ClientState /\ s.pc = "clean" /\ s.store = v.store /\ s.sound = v.sound
        /\ s.paths = v.paths /\ s.todo = v.paths
    BY <1>1 DEF ClientState
  <2> HIDE DEF s
  <2>3. AcknowledgedAreServed'
    BY <1>1, <2>1, StillServed
  <2> QED
    BY <1>1, <1>2, <1>3, <1>4, <2>1, <2>2, <2>3, ClientMoves DEF Uploading
\* A file of a refused upload is erased, or remembered as left over.
<1>12. ASSUME NEW f \in Files, CleanFile(u, f) PROVE FileInv'
  <2> DEFINE s == [v EXCEPT !.todo = @ \ {f}]
  <2>1. /\ v.pc = "clean" /\ f \in v.todo /\ UNCHANGED << acked, touched, astray >>
        /\ client' = [client EXCEPT ![u] = s]
        /\ \/ Erases(v.store, f) /\ UNCHANGED leftover
           \/ leftover' = leftover \cup {f} /\ UNCHANGED objects
    BY <1>12 DEF CleanFile, ClientBecomes
  <2>0. /\ UNCHANGED << config, admin, latest, twins >> /\ acked' = acked
        /\ acked' \subseteq Files /\ touched' \subseteq Files /\ astray' \subseteq Files
        /\ touched \subseteq touched' /\ client' = [client EXCEPT ![u] = s]
    BY <1>1, <2>1
  <2>2. /\ s \in ClientState /\ s.pc = "clean" /\ s.store = v.store /\ s.sound = v.sound
        /\ s.paths = v.paths /\ s.todo = v.todo \ {f}
    BY <1>1, <2>1 DEF ClientState
  <2>3. v.store \in Stores /\ f \in v.paths /\ f \notin acked
    BY <1>2, <1>5, <2>1 DEF Uploading
  <2>4. /\ objects' \in [Stores -> SUBSET Files]
        /\ \A x \in Stores : objects'[x] \subseteq objects[x] /\ objects[x] \subseteq objects'[x] \cup {f}
        /\ f \in leftover' \/ f \notin objects'[v.store]
        /\ leftover \subseteq leftover' /\ leftover' \subseteq Files
    BY <1>1, <2>1, <2>3 DEF Erases
  <2>5. AcknowledgedAreServed'
    BY <1>1, <2>1, <2>3, <2>4, StillServed
  <2>6. \A w \in Clients \ {u} : client[w].pc \in Uploading => f \notin client[w].paths
    BY <1>2, <2>1, <2>3 DEF Uploading
  <2>7. \A w \in Clients \ {u} : client[w].pc \in Uploading =>
           /\ client[w].paths \cap acked = {}
           /\ \A x \in Stores :
                 /\ client[w].paths \cap objects'[x] \subseteq objects[x]
                 /\ (client[w].paths \ touched') \cap objects[x] \subseteq objects'[x]
    BY <1>4, <2>4, <2>6
  <2>8. \A g \in v.paths \ (v.todo \ {f}) : g \in leftover' \/ g \notin objects'[v.store]
    BY <1>5, <2>1, <2>3, <2>4
  <2>9. \A x \in Stores \ {v.store} : v.paths \cap objects'[x] = {}
    BY <1>2, <2>1, <2>4 DEF Uploading
  <2>10. v.todo \ {f} \subseteq v.paths
    BY <1>5, <2>1
  <2> HIDE DEF s
  <2> QED
    <3>0. s \in ClientState /\ s.pc # "receive" /\ s.pc # "refused" /\ s.pc # "delete"
      BY <2>2
    <3>1. s.pc \in {"receive", "clean", "delete", "refused"} /\ s.sound => Denoted(config) = {s.store}
      BY <1>3, <2>1, <2>2
    <3>2. /\ s.store \in Stores
          /\ s.paths \cap acked' = {}
          /\ \A x \in Stores \ {s.store} : s.paths \cap objects'[x] = {}
          /\ \A w \in Clients \ {u} : client[w].pc \in Uploading =>
                 s.paths \cap client[w].paths = {}
      BY <1>2, <2>1, <2>2, <2>3, <2>9 DEF Uploading
    <3>3. /\ s.todo \subseteq s.paths
          /\ \A g \in s.paths \ s.todo : g \in leftover' \/ g \notin objects'[s.store]
      BY <2>2, <2>8, <2>10
    <3> QED
      BY <2>0, <2>4, <2>5, <2>7, <3>0, <3>1, <3>2, <3>3, ClientMoves
<1>13. CASE AnswerRefusal(u)
  <2> DEFINE s == [v EXCEPT !.pc = "refused"]
  <2>1. /\ v.pc = "clean" /\ v.todo = {}
        /\ UNCHANGED << objects, acked, touched, astray, leftover >>
        /\ client' = [client EXCEPT ![u] = s]
    BY <1>13 DEF AnswerRefusal, ClientBecomes
  <2>2. /\ s \in ClientState /\ s.pc = "refused" /\ s.store = v.store /\ s.sound = v.sound
        /\ s.paths = v.paths
    BY <1>1 DEF ClientState
  <2> HIDE DEF s
  <2>3. AcknowledgedAreServed'
    BY <1>1, <2>1, StillServed
  <2>4. \A f \in v.paths : f \in leftover \/ f \notin objects[v.store]
    BY <1>5, <2>1
  <2> QED
    BY <1>1, <1>2, <1>3, <1>4, <2>1, <2>2, <2>3, <2>4, ClientMoves DEF Uploading
\* Everything that is acknowledged was written to the store that is denoted, or is astray.
<1>14. CASE Acknowledge(u)
  <2> DEFINE s == [NewClient EXCEPT !.pc = "done"]
  <2>1. /\ v.pc = "receive" /\ UNCHANGED << objects, touched, leftover >>
        /\ acked' = acked \cup v.paths
        /\ astray' = IF v.sound THEN astray ELSE astray \cup v.paths
        /\ client' = [client EXCEPT ![u] = s]
    BY <1>14 DEF Acknowledge, ClientBecomes
  <2>2. s \in ClientState /\ s.pc = "done"
    BY DEF NewClient, ClientState
  <2> HIDE DEF s
  <2>3. AcknowledgedAreServed'
    <3> SUFFICES ASSUME NEW f \in acked' \ (touched' \cup astray'), NEW x \in Denoted(config)
                 PROVE  f \in objects[x]
      BY <1>1, <2>1 DEF AcknowledgedAreServed, Denoted, RowsOf
    <3>1. CASE f \in acked
      BY <1>6, <2>1, <3>1 DEF AcknowledgedAreServed
    <3>2. CASE f \in v.paths
      BY <1>3, <1>5, <2>1, <3>2
    <3> QED
      BY <2>1, <3>1, <3>2
  <2>4. \A w \in Clients \ {u} : client[w].pc \in Uploading => client[w].paths \cap acked' = {}
    BY <1>2, <1>4, <2>1 DEF Uploading
  <2>5. acked' \subseteq Files /\ astray' \subseteq Files
    BY <1>1, <2>1 DEF ClientState
  <2> QED
    BY <1>1, <2>1, <2>2, <2>3, <2>4, <2>5, ClientMoves DEF Uploading
\* What a deletion erases is known as touched, to an upload that has it in hand too.
<1>15. ASSUME NEW f \in Files, DeleteFile(u, f) PROVE FileInv'
  <2> DEFINE s == [NewClient EXCEPT !.pc = "done"]
  <2>1. /\ v.pc = "delete" /\ f \in v.paths /\ UNCHANGED << acked, touched, astray, leftover >>
        /\ client' = [client EXCEPT ![u] = s]
        /\ Erases(v.store, f) \/ UNCHANGED objects
    BY <1>15 DEF DeleteFile, ClientBecomes
  <2>2. s \in ClientState /\ s.pc = "done"
    BY DEF NewClient, ClientState
  <2> HIDE DEF s
  <2>3. v.store \in Stores /\ f \in touched
    BY <1>5, <2>1
  <2>4. /\ objects' \in [Stores -> SUBSET Files]
        /\ \A x \in Stores : objects'[x] \subseteq objects[x] /\ objects[x] \subseteq objects'[x] \cup {f}
    BY <1>1, <2>1, <2>3 DEF Erases
  <2>5. AcknowledgedAreServed'
    BY <1>1, <2>1, <2>3, <2>4, StillServed
  <2>6. \A w \in Clients \ {u} : client[w].pc \in Uploading =>
           /\ client[w].paths \cap acked = {}
           /\ \A x \in Stores :
                 /\ client[w].paths \cap objects'[x] \subseteq objects[x]
                 /\ (client[w].paths \ touched) \cap objects[x] \subseteq objects'[x]
    BY <1>4, <2>1, <2>3, <2>4
  <2> QED
    BY <1>1, <2>1, <2>2, <2>4, <2>5, <2>6, ClientMoves DEF Uploading
<1>16. CASE ClientStops(u)
  BY <1>done, <1>16 DEF ClientStops, ClientBecomes
<1> QED
  BY <1>8, <1>9, <1>10, <1>11, <1>12, <1>13, <1>14, <1>15, <1>16 DEF ClientStep

\* What a step of the configuration does to the handles: nothing, or every one of them may
\* be for another store than the next.
LEMMA ConfigMoves ==
    ASSUME FileInv, NEW new \in [ConfigRows -> Stores \cup {NoStore}], ConfigBecomes(new),
           UNCHANGED << objects, acked, touched, leftover >>,
           admin' \in [Admins -> AdminState], latest' \in Stores \cup {NoStore},
           twins' \in BOOLEAN,
           RowsSound', UpdatesTakeHold'
    PROVE  FileInv'
<1> USE DEF FileInv
<1>1. config' = new /\ Denoted(config)' = Denoted(new)
  BY DEF ConfigBecomes, Denoted, RowsOf
<1>2. CASE Denoted(new) = Denoted(config)
  <2>1. astray' = astray /\ client' = client
    BY <1>2 DEF ConfigBecomes
  <2>2. FileTypeOK'
    BY <1>1, <2>1 DEF FileTypeOK
  <2>3. HandlesSound' /\ NamesApart' /\ UploadsSound' /\ AcknowledgedAreServed'
    BY <1>1, <1>2, <2>1 DEF HandlesSound, NamesApart, UploadsSound, AcknowledgedAreServed
  <2> QED
    BY <2>2, <2>3
<1>3. CASE Denoted(new) # Denoted(config)
  <2>1. /\ astray' = astray \cup Stored
        /\ client' = [u \in Clients |-> [client[u] EXCEPT !.sound = FALSE]]
    BY <1>3 DEF ConfigBecomes
  <2>2. \A u \in Clients :
           /\ client'[u] \in ClientState /\ ~client'[u].sound
           /\ client'[u].pc = client[u].pc /\ client'[u].store = client[u].store
           /\ client'[u].paths = client[u].paths /\ client'[u].todo = client[u].todo
    BY <2>1 DEF FileTypeOK, ClientState
  <2>3. FileTypeOK'
    <3>1. client' \in [Clients -> ClientState]
      BY <2>1, <2>2
    <3>2. astray' \subseteq Files
      BY <2>1 DEF FileTypeOK, Stored
    <3> QED
      BY <1>1, <3>1, <3>2 DEF FileTypeOK
  <2>4. HandlesSound'
    BY <2>2 DEF HandlesSound
  <2>5. NamesApart'
    BY <2>2 DEF NamesApart
  <2>6. UploadsSound'
    BY <2>2 DEF UploadsSound
  <2>7. acked' \ (touched' \cup astray') = {}
    BY <2>1, ServedAreStored
  <2>8. AcknowledgedAreServed'
    BY <2>7 DEF AcknowledgedAreServed
  <2> QED
    BY <2>3, <2>4, <2>5, <2>6, <2>8
<1> QED
  BY <1>2, <1>3

\* A step that touches only what a request knows of the configuration.
LEMMA AdminMoves ==
    ASSUME FileInv, UNCHANGED << config, objects, client, acked, touched, astray, leftover, latest, twins >>,
           NEW a \in Admins, NEW s \in AdminState, admin' = [admin EXCEPT ![a] = s],
           s.pc \in {"found", "loaded"} => s.row # {} /\ s.row \subseteq RowsOf(config),
           s.pc = "missing" /\ ~s.missed => RowsOf(config) = {}
    PROVE  FileInv'
<1> USE DEF FileInv
<1>1. FileTypeOK'
  BY DEF FileTypeOK
<1>2. Denoted(config)' = Denoted(config) /\ RowsOf(config)' = RowsOf(config)
  BY DEF Denoted, RowsOf
<1>3. HandlesSound' /\ NamesApart' /\ UploadsSound' /\ AcknowledgedAreServed' /\ UpdatesTakeHold'
  BY <1>2 DEF HandlesSound, NamesApart, UploadsSound, AcknowledgedAreServed, UpdatesTakeHold
<1>4. RowsSound'
  BY <1>2 DEF RowsSound, FileTypeOK
<1> QED
  BY <1>1, <1>3, <1>4

\* Requests for the configuration keep the invariant.
LEMMA AdminKeeps ==
    ASSUME FileInv, NEW a \in Admins, AdminStep(a)
    PROVE  FileInv'
<1>1. CASE FindConfig(a)
  <2>1. ASSUME NEW c \in RowsOf(config),
               admin' = [admin EXCEPT ![a] = [NewAdmin EXCEPT !.pc = "found", !.row = {c}]]
        PROVE  FileInv'
    <3> DEFINE s == [NewAdmin EXCEPT !.pc = "found", !.row = {c}]
    <3>1. s \in AdminState /\ s.pc = "found" /\ s.row = {c}
      BY <2>1 DEF NewAdmin, AdminState, RowsOf
    <3> HIDE DEF s
    <3>2. admin' = [admin EXCEPT ![a] = s]
      BY <2>1 DEF s
    <3> QED
      BY <1>1, <3>1, <3>2, AdminMoves DEF FindConfig
  <2>2. ASSUME RowsOf(config) = {},
               admin' = [admin EXCEPT ![a] = [NewAdmin EXCEPT !.pc = "missing"]]
        PROVE  FileInv'
    <3> DEFINE s == [NewAdmin EXCEPT !.pc = "missing"]
    <3>1. s \in AdminState /\ s.pc = "missing"
      BY DEF NewAdmin, AdminState
    <3> HIDE DEF s
    <3>2. admin' = [admin EXCEPT ![a] = s]
      BY <2>2 DEF s
    <3> QED
      BY <1>1, <2>2, <3>1, <3>2, AdminMoves DEF FindConfig
  <2> QED
    BY <1>1, <2>1, <2>2 DEF FindConfig
\* The row is a twin if another one was inserted after this request found none.
<1>2. ASSUME NEW c \in ConfigRows, InsertConfig(a, c) PROVE FileInv'
  <2> DEFINE new == [config EXCEPT ![c] = DefaultStore]
             s == [NewAdmin EXCEPT !.pc = "found", !.row = {c}]
             Late(b) == [admin[b] EXCEPT !.missed = TRUE]
  <2>1. /\ admin[a].pc = "missing" /\ config[c] = NoStore /\ ConfigBecomes(new)
        /\ twins' = (twins \/ admin[a].missed)
        /\ UNCHANGED << objects, acked, touched, leftover, latest >>
        /\ admin' = [b \in Admins |-> IF b = a THEN s
                                      ELSE IF admin[b].pc = "missing" THEN Late(b) ELSE admin[b]]
    BY <1>2 DEF InsertConfig
  <2>2. /\ new \in [ConfigRows -> Stores \cup {NoStore}] /\ config' = new
        /\ RowsOf(config)' = RowsOf(config) \cup {c}
    BY <2>1, StoresAssumption DEF FileInv, FileTypeOK, ConfigBecomes, RowsOf
  <2>3. s \in AdminState /\ s.pc = "found" /\ s.row = {c}
    BY DEF NewAdmin, AdminState
  <2>4. \A b \in Admins : /\ Late(b) \in AdminState /\ Late(b).pc = admin[b].pc
                          /\ Late(b).missed /\ admin[b] \in AdminState
    BY DEF FileInv, FileTypeOK, AdminState
  <2> HIDE DEF new, s, Late
  <2>5. /\ admin' \in [Admins -> AdminState] /\ admin'[a] = s
        /\ \A b \in Admins \ {a} : admin'[b] = IF admin[b].pc = "missing" THEN Late(b) ELSE admin[b]
    BY <2>1, <2>3, <2>4
  <2>6. /\ admin[a].missed \in BOOLEAN /\ twins \in BOOLEAN
        /\ ~admin[a].missed => RowsOf(config) = {}
    BY <2>1 DEF FileInv, FileTypeOK, AdminState, RowsSound
  <2>7. RowsSound'
    <3>1. ASSUME NEW b \in Admins
          PROVE  /\ admin'[b].pc \in {"found", "loaded"} =>
                        admin'[b].row # {} /\ admin'[b].row \subseteq RowsOf(config)'
                 /\ ~(admin'[b].pc = "missing" /\ ~admin'[b].missed)
      <4>1. CASE b = a
        BY <2>2, <2>3, <2>5, <4>1
      <4>2. CASE b # a
        BY <2>2, <2>4, <2>5, <4>2 DEF FileInv, RowsSound
      <4> QED
        BY <4>1, <4>2
    <3>2. ~twins' => RowsOf(config)' = {c}
      BY <2>1, <2>2, <2>6
    <3>3. RowsOf(config)' # {}
      BY <2>2
    <3> QED
      BY <3>1, <3>2, <3>3 DEF RowsSound
  <2>8. UpdatesTakeHold'
    <3>1. ~twins' => latest = NoStore
      BY <2>1, <2>6 DEF FileInv, RowsSound
    <3> QED
      BY <2>1, <3>1 DEF UpdatesTakeHold
  <2> QED
    BY <2>1, <2>2, <2>5, <2>6, <2>7, <2>8, ConfigMoves DEF FileInv, FileTypeOK
\* The only row gets the store, or some of the twins.
<1>3. ASSUME NEW x \in Stores, UpdateConfig(a, x) PROVE FileInv'
  <2> DEFINE new == [c \in ConfigRows |-> IF c \in admin[a].row THEN x ELSE config[c]]
             s == [NewAdmin EXCEPT !.pc = "done"]
  <2>1. /\ admin[a].pc = "loaded" /\ ConfigBecomes(new) /\ latest' = x /\ twins' = twins
        /\ UNCHANGED << objects, acked, touched, leftover >>
        /\ admin' = [admin EXCEPT ![a] = s]
    BY <1>3 DEF UpdateConfig
  <2>2. admin[a].row # {} /\ admin[a].row \subseteq RowsOf(config)
    BY <2>1 DEF FileInv, RowsSound
  <2>3. /\ new \in [ConfigRows -> Stores \cup {NoStore}] /\ config' = new
        /\ RowsOf(new) = RowsOf(config) /\ RowsOf(config)' = RowsOf(new)
        /\ Denoted(config)' = Denoted(new)
    <3>1. new \in [ConfigRows -> Stores \cup {NoStore}] /\ RowsOf(new) = RowsOf(config)
      BY <2>2, StoresAssumption DEF FileInv, FileTypeOK, RowsOf
    <3> QED
      BY <2>1, <3>1 DEF ConfigBecomes, RowsOf, Denoted
  <2>4. s \in AdminState /\ s.pc = "done"
    BY DEF NewAdmin, AdminState
  <2>5. ~twins => Denoted(new) = {x}
    <3> SUFFICES ASSUME ~twins PROVE Denoted(new) = {x}
      OBVIOUS
    <3>1. RowsOf(config) = admin[a].row
      BY <2>2 DEF FileInv, RowsSound
    <3>2. \A c \in RowsOf(new) : new[c] = x
      BY <2>3, <3>1 DEF RowsOf
    <3> QED
      BY <2>2, <2>3, <3>1, <3>2 DEF Denoted
  <2> HIDE DEF new, s
  <2>6. RowsSound'
    <3>1. admin'[a] = s /\ \A b \in Admins \ {a} : admin'[b] = admin[b]
      BY <2>1 DEF FileInv, FileTypeOK
    <3> QED
      BY <2>1, <2>2, <2>3, <2>4, <3>1 DEF FileInv, RowsSound
  <2>7. UpdatesTakeHold'
    BY <2>1, <2>3, <2>5 DEF UpdatesTakeHold
  <2> QED
    BY <2>1, <2>3, <2>4, <2>6, <2>7, ConfigMoves DEF FileInv, FileTypeOK
<1>4. CASE AdminStops(a)
  <2> DEFINE s == [NewAdmin EXCEPT !.pc = "done"]
  <2>1. s \in AdminState /\ s.pc = "done"
    BY DEF NewAdmin, AdminState
  <2> HIDE DEF s
  <2>2. admin' = [admin EXCEPT ![a] = s]
    BY <1>4 DEF AdminStops, s
  <2> QED
    BY <1>4, <2>1, <2>2, AdminMoves DEF AdminStops
<1>5. CASE LoadConfig(a)
  <2> DEFINE s == [admin[a] EXCEPT !.pc = "loaded"]
  <2>1. admin[a] \in AdminState /\ admin[a].pc = "found"
    BY <1>5 DEF LoadConfig, FileInv, FileTypeOK
  <2>2. s \in AdminState /\ s.pc = "loaded" /\ s.row = admin[a].row
    BY <2>1 DEF AdminState
  <2>3. s.row # {} /\ s.row \subseteq RowsOf(config)
    BY <2>1, <2>2 DEF FileInv, RowsSound
  <2>4. admin' = [admin EXCEPT ![a] = s]
    BY <1>5 DEF LoadConfig
  <2> HIDE DEF s
  <2> QED
    BY <1>5, <2>2, <2>3, <2>4, AdminMoves DEF LoadConfig
<1> QED
  BY <1>1, <1>2, <1>3, <1>4, <1>5 DEF AdminStep

-----------------------------------------------------------------------------
\* The invariant holds throughout.
LEMMA FileInvariant == FileSpec => []FileInv
<1>1. FileInit => FileInv
  <2> SUFFICES ASSUME FileInit PROVE FileInv
    OBVIOUS
  <2>1. FileTypeOK
    BY NewClientType DEF FileInit, FileTypeOK
  <2>2. RowsOf(config) = {} /\ Denoted(config) = {DefaultStore}
    BY DEF FileInit, RowsOf, Denoted
  <2>3. /\ \A u \in Clients : client[u].pc = "idle"
        /\ \A a \in Admins : admin[a].pc = "idle"
    BY NewClientType DEF FileInit
  <2>4. HandlesSound /\ NamesApart /\ UploadsSound
    BY <2>3 DEF HandlesSound, NamesApart, UploadsSound, Uploading
  <2>5. RowsSound /\ AcknowledgedAreServed /\ UpdatesTakeHold
    BY <2>2, <2>3 DEF RowsSound, AcknowledgedAreServed, UpdatesTakeHold, FileInit
  <2> QED
    BY <2>1, <2>4, <2>5 DEF FileInv
<1>2. FileInv /\ [FileNext]_fileVars => FileInv'
  <2> SUFFICES ASSUME FileInv, [FileNext]_fileVars PROVE FileInv'
    OBVIOUS
  <2>1. CASE UNCHANGED fileVars
    <3>1. /\ UNCHANGED << config, objects, client, admin, acked, touched, astray, leftover >>
          /\ UNCHANGED << latest, twins >>
      BY <2>1 DEF fileVars
    <3>2. Denoted(config)' = Denoted(config) /\ RowsOf(config)' = RowsOf(config)
      BY <3>1 DEF Denoted, RowsOf
    <3>3. FileTypeOK' /\ HandlesSound' /\ RowsSound'
      BY <3>1, <3>2 DEF FileInv, FileTypeOK, HandlesSound, RowsSound
    <3>4. NamesApart' /\ UploadsSound'
      BY <3>1 DEF FileInv, NamesApart, UploadsSound
    <3>5. AcknowledgedAreServed' /\ UpdatesTakeHold'
      BY <3>1, <3>2 DEF FileInv, AcknowledgedAreServed, UpdatesTakeHold
    <3> QED
      BY <3>3, <3>4, <3>5 DEF FileInv
  <2> QED
    BY <2>1, ClientKeeps, AdminKeeps DEF FileNext
<1> QED
  BY <1>1, <1>2, PTL DEF FileSpec

\* An acknowledged upload can be read through every handle that a request gets, unless a
\* fallback or a change of the configuration came between: its names were new, so that no
\* cleanup of another request and no deletion but one that was asked for meets them.
THEOREM AcknowledgedServed == FileSpec => []AcknowledgedAreServed
<1>1. FileInv => AcknowledgedAreServed
  BY DEF FileInv
<1> QED
  BY <1>1, FileInvariant, PTL

\* A refused upload leaves nothing but what it failed to erase: each name is noted before
\* its write, and the cleanup goes through all of them.
THEOREM RefusedCleaned == FileSpec => []RefusedUploadsLeaveNothing
<1>1. FileInv => RefusedUploadsLeaveNothing
  <2> SUFFICES ASSUME FileInv, NEW u \in Clients, client[u].pc = "refused",
                      NEW f \in client[u].paths, f \in Stored
               PROVE  f \in leftover
    BY DEF RefusedUploadsLeaveNothing
  <2>1. PICK x \in Stores : f \in objects[x]
    BY DEF Stored
  <2>2. x = client[u].store
    BY <2>1 DEF FileInv, NamesApart, Uploading
  <2> QED
    BY <2>1, <2>2 DEF FileInv, UploadsSound
<1> QED
  BY <1>1, FileInvariant, PTL

\* After an update every handle denotes what it set: there is one row, and the update is of
\* it, unless a request inserted a row that another one inserted after it had looked.
THEOREM UpdatesHold == FileSpec => []UpdatesTakeHold
<1>1. FileInv => UpdatesTakeHold
  BY DEF FileInv
<1> QED
  BY <1>1, FileInvariant, PTL

-----------------------------------------------------------------------------
(* Replicas.                                                               *)

Works(r) == req[r].pc = "work"
Plain(s) == s.op \in {"upload", "stream", "delete"}
Twofold(s) == s.op \in {"copy", "rename"}
Content(r) == IF req[r].op = "delete" THEN Absent ELSE r

\* Of the first n secondaries, those that differ from the primary.
Lagging(held, n, p) == {k \in 1 .. n : held[k][p] # held[0][p]}

\* A request has met at most one error at each store that it went on from.
TurnsSound ==
    \A r \in Requesters : Works(r) =>
        /\ req[r].store \in 0 .. Last
        /\ req[r].errors = 0 \/ req[r].errors < req[r].store
        /\ Twofold(req[r]) <=> req[r].from # req[r].to

\* A request that met no other one shares no path with one that writes it.
ApartSound ==
    \A r, q \in Requesters : Works(r) /\ Works(q) /\ r # q /\ ~req[r].crossed =>
        ~Meet(req[r], req[q])

\* Nobody is writing a path that was acknowledged.
SureSound == \A r \in Requesters : Works(r) => WrittenBy(req[r]) \cap sure = {}

\* Where an upload or a deletion has been, it was done or there was an error.
PlainSound ==
    \A r \in Requesters : Works(r) /\ Plain(req[r]) /\ ~req[r].crossed =>
        /\ req[r].store > 0 => object[0][req[r].to] = Content(r)
        /\ Cardinality(Lagging(object, req[r].store - 1, req[r].to)) <= req[r].errors

\* A copy or rename of what was the same everywhere has left the same at the first n
\* stores, and finds the same at the others.
Alike(held, s, n) ==
    /\ \A k \in 0 .. Last : n <= k =>
          held[k][s.from] = IF n = 0 \/ s.op = "copy" THEN held[0][s.from] ELSE held[0][s.to]
    /\ \A k \in 0 .. Last : k < n =>
          held[k][s.to] = held[0][s.to] /\ held[k][s.from] = held[0][s.from]
    /\ n > 0 /\ s.op = "copy" => held[0][s.to] = held[0][s.from]
    /\ n > 0 /\ s.op = "rename" => held[0][s.from] = Absent

TwofoldSound ==
    \A r \in Requesters :
        LET s == req[r] IN
        (Works(r) /\ Twofold(s) /\ ~s.crossed /\ s.clear /\ Strict /\ s.errors = 0) =>
            Alike(object, s, s.store)

ReplicaInv ==
    /\ ReplicaTypeOK
    /\ TurnsSound /\ ApartSound /\ SureSound /\ PlainSound /\ TwofoldSound
    /\ AcknowledgedCopies

-----------------------------------------------------------------------------

LEMMA LastStore == Last \in 0 .. Backups /\ (Last = 0 => failureMode = "Single")
BY BackupsAssumption DEF Last

LEMMA LaggingFinite ==
    ASSUME NEW held, NEW n \in Int, NEW p
    PROVE  IsFiniteSet(Lagging(held, n, p)) /\ Cardinality(Lagging(held, n, p)) \in Nat
<1>1. IsFiniteSet(1 .. n)
  BY FS_Interval
<1>2. Lagging(held, n, p) \in SUBSET (1 .. n)
  BY DEF Lagging
<1> QED
  BY <1>1, <1>2, FS_Subset, FS_CardinalityType

\* No more secondaries differ than there are.
LEMMA LaggingBound ==
    ASSUME NEW held, NEW p
    PROVE  Cardinality(Lagging(held, Last, p)) <= Backups
<1>1. IsFiniteSet(1 .. Backups) /\ Cardinality(1 .. Backups) = Backups
  BY FS_Interval, BackupsAssumption
<1>2. Lagging(held, Last, p) \in SUBSET (1 .. Backups)
  BY LastStore, BackupsAssumption DEF Lagging
<1> QED
  BY <1>1, <1>2, FS_Subset

LEMMA ToleratedType == failureMode \in Modes => Tolerated \in Nat
<1> SUFFICES ASSUME failureMode \in Modes PROVE Tolerated \in Nat
  OBVIOUS
<1>1. CASE Strict
  BY <1>1 DEF Tolerated, Strict
<1>2. CASE ~Strict /\ failureMode = "CountFailure"
  BY <1>2, FailureCountAssumption DEF Tolerated, Strict
<1>3. CASE ~Strict /\ failureMode # "CountFailure"
  BY <1>3, BackupsAssumption DEF Tolerated
<1> QED
  BY <1>1, <1>2, <1>3

\* An acknowledgement after so many errors tolerates them.
LEMMA VerdictTolerates ==
    ASSUME failureMode \in Modes, NEW errors \in 0 .. Backups, ~ShouldFail(errors)
    PROVE  (failureMode # "Single" => errors <= Tolerated) /\ Tolerated \in Int
BY BackupsAssumption, FailureCountAssumption
   DEF Modes, MirrorModes, ShouldFail, Tolerated, Strict

LEMMA StrictVerdict ==
    ASSUME failureMode \in Modes, Strict, NEW errors \in 0 .. Backups, ~ShouldFail(errors)
    PROVE  failureMode = "Single" \/ errors = 0
BY FailureCountAssumption DEF Modes, MirrorModes, ShouldFail, Strict

LEMMA NoRequestType ==
    /\ NoRequest \in RequestState
    /\ NoRequest.pc = "idle" /\ NoRequest.store = 0 /\ NoRequest.errors = 0
BY PathsAssumption, BackupsAssumption DEF NoRequest, RequestState, Operations, Reads, Replicated, Contents

LEMMA ReplicaInvInit == ReplicaInit => ReplicaInv
<1> SUFFICES ASSUME ReplicaInit PROVE ReplicaInv
  OBVIOUS
<1>1. NoRequest \in RequestState /\ NoRequest.pc = "idle"
  BY NoRequestType
<1>2. ReplicaTypeOK
  BY <1>1, FaultsAssumption DEF ReplicaInit, ReplicaTypeOK, Contents
<1>3. \A r \in Requesters : ~Works(r)
  BY <1>1 DEF ReplicaInit, Works
<1>4. AcknowledgedCopies
  <2> SUFFICES ASSUME NEW p \in Paths PROVE Cardinality(Differing(p)) <= Tolerated
    BY DEF AcknowledgedCopies, ReplicaInit
  <2>1. Differing(p) = {}
    BY LastStore, BackupsAssumption DEF ReplicaInit, Differing, Replicated
  <2>2. Cardinality(Differing(p)) = 0
    BY <2>1, FS_EmptySet
  <2>3. Tolerated >= 0
    BY ToleratedType DEF ReplicaInit
  <2> QED
    BY <2>2, <2>3
<1> QED
  BY <1>2, <1>3, <1>4 DEF ReplicaInv, TurnsSound, ApartSound, SureSound, PlainSound, TwofoldSound

-----------------------------------------------------------------------------
(* A turn at a store.                                                      *)

\* What a request becomes after its turn.
LEMMA TurnTypes ==
    ASSUME ReplicaTypeOK, TurnsSound, NEW r \in Requesters, Works(r),
           NEW errors \in {req[r].errors, req[r].errors + 1}
    PROVE  /\ AfterTurn(req[r], errors) \in RequestState
           /\ errors \in 0 .. Backups
           /\ \A f \in {"op", "from", "to", "crossed", "clear", "got"} :
                 AfterTurn(req[r], errors)[f] = req[r][f]
           /\ AfterTurn(req[r], errors).errors = errors
           /\ AfterTurn(req[r], errors).pc = "work" =>
                 /\ AfterTurn(req[r], errors).store = req[r].store + 1
                 /\ req[r].store < Last
                 /\ errors = 0 \/ errors < req[r].store + 1
           /\ AfterTurn(req[r], errors).pc = "ok" =>
                 req[r].store = Last /\ (IF Last = 0 THEN errors = 0 ELSE ~ShouldFail(errors))
<1> DEFINE s == req[r]
<1>1. s \in RequestState /\ s.pc = "work"
  BY DEF ReplicaTypeOK, Works
<1>2. /\ s.errors \in 0 .. Backups /\ s.store \in 0 .. Last
      /\ s.errors = 0 \/ s.errors < s.store
  BY <1>1 DEF TurnsSound, RequestState
<1>3. errors \in 0 .. Backups
  BY <1>2, LastStore, BackupsAssumption
<1>4. s.store # Last => s.store + 1 \in Replicated
  BY <1>2, LastStore, BackupsAssumption DEF Replicated
<1>5. CASE Fails(s, errors)
  <2>1. AfterTurn(s, errors) = [s EXCEPT !.errors = errors, !.pc = "error"]
    BY <1>5 DEF AfterTurn
  <2> QED
    BY <1>1, <1>3, <2>1 DEF RequestState
<1>6. CASE ~Fails(s, errors) /\ s.store = Last
  <2>1. AfterTurn(s, errors) = [s EXCEPT !.errors = errors, !.pc = "ok"]
    BY <1>6 DEF AfterTurn
  <2>2. IF Last = 0 THEN errors = 0 ELSE ~ShouldFail(errors)
    BY <1>3, <1>6 DEF Fails
  <2> QED
    BY <1>1, <1>3, <1>6, <2>1, <2>2 DEF RequestState
<1>7. CASE ~Fails(s, errors) /\ s.store # Last
  <2>1. AfterTurn(s, errors) = [s EXCEPT !.errors = errors, !.store = @ + 1]
    BY <1>7 DEF AfterTurn
  <2>2. errors = 0 \/ errors < s.store + 1
    BY <1>2, <1>3, <1>7, LastStore DEF Fails
  <2>3. AfterTurn(s, errors) \in RequestState
    BY <1>1, <1>3, <1>4, <1>7, <2>1 DEF RequestState
  <2>4. s.store < Last
    BY <1>2, <1>7, LastStore
  <2> QED
    BY <1>1, <1>3, <2>1, <2>2, <2>3, <2>4 DEF RequestState
<1> QED
  BY <1>5, <1>6, <1>7

\* Either what was asked for is done at the store, or an error is counted and nothing
\* but the paths that the request writes has changed.
Done(r, files, errors) ==
    /\ errors = req[r].errors
    /\ Possible(req[r], object[req[r].store])
    /\ files = Result(r, object[req[r].store])
Erred(r, files, errors) ==
    /\ errors = req[r].errors + 1
    /\ \A p \in Paths \ WrittenBy(req[r]) : files[p] = object[req[r].store][p]

TurnOf(r, files, errors) ==
    /\ Writing(r)
    /\ files \in [Paths -> Contents]
    /\ Done(r, files, errors) \/ Erred(r, files, errors)
    /\ Turn(r, files, errors)

LEMMA ResultType ==
    ASSUME ReplicaTypeOK, NEW r \in Requesters, Writing(r), NEW files \in [Paths -> Contents]
    PROVE  /\ Result(r, files) \in [Paths -> Contents]
           /\ \A p \in Paths \ WrittenBy(req[r]) : Result(r, files)[p] = files[p]
<1>1. req[r].from \in Paths /\ req[r].to \in Paths /\ req[r].op \in Operations
  BY DEF ReplicaTypeOK, RequestState
<1>2. r \in Contents /\ Absent \in Contents
  BY DEF Contents
<1> QED
  BY <1>1, <1>2 DEF Result, Writing, Operations, WrittenBy

LEMMA TurnsAreTurns ==
    ASSUME ReplicaTypeOK, NEW r \in Requesters, StoreDoes(r) \/ StoreErrs(r)
    PROVE  \E files, errors : TurnOf(r, files, errors)
<1> DEFINE held == object[req[r].store]
<1>1. held \in [Paths -> Contents] /\ req[r].store \in Replicated /\ Writing(r)
  BY DEF ReplicaTypeOK, RequestState, StoreDoes, StoreErrs
<1>2. Result(r, held) \in [Paths -> Contents]
      /\ \A p \in Paths \ WrittenBy(req[r]) : Result(r, held)[p] = held[p]
  BY <1>1, ResultType
<1>3. CASE StoreDoes(r)
  <2>1. CASE Possible(req[r], held) /\ Turn(r, Result(r, held), req[r].errors)
    <3>1. Done(r, Result(r, held), req[r].errors)
      BY <2>1 DEF Done
    <3> QED
      BY <1>1, <1>2, <2>1, <3>1 DEF TurnOf
  <2>2. CASE Turn(r, held, req[r].errors + 1)
    <3>1. Erred(r, held, req[r].errors + 1)
      BY DEF Erred
    <3> QED
      BY <1>1, <2>2, <3>1 DEF TurnOf
  <2> QED
    BY <1>3, <2>1, <2>2 DEF StoreDoes
<1>4. CASE StoreErrs(r)
  <2>1. PICK files \in Leftovers(r, held) : Turn(r, files, req[r].errors + 1)
    BY <1>4 DEF StoreErrs
  <2>2. files \in [Paths -> Contents]
        /\ \A p \in Paths \ WrittenBy(req[r]) : files[p] = held[p]
    <3>1. req[r].from \in Paths /\ req[r].to \in Paths
      BY DEF ReplicaTypeOK, RequestState
    <3>2. CASE files \in {held, Result(r, held)}
      BY <1>1, <1>2, <3>2
    <3>3. CASE req[r].op = "rename" /\ files = [held EXCEPT ![req[r].to] = held[req[r].from]]
      BY <1>1, <3>1, <3>3 DEF WrittenBy
    <3> QED
      BY <2>1, <3>2, <3>3 DEF Leftovers
  <2>3. Erred(r, files, req[r].errors + 1)
    BY <2>2 DEF Erred
  <2> QED
    BY <1>1, <2>1, <2>2, <2>3 DEF TurnOf
<1> QED
  BY <1>3, <1>4

\* What a turn leaves as it is.
LEMMA TurnFrame ==
    ASSUME ReplicaTypeOK, TurnsSound, NEW r \in Requesters, NEW files, NEW errors,
           TurnOf(r, files, errors)
    PROVE  /\ faults' \in 0 .. MaxFaults => ReplicaTypeOK'
           /\ Works(r) /\ req[r] \in RequestState /\ errors \in {req[r].errors, req[r].errors + 1}
           /\ req'[r] = AfterTurn(req[r], errors)
           /\ \A q \in Requesters : q # r => req'[q] = req[q]
           /\ object'[req[r].store] = files
           /\ \A k \in Replicated : k # req[r].store => object'[k] = object[k]
           /\ \A k \in Replicated, p \in Paths \ WrittenBy(req[r]) :
                 object'[k][p] = object[k][p]
           /\ failureMode' = failureMode /\ Last' = Last /\ Strict' = Strict
           /\ sure \subseteq sure' /\ sure' \subseteq sure \cup WrittenBy(req[r])
<1>1. /\ req[r] \in RequestState /\ req \in [Requesters -> RequestState] /\ Works(r)
      /\ object \in [Replicated -> [Paths -> Contents]]
  BY DEF ReplicaTypeOK, TurnOf, Writing, Works
<1>2. errors \in {req[r].errors, req[r].errors + 1}
  BY DEF TurnOf, Done, Erred
<1>3. AfterTurn(req[r], errors) \in RequestState
  BY <1>1, <1>2, TurnTypes
<1>4. /\ req' = [req EXCEPT ![r] = AfterTurn(req[r], errors)]
      /\ object' = [object EXCEPT ![req[r].store] = files]
      /\ sure' = Vouches(r, AfterTurn(req[r], errors))
      /\ failureMode' = failureMode
  BY DEF TurnOf, Turn
<1>5. sure \subseteq sure' /\ sure' \subseteq sure \cup WrittenBy(req[r])
  BY <1>4 DEF Vouches
<1>6. WrittenBy(req[r]) \subseteq Paths
  BY <1>1 DEF RequestState, WrittenBy
<1>7. req[r].store \in Replicated /\ files \in [Paths -> Contents]
  BY <1>1 DEF RequestState, TurnOf
<1>8. \A p \in Paths \ WrittenBy(req[r]) : files[p] = object[req[r].store][p]
  BY <1>1, <1>7, ResultType DEF TurnOf, Done, Erred
<1>9. faults' \in 0 .. MaxFaults => ReplicaTypeOK'
  BY <1>1, <1>3, <1>4, <1>5, <1>6, <1>7 DEF ReplicaTypeOK
<1>10. Last' = Last /\ Strict' = Strict
  BY <1>4 DEF Last, Strict
<1> QED
  BY <1>1, <1>2, <1>4, <1>5, <1>7, <1>8, <1>9, <1>10

\* The requests and what they share.
LEMMA TurnKeepsApart ==
    ASSUME ReplicaInv, NEW r \in Requesters, NEW files, NEW errors, TurnOf(r, files, errors)
    PROVE  TurnsSound' /\ ApartSound' /\ SureSound'
<1>0. ReplicaTypeOK /\ TurnsSound
  BY DEF ReplicaInv
<1> DEFINE t == AfterTurn(req[r], errors)
<1>1. /\ Works(r) /\ errors \in {req[r].errors, req[r].errors + 1}
      /\ req'[r] = t /\ \A q \in Requesters : q # r => req'[q] = req[q]
      /\ Last' = Last
      /\ sure' \subseteq sure \cup WrittenBy(req[r])
  BY <1>0, TurnFrame
<1>7. sure' = Vouches(r, t)
  BY DEF TurnOf, Turn
<1>2. /\ t.op = req[r].op /\ t.from = req[r].from /\ t.to = req[r].to /\ t.crossed = req[r].crossed
      /\ t.errors = errors
      /\ t.pc = "work" => /\ t.store = req[r].store + 1 /\ req[r].store < Last
                          /\ errors = 0 \/ errors < req[r].store + 1
  BY <1>0, <1>1, TurnTypes
<1>3. TurnsSound'
  BY <1>0, <1>1, <1>2, LastStore DEF TurnsSound, Works, Twofold
<1>4. \A q \in Requesters : /\ Works(q)' => Works(q)
                            /\ WrittenBy(req'[q]) = WrittenBy(req[q])
                            /\ Uses(req'[q]) = Uses(req[q])
                            /\ req'[q].crossed = req[q].crossed
  BY <1>1, <1>2 DEF Works, WrittenBy, Uses
<1>5. ApartSound'
  BY <1>4 DEF ReplicaInv, ApartSound, Meet
<1>6. SureSound'
  <2> SUFFICES ASSUME NEW q \in Requesters, Works(q)' PROVE WrittenBy(req[q]) \cap sure' = {}
    BY <1>4 DEF SureSound
  <2>1. CASE sure' = sure
    BY <1>4, <2>1 DEF ReplicaInv, SureSound
  <2>2. CASE sure' # sure
    <3>1. t.pc = "ok" /\ ~req[r].crossed
      BY <1>7, <2>2 DEF Vouches
    <3>2. q # r
      BY <1>1, <3>1 DEF Works
    <3>3. ~Meet(req[r], req[q])
      BY <1>1, <1>4, <3>1, <3>2 DEF ReplicaInv, ApartSound
    <3>4. WrittenBy(req[r]) \cap WrittenBy(req[q]) = {}
      BY <3>3 DEF Meet, WrittenBy, Uses
    <3> QED
      BY <1>1, <1>4, <3>4 DEF ReplicaInv, SureSound
  <2> QED
    BY <2>1, <2>2
<1> QED
  BY <1>3, <1>5, <1>6

\* An upload or deletion after its turn, if it goes on or is acknowledged.
LEMMA PlainTurn ==
    ASSUME ReplicaInv, NEW r \in Requesters, NEW files, NEW errors, TurnOf(r, files, errors),
           Plain(req[r]), ~req[r].crossed, AfterTurn(req[r], errors).pc \in {"work", "ok"}
    PROVE  /\ object'[0][req[r].to] = Content(r)
           /\ Cardinality(Lagging(object', req[r].store, req[r].to)) <= errors
<1> DEFINE n == req[r].store  to == req[r].to
<1>0. ReplicaTypeOK /\ TurnsSound
  BY DEF ReplicaInv
<1>1. /\ Works(r) /\ req[r] \in RequestState /\ errors \in {req[r].errors, req[r].errors + 1}
      /\ object'[n] = files
      /\ \A k \in Replicated : k # n => object'[k] = object[k]
  BY <1>0, TurnFrame
<1>2. /\ n \in 0 .. Last
      /\ req[r].errors = 0 \/ req[r].errors < n
      /\ n \in 0 .. Backups /\ errors \in Nat /\ req[r].errors \in Nat
  BY <1>0, <1>1, LastStore DEF TurnsSound, RequestState, Replicated
<1>3. n = 0 => errors = 0
  BY <1>0, <1>1, <1>2, TurnTypes
<1>4. Done(r, files, errors) => files[to] = Content(r) /\ errors = req[r].errors
  <2>1. object[n] \in [Paths -> Contents] /\ to \in Paths
    BY <1>0, <1>1 DEF ReplicaTypeOK, RequestState
  <2> QED
    BY <2>1 DEF Done, Result, Plain, Content
<1>5. Done(r, files, errors) \/ errors = req[r].errors + 1
  BY DEF TurnOf, Erred
<1>6. CASE n = 0
  <2>1. object'[0][to] = Content(r)
    BY <1>1, <1>2, <1>3, <1>4, <1>5, <1>6
  <2>2. Lagging(object', 0, to) = {}
    BY DEF Lagging
  <2> QED
    BY <1>3, <1>6, <2>1, <2>2, FS_EmptySet
<1>7. CASE n > 0
  <2>1. object'[0] = object[0] /\ object[0][to] = Content(r)
        /\ Cardinality(Lagging(object, n - 1, to)) <= req[r].errors
    BY <1>1, <1>2, <1>7, BackupsAssumption DEF ReplicaInv, PlainSound, Replicated
  <2>2. \A k \in 1 .. n : k = n \/ object'[k] = object[k]
    BY <1>1, <1>2, BackupsAssumption DEF Replicated
  <2>3. IsFiniteSet(Lagging(object, n - 1, to)) /\ Cardinality(Lagging(object, n - 1, to)) \in Nat
    BY <1>2, LaggingFinite
  <2>4. CASE Done(r, files, errors)
    <3>1. Lagging(object', n, to) = Lagging(object, n - 1, to)
      BY <1>1, <1>2, <1>4, <1>7, <2>1, <2>2, <2>4 DEF Lagging
    <3> QED
      BY <1>4, <2>1, <2>4, <3>1
  <2>5. CASE errors = req[r].errors + 1
    <3> DEFINE most == Lagging(object, n - 1, to) \cup {n}
    <3>1. Lagging(object', n, to) \in SUBSET most
      BY <1>2, <1>7, <2>1, <2>2 DEF Lagging
    <3>2. IsFiniteSet(most) /\ Cardinality(most) <= Cardinality(Lagging(object, n - 1, to)) + 1
      <4> HIDE DEF to
      <4>1. \A S : IsFiniteSet(S) =>
                /\ IsFiniteSet(S \cup {n})
                /\ Cardinality(S \cup {n}) \in {Cardinality(S), Cardinality(S) + 1}
        BY FS_AddElement
      <4> QED
        BY <2>3, <4>1
    <3>3. Cardinality(Lagging(object', n, to)) <= Cardinality(most)
      BY <3>1, <3>2, FS_Subset
    <3>4. Cardinality(most) \in Nat /\ Cardinality(Lagging(object', n, to)) \in Nat
      BY <1>2, <3>2, LaggingFinite, FS_CardinalityType
    <3> QED
      BY <1>2, <2>1, <2>3, <2>5, <3>2, <3>3, <3>4
  <2> QED
    BY <1>5, <1>7, <2>1, <2>4, <2>5
<1> QED
  BY <1>2, <1>6, <1>7

\* A copy or rename after its turn, if there was no error.
LEMMA TwofoldTurn ==
    ASSUME ReplicaInv, NEW r \in Requesters, NEW files, NEW errors, TurnOf(r, files, errors),
           Twofold(req[r]), ~req[r].crossed, req[r].clear, Strict, errors = 0
    PROVE  Alike(object', req[r], req[r].store + 1)
<1> DEFINE n == req[r].store  from == req[r].from  to == req[r].to
<1>0. ReplicaTypeOK /\ TurnsSound
  BY DEF ReplicaInv
<1>1. /\ Works(r) /\ req[r] \in RequestState /\ errors \in {req[r].errors, req[r].errors + 1}
      /\ object'[n] = files
      /\ \A k \in Replicated : k # n => object'[k] = object[k]
  BY <1>0, TurnFrame
<1>2. /\ n \in 0 .. Last /\ 0 .. Last \subseteq Replicated /\ n \in Replicated
      /\ from # to /\ from \in Paths /\ to \in Paths
      /\ req[r].errors \in Nat /\ object[n] \in [Paths -> Contents]
  <2>1. n \in 0 .. Last /\ from # to
    BY <1>0, <1>1 DEF TurnsSound
  <2>2. 0 .. Last \subseteq Replicated
    BY LastStore, BackupsAssumption DEF Replicated
  <2>3. from \in Paths /\ to \in Paths /\ req[r].errors \in Nat /\ n \in Replicated
    BY <1>1 DEF RequestState
  <2> QED
    BY <1>0, <2>1, <2>2, <2>3 DEF ReplicaTypeOK
<1>3. Done(r, files, errors) /\ req[r].errors = 0
  BY <1>2 DEF TurnOf, Done, Erred
<1>4. /\ files[to] = object[n][from]
      /\ files[from] = IF req[r].op = "copy" THEN object[n][from] ELSE Absent
  BY <1>2, <1>3 DEF Done, Result, Twofold
<1>5. Alike(object, req[r], n)
  BY <1>1, <1>3 DEF ReplicaInv, TwofoldSound
<1>6. \A k \in 0 .. Last : k # n => object'[k] = object[k]
  BY <1>1, <1>2
<1>7. Last \in Nat
  BY LastStore
<1>8. CASE n = 0
  BY <1>1, <1>2, <1>4, <1>5, <1>6, <1>7, <1>8 DEF Alike, Twofold
<1>9. CASE n > 0
  BY <1>1, <1>2, <1>4, <1>5, <1>6, <1>7, <1>9 DEF Alike, Twofold
<1> QED
  BY <1>2, <1>8, <1>9

\* An uncrossed request finds its paths as they were.
LEMMA OthersTurn ==
    ASSUME ReplicaInv, NEW r \in Requesters, NEW files, NEW errors, TurnOf(r, files, errors),
           NEW q \in Requesters, q # r, Works(q)', ~req'[q].crossed
    PROVE  /\ req'[q] = req[q] /\ Works(q)
           /\ req[q].store \in 0 .. Last
           /\ object'[0][req[q].to] = object[0][req[q].to]
           /\ \A k \in 0 .. Last : /\ object'[k][req[q].to] = object[k][req[q].to]
                                   /\ object'[k][req[q].from] = object[k][req[q].from]
<1>0. ReplicaTypeOK /\ TurnsSound
  BY DEF ReplicaInv
<1>1. /\ Works(r) /\ req'[q] = req[q]
      /\ \A k \in Replicated, p \in Paths \ WrittenBy(req[r]) : object'[k][p] = object[k][p]
  BY <1>0, TurnFrame
<1>2. Works(q) /\ ~req[q].crossed
  BY <1>1 DEF Works
<1>3. ~Meet(req[q], req[r])
  BY <1>1, <1>2 DEF ReplicaInv, ApartSound
<1>4. req[q].from \in Paths \ WrittenBy(req[r]) /\ req[q].to \in Paths \ WrittenBy(req[r])
  BY <1>0, <1>3 DEF ReplicaTypeOK, RequestState, Meet, Uses
<1>5. 0 .. Last \subseteq Replicated /\ 0 \in Replicated
  BY LastStore, BackupsAssumption DEF Replicated
<1> QED
  BY <1>0, <1>1, <1>2, <1>4, <1>5 DEF TurnsSound

LEMMA TurnKeepsCopies ==
    ASSUME ReplicaInv, NEW r \in Requesters, NEW files, NEW errors, TurnOf(r, files, errors)
    PROVE  PlainSound' /\ TwofoldSound'
<1> DEFINE t == AfterTurn(req[r], errors)
<1>0. ReplicaTypeOK /\ TurnsSound
  BY DEF ReplicaInv
<1>1. /\ Works(r) /\ req[r] \in RequestState /\ errors \in {req[r].errors, req[r].errors + 1}
      /\ req'[r] = t
      /\ Last' = Last /\ Strict' = Strict
  BY <1>0, TurnFrame
<1>2. /\ t.op = req[r].op /\ t.from = req[r].from /\ t.to = req[r].to
      /\ t.crossed = req[r].crossed /\ t.clear = req[r].clear /\ t.errors = errors
      /\ t.pc = "work" => t.store = req[r].store + 1
  BY <1>0, <1>1, TurnTypes
<1>3. Last \in Nat /\ req[r].store \in Nat
  BY <1>1, LastStore DEF RequestState, Replicated
<1>4. PlainSound'
  <2> SUFFICES ASSUME NEW q \in Requesters, Works(q)', Plain(req'[q]), ~req'[q].crossed
               PROVE  /\ req'[q].store > 0 => object'[0][req'[q].to] = Content(q)'
                      /\ Cardinality(Lagging(object', req'[q].store - 1, req'[q].to)) <= req'[q].errors
    BY DEF PlainSound
  <2>1. CASE q = r
    <3>1. Plain(req[r]) /\ ~req[r].crossed /\ t.pc = "work"
      BY <1>1, <1>2, <2>1 DEF Plain, Works
    <3>2. /\ object'[0][req[r].to] = Content(r)
          /\ Cardinality(Lagging(object', req[r].store, req[r].to)) <= errors
      BY <3>1, PlainTurn
    <3>3. Content(r)' = Content(r)
      BY <1>1, <1>2 DEF Content
    <3>4. t.store - 1 = req[r].store
      BY <1>2, <1>3, <3>1
    <3> QED
      BY <1>1, <1>2, <2>1, <3>2, <3>3, <3>4
  <2>2. CASE q # r
    <3>1. /\ req'[q] = req[q] /\ Works(q)
          /\ req[q].store \in 0 .. Last
          /\ object'[0][req[q].to] = object[0][req[q].to]
          /\ \A k \in 0 .. Last : object'[k][req[q].to] = object[k][req[q].to]
      BY <2>2, OthersTurn
    <3>2. Lagging(object', req[q].store - 1, req[q].to) = Lagging(object, req[q].store - 1, req[q].to)
      BY <1>3, <3>1 DEF Lagging
    <3>3. Content(q)' = Content(q)
      BY <3>1 DEF Content
    <3> QED
      BY <3>1, <3>2, <3>3 DEF ReplicaInv, PlainSound
  <2> QED
    BY <2>1, <2>2
<1>5. TwofoldSound'
  <2> SUFFICES ASSUME NEW q \in Requesters, Works(q)', Twofold(req'[q]), ~req'[q].crossed,
                      req'[q].clear, Strict, req'[q].errors = 0
               PROVE  Alike(object', req'[q], req'[q].store)
    BY <1>1 DEF TwofoldSound, Alike
  <2>1. CASE q = r
    <3>1. Twofold(req[r]) /\ ~req[r].crossed /\ req[r].clear /\ errors = 0 /\ t.pc = "work"
      BY <1>1, <1>2, <2>1 DEF Twofold, Works
    <3>2. Alike(object', req[r], req[r].store + 1)
      BY <3>1, TwofoldTurn
    <3> QED
      BY <1>1, <1>2, <2>1, <3>1, <3>2 DEF Alike
  <2>2. CASE q # r
    <3>1. /\ req'[q] = req[q] /\ Works(q)
          /\ object'[0][req[q].to] = object[0][req[q].to]
          /\ \A k \in 0 .. Last : /\ object'[k][req[q].to] = object[k][req[q].to]
                                  /\ object'[k][req[q].from] = object[k][req[q].from]
      BY <2>2, OthersTurn
    <3>2. Alike(object, req[q], req[q].store)
      BY <3>1 DEF ReplicaInv, TwofoldSound
    <3>3. 0 \in 0 .. Last
      BY <1>3
    <3> QED
      BY <1>1, <3>1, <3>2, <3>3 DEF Alike
  <2> QED
    BY <2>1, <2>2
<1> QED
  BY <1>4, <1>5

\* What an acknowledgement vouches for is true.
LEMMA TurnVouches ==
    ASSUME ReplicaInv, NEW r \in Requesters, NEW files, NEW errors, TurnOf(r, files, errors)
    PROVE  AcknowledgedCopies'
<1> DEFINE t == AfterTurn(req[r], errors)
<1>0. ReplicaTypeOK /\ TurnsSound
  BY DEF ReplicaInv
<1>1. /\ Works(r) /\ req[r] \in RequestState /\ errors \in {req[r].errors, req[r].errors + 1}
      /\ \A k \in Replicated, p \in Paths \ WrittenBy(req[r]) : object'[k][p] = object[k][p]
      /\ failureMode' = failureMode /\ Last' = Last
      /\ sure' \subseteq sure \cup WrittenBy(req[r])
  BY <1>0, TurnFrame
<1>2. /\ errors \in 0 .. Backups
      /\ t.op = req[r].op
      /\ t.pc = "ok" => req[r].store = Last /\ (IF Last = 0 THEN errors = 0 ELSE ~ShouldFail(errors))
  BY <1>0, <1>1, TurnTypes
<1>3. failureMode \in Modes /\ Tolerated \in Nat /\ Tolerated' = Tolerated
  BY <1>0, <1>1, ToleratedType DEF ReplicaTypeOK, Tolerated, Strict
<1>4. Last \in Nat /\ 0 .. Last \subseteq Replicated /\ (Last = 0 => failureMode = "Single")
  BY LastStore, BackupsAssumption DEF Replicated
<1> SUFFICES ASSUME NEW p \in sure' PROVE Cardinality(Lagging(object', Last, p)) <= Tolerated
  BY <1>1, <1>3 DEF AcknowledgedCopies, Differing, Lagging
<1>5. CASE p \in sure
  <2>1. p \in Paths \ WrittenBy(req[r])
    BY <1>0, <1>1, <1>5 DEF ReplicaInv, SureSound, ReplicaTypeOK
  <2>2. Lagging(object', Last, p) = Differing(p)
    BY <1>1, <1>4, <2>1 DEF Lagging, Differing
  <2> QED
    BY <1>5, <2>2 DEF ReplicaInv, AcknowledgedCopies
<1>6. CASE p \notin sure
  <2>1. sure' = Vouches(r, t)
    BY DEF TurnOf, Turn
  <2>2. /\ t.pc = "ok" /\ ~req[r].crossed /\ p \in WrittenBy(req[r])
        /\ Twofold(req[r]) => Strict /\ req[r].clear
    BY <1>1, <1>6, <2>1 DEF Vouches, Twofold
  <2>3. CASE Plain(req[r])
    <3>1. p = req[r].to
      BY <2>2, <2>3 DEF WrittenBy, Plain
    <3>2. Cardinality(Lagging(object', Last, p)) <= errors
      BY <1>2, <2>2, <2>3, <3>1, PlainTurn
    <3>3. errors <= Tolerated
      BY <1>2, <1>3, <2>2, VerdictTolerates, LastStore DEF Last
    <3>4. Cardinality(Lagging(object', Last, p)) \in Nat
      BY <1>4, LaggingFinite
    <3> QED
      BY <1>2, <1>3, <3>2, <3>3, <3>4
  <2>4. CASE Twofold(req[r])
    <3>1. errors = 0
      BY <1>2, <1>3, <2>2, <2>4, StrictVerdict, BackupsAssumption DEF Last
    <3>2. Alike(object', req[r], Last + 1)
      BY <1>2, <2>2, <2>4, <3>1, TwofoldTurn
    <3>3. p \in {req[r].from, req[r].to}
      BY <2>2, <2>4 DEF WrittenBy, Twofold
    <3>4. Lagging(object', Last, p) = {}
      BY <1>4, <3>2, <3>3 DEF Alike, Lagging
    <3> QED
      BY <1>3, <3>4, FS_EmptySet
  <2>5. Plain(req[r]) \/ Twofold(req[r])
    BY <1>1 DEF TurnOf, Writing, RequestState, Operations, Plain, Twofold
  <2> QED
    BY <2>3, <2>4, <2>5
<1> QED
  BY <1>5, <1>6

-----------------------------------------------------------------------------
(* The other steps.                                                        *)

\* Where nothing is tolerated, the stores agree.
LEMMA StrictAgree ==
    ASSUME AcknowledgedCopies, Strict, NEW p \in sure
    PROVE  \A k \in 0 .. Last : object[k][p] = object[0][p]
<1>1. Tolerated = 0
  BY DEF Tolerated, Strict
<1>2. Differing(p) = Lagging(object, Last, p) /\ Last \in Nat
  BY LastStore DEF Differing, Lagging
<1>3. IsFiniteSet(Differing(p)) /\ Cardinality(Differing(p)) \in Nat
  BY <1>2, LaggingFinite
<1>4. Cardinality(Differing(p)) = 0
  BY <1>1, <1>3 DEF AcknowledgedCopies
<1>5. Differing(p) = {}
  BY <1>3, <1>4, FS_EmptySet
<1> QED
  BY <1>2, <1>5 DEF Differing

LEMMA StartKeeps ==
    ASSUME ReplicaInv, NEW r \in Requesters, NEW op \in Operations, NEW from \in Paths,
           NEW to \in Paths, StartRequest(r, op, from, to)
    PROVE  ReplicaInv'
<1> DEFINE s == [NoRequest EXCEPT !.op = op, !.pc = "work", !.from = from, !.to = to,
                                  !.clear = from \in sure]
           others == {q \in Others(r) : Meet(s, req[q])}
<1>1. s \in RequestState
      /\ s.op = op /\ s.pc = "work" /\ s.from = from /\ s.to = to /\ s.clear = (from \in sure)
      /\ s.store = 0 /\ s.errors = 0
  <2> HIDE DEF s
  <2>1. s = [NoRequest EXCEPT !.op = op, !.pc = "work", !.from = from, !.to = to,
                              !.clear = from \in sure]
    BY DEF s
  <2>2. (from \in sure) \in BOOLEAN
    OBVIOUS
  <2> QED
    BY <2>1, <2>2, NoRequestType DEF RequestState
<1>2. /\ op \in {"copy", "rename"} <=> from # to
      /\ failureMode' = failureMode /\ object' = object /\ faults' = faults
      /\ sure' = sure \ WrittenBy(s)
  BY DEF StartRequest
<1>0. req' = [q \in Requesters |-> IF q = r THEN [s EXCEPT !.crossed = (others # {})]
                                ELSE IF q \in others THEN [req[q] EXCEPT !.crossed = TRUE]
                                ELSE req[q]]
  BY DEF StartRequest
<1>3. /\ ReplicaTypeOK /\ req \in [Requesters -> RequestState] /\ sure \subseteq Paths
      /\ TurnsSound /\ AcknowledgedCopies
  BY DEF ReplicaInv, ReplicaTypeOK
<1>4. Last' = Last /\ Strict' = Strict /\ Tolerated' = Tolerated /\ Last \in Nat
  <2>1. Last' = Last /\ Strict' = Strict
    BY <1>2 DEF Last, Strict
  <2>2. Last \in Nat
    BY LastStore
  <2> QED
    BY <1>2, <2>1, <2>2 DEF Tolerated
\* What a request that was there before is now, but for having met this one.
<1>5. \A q \in Requesters : q # r =>
        /\ req'[q].pc = req[q].pc /\ req'[q].op = req[q].op /\ req'[q].from = req[q].from
        /\ req'[q].to = req[q].to /\ req'[q].store = req[q].store
        /\ req'[q].errors = req[q].errors /\ req'[q].clear = req[q].clear
        /\ req'[q].crossed = (req[q].crossed \/ q \in others)
  BY <1>3, <1>0 DEF RequestState
<1>6. /\ req'[r].pc = "work" /\ req'[r].op = op /\ req'[r].from = from /\ req'[r].to = to
      /\ req'[r].store = 0 /\ req'[r].errors = 0 /\ req'[r].clear = (from \in sure)
      /\ req'[r].crossed = (others # {})
  BY <1>1, <1>0 DEF RequestState
<1>7. ReplicaTypeOK'
  <2>1. \A q \in Requesters : req'[q] \in RequestState
    BY <1>1, <1>3, <1>0 DEF RequestState
  <2> QED
    BY <1>2, <1>3, <1>0, <2>1 DEF ReplicaTypeOK
<1>8. \A q \in Requesters : q # r =>
        /\ WrittenBy(req'[q]) = WrittenBy(req[q]) /\ Uses(req'[q]) = Uses(req[q])
        /\ Works(q)' = Works(q)
  BY <1>5 DEF WrittenBy, Uses, Works
<1>9. WrittenBy(req'[r]) = WrittenBy(s) /\ Uses(req'[r]) = Uses(s)
  BY <1>1, <1>6 DEF WrittenBy, Uses
<1>10. \A q \in Requesters : q # r /\ Works(q) /\ q \notin others => ~Meet(s, req[q]) /\ ~Meet(req[q], s)
  BY DEF Others, Works, Meet
<1>11. TurnsSound'
  <2> SUFFICES ASSUME NEW q \in Requesters, Works(q)'
               PROVE  /\ req'[q].store \in 0 .. Last
                      /\ req'[q].errors = 0 \/ req'[q].errors < req'[q].store
                      /\ Twofold(req'[q]) <=> req'[q].from # req'[q].to
    BY <1>4 DEF TurnsSound
  <2>1. CASE q = r
    BY <1>2, <1>4, <1>6, <2>1 DEF Twofold
  <2>2. CASE q # r
    BY <1>3, <1>5, <1>8, <2>2 DEF TurnsSound, Twofold
  <2> QED
    BY <2>1, <2>2
<1>12. ApartSound'
  <2> SUFFICES ASSUME NEW p \in Requesters, NEW q \in Requesters, Works(p)', Works(q)', p # q,
                      ~req'[p].crossed
               PROVE  ~Meet(req'[p], req'[q])
    BY DEF ApartSound
  <2>1. CASE p = r
    <3>1. others = {} /\ Works(q)
      BY <1>6, <1>8, <2>1
    <3>2. ~Meet(s, req[q])
      BY <1>10, <2>1, <3>1
    <3> QED
      BY <1>8, <1>9, <2>1, <3>2 DEF Meet
  <2>2. CASE q = r
    <3>1. p \notin others /\ Works(p)
      BY <1>5, <1>8, <2>2
    <3>2. ~Meet(req[p], s)
      BY <1>10, <2>2, <3>1
    <3> QED
      BY <1>8, <1>9, <2>2, <3>2 DEF Meet
  <2>3. CASE p # r /\ q # r
    BY <1>5, <1>8, <2>3 DEF ReplicaInv, ApartSound, Meet
  <2> QED
    BY <2>1, <2>2, <2>3
<1>13. SureSound'
  BY <1>2, <1>8, <1>9 DEF ReplicaInv, SureSound
<1>14. PlainSound'
  <2> SUFFICES ASSUME NEW q \in Requesters, Works(q)', Plain(req'[q]), ~req'[q].crossed
               PROVE  /\ req'[q].store > 0 => object[0][req'[q].to] = Content(q)'
                      /\ Cardinality(Lagging(object, req'[q].store - 1, req'[q].to)) <= req'[q].errors
    BY <1>2 DEF PlainSound
  <2>1. CASE q = r
    <3>1. Lagging(object, 0 - 1, to) = {}
      BY DEF Lagging
    <3> QED
      BY <1>6, <2>1, <3>1, FS_EmptySet
  <2>2. CASE q # r
    <3>1. Works(q) /\ Plain(req[q]) /\ ~req[q].crossed /\ Content(q)' = Content(q)
      BY <1>5, <1>8, <2>2 DEF Plain, Content
    <3> QED
      BY <1>5, <2>2, <3>1 DEF ReplicaInv, PlainSound
  <2> QED
    BY <2>1, <2>2
<1>15. TwofoldSound'
  <2> SUFFICES ASSUME NEW q \in Requesters, Works(q)', Twofold(req'[q]), ~req'[q].crossed,
                      req'[q].clear, Strict, req'[q].errors = 0
               PROVE  Alike(object', req'[q], req'[q].store)
    BY <1>4 DEF TwofoldSound, Alike
  <2>1. CASE q = r
    <3>1. from \in sure
      BY <1>6, <2>1
    <3>4. \A k \in 0 .. Last : object[k][from] = object[0][from]
      BY <1>3, <3>1, StrictAgree
    <3> QED
      BY <1>2, <1>4, <1>6, <2>1, <3>4 DEF Alike
  <2>2. CASE q # r
    <3>1. Works(q) /\ Twofold(req[q]) /\ ~req[q].crossed /\ req[q].clear /\ req[q].errors = 0
      BY <1>5, <1>8, <2>2 DEF Twofold
    <3>2. Alike(object, req[q], req[q].store)
      BY <3>1 DEF ReplicaInv, TwofoldSound
    <3> QED
      BY <1>2, <1>5, <2>2, <3>2 DEF Alike
  <2> QED
    BY <2>1, <2>2
<1>16. AcknowledgedCopies'
  BY <1>2, <1>3, <1>4 DEF AcknowledgedCopies, Differing
<1> QED
  BY <1>7, <1>11, <1>12, <1>13, <1>14, <1>15, <1>16 DEF ReplicaInv

\* A request that reads goes on to the next store, or no longer works.
LEMMA ReadsAnswer ==
    ASSUME ReplicaInv, NEW r \in Requesters, Download(r) \/ RetryPrimary(r)
    PROVE  /\ faults' \in 0 .. MaxFaults
           /\ UNCHANGED << failureMode, object, sure >>
           /\ \E t \in RequestState :
                /\ req' = [req EXCEPT ![r] = t]
                /\ t.op = req[r].op /\ t.from = req[r].from /\ t.to = req[r].to
                /\ t.crossed = req[r].crossed /\ t.errors = req[r].errors
                /\ t.pc = "work" => /\ Works(r) /\ req[r].op \in Reads
                                   /\ t.store = req[r].store + 1 /\ req[r].store < Last
                /\ t.pc = "ok" => t.got \in Contents
<1> DEFINE s == req[r]
<1>1. s \in RequestState /\ ReplicaTypeOK /\ Last \in 0 .. Backups /\ 0 \in Replicated
  BY LastStore, BackupsAssumption DEF ReplicaInv, ReplicaTypeOK, Replicated
<1>2. PICK store, miss :
        /\ store \in Replicated
        /\ Answers(r, store, miss)
        /\ \/ miss = [s EXCEPT !.pc = "error"]
           \/ miss = AfterMiss(s) /\ Works(r) /\ s.op \in Reads
  <2>1. CASE Download(r)
    <3>1. s.store \in Replicated
      BY <1>1 DEF RequestState
    <3> QED
      BY <2>1, <3>1 DEF Download, Works
  <2>2. CASE RetryPrimary(r)
    <3>1. 0 \in Replicated /\ Answers(r, 0, [s EXCEPT !.pc = "error"])
      BY <1>1, <2>2 DEF RetryPrimary
    <3> QED
      BY <3>1
  <2> QED
    BY <2>1, <2>2
<1>3. faults' \in 0 .. MaxFaults /\ UNCHANGED << failureMode, object, sure >>
  <2>1. faults \in 0 .. MaxFaults
    BY <1>1 DEF ReplicaTypeOK
  <2>2. faults' = faults \/ (faults < MaxFaults /\ faults' = faults + 1)
    BY <1>2 DEF Answers
  <2> QED
    BY <1>2, <2>1, <2>2, FaultsAssumption DEF Answers
<1> DEFINE Goes(t) ==
             /\ t \in RequestState
             /\ t.op = s.op /\ t.from = s.from /\ t.to = s.to
             /\ t.crossed = s.crossed /\ t.errors = s.errors
             /\ t.pc = "work" => Works(r) /\ s.op \in Reads /\ t.store = s.store + 1 /\ s.store < Last
             /\ t.pc = "ok" => t.got \in Contents
<1>4. Goes([s EXCEPT !.pc = "error"])
  BY <1>1 DEF RequestState
<1>5. Goes(miss)
  <2>1. CASE miss = [s EXCEPT !.pc = "error"]
    BY <1>4, <2>1
  <2>2. CASE miss = AfterMiss(s) /\ Works(r) /\ s.op \in Reads
    <3>1. CASE s.store < Last /\ miss = [s EXCEPT !.store = @ + 1]
      <4>1. s.store + 1 \in Replicated
        BY <1>1, <3>1, BackupsAssumption DEF RequestState, Replicated
      <4> QED
        BY <1>1, <2>2, <3>1, <4>1 DEF RequestState, Works
    <3>2. CASE miss = [s EXCEPT !.pc = "retry"]
      BY <1>1, <3>2 DEF RequestState
    <3> QED
      BY <2>1, <2>2, <3>1, <3>2 DEF AfterMiss
  <2> QED
    BY <1>2, <2>1, <2>2
<1>6. ASSUME NEW content, content = object[store][s.to]
      PROVE  Goes([s EXCEPT !.pc = "ok", !.got = content])
  <2>1. content \in Contents
    BY <1>1, <1>2, <1>6 DEF ReplicaTypeOK, RequestState
  <2> QED
    BY <1>1, <2>1 DEF RequestState
<1>7. \E t : Goes(t) /\ req' = [req EXCEPT ![r] = t]
  <2> HIDE DEF Goes
  <2>1. \/ req' = [req EXCEPT ![r] = miss]
        \/ req' = [req EXCEPT ![r] = [s EXCEPT !.pc = "ok", !.got = object[store][s.to]]]
    BY <1>2 DEF Answers
  <2> QED
    BY <1>5, <1>6, <2>1
<1> QED
  BY <1>3, <1>7 DEF Goes

LEMMA DownloadKeeps ==
    ASSUME ReplicaInv, NEW r \in Requesters, Download(r) \/ RetryPrimary(r)
    PROVE  ReplicaInv'
<1> DEFINE s == req[r]
<1>1. /\ s \in RequestState
      /\ failureMode' = failureMode /\ object' = object /\ sure' = sure
      /\ ReplicaTypeOK /\ TurnsSound /\ AcknowledgedCopies
  BY ReadsAnswer DEF ReplicaInv, ReplicaTypeOK
<1>2. faults' \in 0 .. MaxFaults
  BY ReadsAnswer
<1>3. Last' = Last /\ Strict' = Strict /\ Last \in 0 .. Backups
  BY <1>1, LastStore DEF Last, Strict
<1>4. PICK t \in RequestState :
        /\ req' = [req EXCEPT ![r] = t]
        /\ t.op = s.op /\ t.from = s.from /\ t.to = s.to /\ t.crossed = s.crossed
        /\ t.errors = s.errors
        /\ t.pc = "work" => Works(r) /\ s.op \in Reads /\ t.store = s.store + 1 /\ s.store < Last
  BY ReadsAnswer
<1>5. req \in [Requesters -> RequestState]
  BY <1>1 DEF ReplicaTypeOK
<1>6. req'[r] = t /\ \A q \in Requesters : q # r => req'[q] = req[q]
  BY <1>4, <1>5
<1>7. ReplicaTypeOK'
  BY <1>1, <1>2, <1>4, <1>5 DEF ReplicaTypeOK
<1>8. \A q \in Requesters :
        /\ WrittenBy(req'[q]) = WrittenBy(req[q]) /\ Uses(req'[q]) = Uses(req[q])
        /\ req'[q].crossed = req[q].crossed
        /\ Works(q)' => Works(q)
  BY <1>1, <1>4, <1>6 DEF WrittenBy, Uses, Works
<1>9. TurnsSound'
  <2> SUFFICES ASSUME NEW q \in Requesters, Works(q)'
               PROVE  /\ req'[q].store \in 0 .. Last
                      /\ req'[q].errors = 0 \/ req'[q].errors < req'[q].store
                      /\ Twofold(req'[q]) <=> req'[q].from # req'[q].to
    BY <1>3 DEF TurnsSound
  <2>1. CASE q = r
    <3>1. /\ s.store \in 0 .. Last
          /\ s.errors = 0 \/ s.errors < s.store
          /\ Twofold(s) <=> s.from # s.to
      BY <1>1, <1>8, <2>1 DEF TurnsSound
    <3>2. t.pc = "work"
      BY <1>6, <2>1 DEF Works
    <3>3. s.errors \in 0 .. Backups
      BY <1>1 DEF RequestState
    <3> QED
      BY <1>3, <1>4, <1>6, <2>1, <3>1, <3>2, <3>3, BackupsAssumption DEF Twofold
  <2>2. CASE q # r
    BY <1>1, <1>6, <2>2 DEF TurnsSound, Twofold, Works
  <2> QED
    BY <2>1, <2>2
<1>10. ApartSound' /\ SureSound'
  BY <1>1, <1>8 DEF ReplicaInv, ApartSound, SureSound, Meet
<1>11. \A q \in Requesters :
         Works(q)' /\ (Plain(req'[q]) \/ Twofold(req'[q])) => req'[q] = req[q]
  BY <1>1, <1>4, <1>6 DEF Plain, Twofold, Works, Reads
<1>12. PlainSound'
  BY <1>1, <1>11 DEF ReplicaInv, PlainSound, Works, Content
<1>13. TwofoldSound'
  BY <1>1, <1>3, <1>11 DEF ReplicaInv, TwofoldSound, Works, Alike
<1>14. AcknowledgedCopies'
  BY <1>1, <1>3 DEF AcknowledgedCopies, Differing, Tolerated
<1> QED
  BY <1>7, <1>9, <1>10, <1>12, <1>13, <1>14 DEF ReplicaInv

LEMMA ReplicaInvStep ==
    ASSUME ReplicaInv, [ReplicaNext]_replicaVars
    PROVE  ReplicaInv'
<1>1. CASE UNCHANGED replicaVars
  <2>1. UNCHANGED << failureMode, object, req, faults, sure >>
    BY <1>1 DEF replicaVars
  <2>2. Last' = Last /\ Strict' = Strict /\ Tolerated' = Tolerated
    BY <2>1 DEF Last, Strict, Tolerated
  <2>3. ReplicaTypeOK' /\ TurnsSound' /\ ApartSound' /\ SureSound'
    BY <2>1, <2>2 DEF ReplicaInv, ReplicaTypeOK, TurnsSound, ApartSound, SureSound, Works
  <2>4. PlainSound' /\ TwofoldSound'
    BY <2>1, <2>2 DEF ReplicaInv, PlainSound, TwofoldSound, Works, Content, Alike
  <2>5. AcknowledgedCopies'
    BY <2>1, <2>2 DEF ReplicaInv, AcknowledgedCopies, Differing
  <2> QED
    BY <2>3, <2>4, <2>5 DEF ReplicaInv
<1>2. ASSUME NEW r \in Requesters, StoreDoes(r) \/ StoreErrs(r) PROVE ReplicaInv'
  <2>1. ReplicaTypeOK /\ TurnsSound
    BY DEF ReplicaInv
  <2>2. PICK files, errors : TurnOf(r, files, errors)
    BY <1>2, <2>1, TurnsAreTurns
  <2>3. faults' \in 0 .. MaxFaults
    BY <1>2, <2>1, FaultsAssumption DEF StoreDoes, StoreErrs, ReplicaTypeOK
  <2>4. ReplicaTypeOK'
    BY <2>1, <2>2, <2>3, TurnFrame
  <2> QED
    BY <2>2, <2>4, TurnKeepsApart, TurnKeepsCopies, TurnVouches DEF ReplicaInv
<1> QED
  BY <1>1, <1>2, StartKeeps, DownloadKeeps DEF ReplicaNext

LEMMA ReplicaInvariant == ReplicaSpec => []ReplicaInv
BY ReplicaInvInit, ReplicaInvStep, PTL DEF ReplicaSpec

\* An acknowledged operation that met no other has left at most as many secondaries behind
\* as the mode tolerates (strategies/backup.rs, mirror.rs), for any number of stores, paths
\* and requests, and whatever fails.
THEOREM CopiesAcknowledged == ReplicaSpec => []AcknowledgedCopies
<1>1. ReplicaInv => AcknowledgedCopies
  BY DEF ReplicaInv
<1> QED
  BY <1>1, ReplicaInvariant, PTL

\* A download that falls back to a secondary brings back nothing that an acknowledged
\* operation has overwritten or deleted (strategies/mirror.rs).
THEOREM DownloadsCurrent == ReplicaSpec => DownloadsAreCurrent
<1> DEFINE Step == \A r \in Requesters :
                     (/\ req[r].op \in Reads /\ req[r].pc \in {"work", "retry"} /\ req'[r].pc = "ok"
                      /\ Strict /\ ~req[r].crossed /\ req[r].to \in sure)
                         => req'[r].got = object[0][req[r].to]
<1>1. ReplicaInv /\ [ReplicaNext]_replicaVars => Step
  <2> SUFFICES ASSUME ReplicaInv, [ReplicaNext]_replicaVars, NEW r \in Requesters,
                      req[r].op \in Reads, req[r].pc \in {"work", "retry"}, req'[r].pc = "ok",
                      Strict, req[r].to \in sure
               PROVE  req'[r].got = object[0][req[r].to]
    OBVIOUS
  <2>1. req \in [Requesters -> RequestState] /\ ReplicaTypeOK /\ TurnsSound
    BY DEF ReplicaInv, ReplicaTypeOK
  <2>2. ASSUME NEW store \in 0 .. Last, NEW miss, Answers(r, store, miss), miss.pc # "ok"
        PROVE  req'[r].got = object[0][req[r].to]
    <3>1. req'[r].got = object[store][req[r].to]
      BY <2>1, <2>2 DEF Answers, RequestState
    <3> QED
      BY <2>1, <2>2, <3>1, StrictAgree DEF ReplicaInv
  <2>7. CASE Download(r)
    <3>1. AfterMiss(req[r]).pc # "ok"
      BY <2>1, <2>7 DEF Download, AfterMiss, RequestState
    <3>2. req[r].store \in 0 .. Last
      BY <2>1, <2>7 DEF Download, TurnsSound, Works
    <3> QED
      BY <2>2, <2>7, <3>1, <3>2 DEF Download
  <2>8. CASE RetryPrimary(r)
    <3>1. [req[r] EXCEPT !.pc = "error"].pc # "ok"
      BY <2>1 DEF RequestState
    <3>2. 0 \in 0 .. Last
      BY LastStore, BackupsAssumption
    <3> QED
      BY <2>2, <2>8, <3>1, <3>2 DEF RetryPrimary
  <2>3. CASE UNCHANGED replicaVars
    BY <2>3 DEF replicaVars
  <2>4. ASSUME NEW q \in Requesters, StoreDoes(q) \/ StoreErrs(q) PROVE FALSE
    <3>1. PICK files, errors : TurnOf(q, files, errors)
      BY <2>1, <2>4, TurnsAreTurns
    <3>2. q = r
      BY <2>1, <3>1, TurnFrame
    <3> QED
      BY <3>1, <3>2 DEF TurnOf, Writing
  <2>5. ASSUME NEW q \in Requesters, Download(q) \/ RetryPrimary(q), q # r PROVE FALSE
    BY <2>1, <2>5 DEF Download, RetryPrimary, Answers
  <2>6. ASSUME NEW q \in Requesters, NEW op \in Operations, NEW from \in Paths, NEW to \in Paths,
               StartRequest(q, op, from, to)
        PROVE  FALSE
    <3>1. q # r
      BY <2>6 DEF StartRequest
    <3>2. req'[r] \in {req[r], [req[r] EXCEPT !.crossed = TRUE]}
      BY <2>6, <3>1 DEF StartRequest
    <3> QED
      BY <2>1, <3>2 DEF RequestState
  <2> QED
    BY <2>3, <2>4, <2>5, <2>6, <2>7, <2>8 DEF ReplicaNext
<1> QED
  BY <1>1, ReplicaInvariant, PTL DEF ReplicaSpec, DownloadsAreCurrent

-----------------------------------------------------------------------------
(* Copies of source tables.                                                *)

Ended == {"touch", "done"}
Replacing == {"delete", "insert"}

\* What a transaction has inserted is what it read without what is still to do.
FreshSound ==
    \A r \in SyncRuns :
        IF run[r].pc = "insert"
        THEN /\ run[r].fresh = [row : run[r].rows \ run[r].todo, by : {r}]
             /\ run[r].todo \subseteq run[r].rows
        ELSE run[r].fresh = {}

\* A DELETE finds all copies of another run or none, and only of runs that have ended.
DoomedSound ==
    \A r \in SyncRuns :
        /\ run[r].pc \notin Replacing => run[r].doomed = {}
        /\ \A c \in run[r].doomed : run[c.by].pc \in Ended
        /\ \A q \in SyncRuns :
              CopiesOf(q) \cap run[r].doomed = {} \/ CopiesOf(q) \subseteq run[r].doomed

\* Copies that the DELETE of a full run has missed were committed after it had read.
MissedSound ==
    \A r, q \in SyncRuns :
        (/\ r # q
         /\ run[r].pc \in Replacing
         /\ run[r].mode = "full"
         /\ CopiesOf(q) # {}) => CopiesOf(q) \subseteq run[r].doomed \/ << q, r >> \in met

SyncInv == SyncTypeOK /\ CopiesAreWhole /\ FreshSound /\ DoomedSound /\ MissedSound
           /\ CopiesReplace

SoundRun(r, t) ==
    /\ t \in RunState
    /\ run[r].pc \in Ended =>
          t.pc \in Ended /\ t.rows = run[r].rows /\ t.mode = run[r].mode
    /\ IF t.pc = "insert"
       THEN /\ t.fresh = [row : t.rows \ t.todo, by : {r}]
            /\ t.todo \subseteq t.rows
       ELSE t.fresh = {}
    /\ t.pc \notin Replacing => t.doomed = {}
    /\ t.doomed \in {{}, target, run[r].doomed, run[r].doomed \cap target}
    /\ (t.pc \in Replacing /\ t.mode = "full") =>
          \/ t.doomed = target
          \/ /\ run[r].pc \in Replacing
             /\ run[r].mode = "full"
             /\ t.doomed \in {run[r].doomed, run[r].doomed \cap target}

\* A step of one run that leaves the target alone.
LEMMA RunMoves ==
    ASSUME SyncInv, NEW r \in SyncRuns, NEW t, SoundRun(r, t),
           RunBecomes(r, t), TablesUnchanged, met' = met,
           lastSync' \in SyncRuns \cup {NoRun}
    PROVE  SyncInv'
<1> USE DEF SyncInv
<1>1. /\ run' = [run EXCEPT ![r] = t] /\ run \in [SyncRuns -> RunState]
      /\ t \in RunState /\ target' = target
  BY DEF RunBecomes, TablesUnchanged, SyncTypeOK, SoundRun
<1>2. run'[r] = t /\ \A q \in SyncRuns \ {r} : run'[q] = run[q]
  BY <1>1
<1>3. SyncTypeOK'
  BY <1>1 DEF SyncTypeOK, TablesUnchanged
<1>4. \A q \in SyncRuns : CopiesOf(q)' = CopiesOf(q) /\ CopiesOf(q) \subseteq target
  BY <1>1 DEF CopiesOf
<1>5. \A q \in SyncRuns : run[q].pc \in Ended =>
         run'[q].pc \in Ended /\ run'[q].rows = run[q].rows /\ run'[q].mode = run[q].mode
  BY <1>2 DEF SoundRun
<1>6. \A q \in SyncRuns : CopiesOf(q) # {} => run[q].pc \in Ended
  BY DEF CopiesAreWhole, Ended
<1>7. \A c \in target : c.by \in SyncRuns /\ run[c.by].pc \in Ended
  <2> SUFFICES ASSUME NEW c \in target PROVE c.by \in SyncRuns /\ run[c.by].pc \in Ended
    OBVIOUS
  <2>1. c.by \in SyncRuns
    BY DEF SyncTypeOK, Copies
  <2>2. c \in CopiesOf(c.by)
    BY DEF CopiesOf
  <2> QED
    BY <1>6, <2>1, <2>2
<1>8. CopiesAreWhole'
  <2> SUFFICES ASSUME NEW q \in SyncRuns, CopiesOf(q)' # {}
               PROVE  CopiesOf(q)' = [row : run'[q].rows, by : {q}] /\ run'[q].pc \in Ended
    BY DEF CopiesAreWhole, Ended
  <2>1. CopiesOf(q) # {} /\ run[q].pc \in Ended
    BY <1>4, <1>6
  <2>2. CopiesOf(q) = [row : run[q].rows, by : {q}]
    BY <2>1 DEF CopiesAreWhole
  <2> QED
    BY <1>4, <1>5, <2>1, <2>2
<1>9. FreshSound'
  BY <1>2 DEF FreshSound, SoundRun
<1>10. DoomedSound'
  <2> SUFFICES ASSUME NEW q \in SyncRuns
               PROVE  /\ run'[q].pc \notin Replacing => run'[q].doomed = {}
                      /\ \A c \in run'[q].doomed : run'[c.by].pc \in Ended
                      /\ \A p \in SyncRuns : \/ CopiesOf(p)' \cap run'[q].doomed = {}
                                             \/ CopiesOf(p)' \subseteq run'[q].doomed
    BY DEF DoomedSound
  <2>1. run'[q].pc \notin Replacing => run'[q].doomed = {}
    BY <1>2 DEF SoundRun, DoomedSound
  <2>2. run'[q].doomed \in {{}, target, run[q].doomed, run[q].doomed \cap target}
    BY <1>2 DEF SoundRun
  <2>3. \A c \in run[q].doomed : c.by \in SyncRuns /\ run[c.by].pc \in Ended
    <3>1. run[q].doomed \subseteq Copies
      BY <1>1 DEF RunState
    <3> QED
      BY <3>1 DEF DoomedSound, Copies
  <2>4. \A c \in run'[q].doomed : run'[c.by].pc \in Ended
    BY <1>5, <1>7, <2>2, <2>3
  <2>5. \A p \in SyncRuns : CopiesOf(p) \cap run[q].doomed = {} \/ CopiesOf(p) \subseteq run[q].doomed
    BY DEF DoomedSound
  <2>6. \A p \in SyncRuns : \/ CopiesOf(p)' \cap run'[q].doomed = {}
                            \/ CopiesOf(p)' \subseteq run'[q].doomed
    BY <1>4, <2>2, <2>5
  <2> QED
    BY <2>1, <2>4, <2>6
<1>11. MissedSound'
  <2> SUFFICES ASSUME NEW p \in SyncRuns, NEW q \in SyncRuns, p # q,
                      run'[p].pc \in Replacing, run'[p].mode = "full", CopiesOf(q)' # {}
               PROVE  CopiesOf(q)' \subseteq run'[p].doomed \/ << q, p >> \in met'
    BY DEF MissedSound
  <2>1. CASE run'[p].doomed = target
    BY <1>4, <2>1
  <2>2. CASE /\ run[p].pc \in Replacing /\ run[p].mode = "full"
             /\ run'[p].doomed \in {run[p].doomed, run[p].doomed \cap target}
    <3>1. CopiesOf(q) \subseteq run[p].doomed \/ << q, p >> \in met
      BY <1>4, <2>2 DEF MissedSound
    <3> QED
      BY <1>4, <2>2, <3>1
  <2> QED
    BY <1>2, <2>1, <2>2 DEF SoundRun
<1>12. CopiesReplace'
  <2> SUFFICES ASSUME NEW p \in SyncRuns, NEW q \in SyncRuns, p # q,
                      CopiesOf(p)' # {}, CopiesOf(q)' # {}
               PROVE  \/ "incremental" \in {run'[p].mode, run'[q].mode}
                      \/ << p, q >> \in met' \/ << q, p >> \in met'
    BY DEF CopiesReplace
  <2>1. CopiesOf(p) # {} /\ CopiesOf(q) # {}
    BY <1>4
  <2>2. run'[p].mode = run[p].mode /\ run'[q].mode = run[q].mode
    BY <1>5, <1>6, <2>1
  <2> QED
    BY <2>1, <2>2 DEF CopiesReplace
<1> QED
  BY <1>3, <1>8, <1>9, <1>10, <1>11, <1>12

\* The copies that a run makes of two sets of rows are those of both.
LEMMA CopiesJoin ==
    ASSUME NEW X, NEW Y, NEW r
    PROVE  [row : X, by : {r}] \cup [row : Y, by : {r}] = [row : X \cup Y, by : {r}]
<1>1. [row : X, by : {r}] \cup [row : Y, by : {r}] \subseteq [row : X \cup Y, by : {r}]
  OBVIOUS
<1>2. ASSUME NEW c \in [row : X \cup Y, by : {r}]
      PROVE  c \in [row : X, by : {r}] \cup [row : Y, by : {r}]
  <2>1. c.row \in X \cup Y /\ c.by = r /\ c = [row |-> c.row, by |-> c.by]
    OBVIOUS
  <2>2. CASE c.row \in X
    BY <2>1, <2>2
  <2>3. CASE c.row \in Y
    BY <2>1, <2>3
  <2> QED
    BY <2>1, <2>2, <2>3
<1> QED
  BY <1>1, <1>2

LEMMA SyncInvInit == SyncInit => SyncInv
<1> SUFFICES ASSUME SyncInit PROVE SyncInv
  OBVIOUS
<1>1. IdleRun \in RunState /\ IdleRun.fresh = {} /\ IdleRun.doomed = {} /\ IdleRun.pc = "idle"
  BY DEF IdleRun, RunState
<1>2. run \in [SyncRuns -> RunState] /\ \A r \in SyncRuns : run[r] = IdleRun
  BY <1>1 DEF SyncInit
<1>3. SyncTypeOK
  BY <1>2 DEF SyncInit, SyncTypeOK
<1>4. \A r \in SyncRuns : CopiesOf(r) = {}
  BY DEF SyncInit, CopiesOf
<1>5. CopiesAreWhole /\ FreshSound /\ DoomedSound /\ MissedSound /\ CopiesReplace
  BY <1>1, <1>2, <1>4
  DEF CopiesAreWhole, FreshSound, DoomedSound, MissedSound, CopiesReplace, Replacing
<1> QED
  BY <1>3, <1>5 DEF SyncInv

\* The commit is the step that changes the target.
LEMMA CommitKeeps ==
    ASSUME SyncInv, NEW r \in SyncRuns, CommitCopy(r)
    PROVE  SyncInv'
<1> USE DEF SyncInv
<1> DEFINE s == run[r]
           t == [s EXCEPT !.pc = "touch", !.doomed = {}, !.fresh = {}]
<1>1. /\ s \in RunState /\ s.pc = "insert" /\ s.todo = {}
      /\ run \in [SyncRuns -> RunState]
      /\ run' = [run EXCEPT ![r] = t]
      /\ target' = (target \ s.doomed) \cup s.fresh
      /\ met' = met \cup ({r} \X (UnderWay \ {r}))
      /\ UNCHANGED << columnsGiven, source, changes, lastSync >>
  BY DEF CommitCopy, RunBecomes, SyncTypeOK
<1>2. /\ t \in RunState /\ t.pc = "touch" /\ t.doomed = {} /\ t.fresh = {}
      /\ t.rows = s.rows /\ t.mode = s.mode
  BY <1>1 DEF RunState
<1> HIDE DEF t
<1>3. run'[r] = t /\ \A q \in SyncRuns \ {r} : run'[q] = run[q]
  BY <1>1
<1>4. s.fresh = [row : s.rows, by : {r}]
  <2>1. s.fresh = [row : s.rows \ s.todo, by : {r}] /\ s.rows \ s.todo = s.rows
    BY <1>1 DEF FreshSound
  <2> QED
    BY <2>1
<1>5. SyncTypeOK'
  <2>1. run' \in [SyncRuns -> RunState]
    BY <1>1, <1>2
  <2>2. target' \subseteq Copies
    BY <1>1 DEF SyncTypeOK, RunState
  <2>3. met' \subseteq SyncRuns \X SyncRuns
    BY <1>1 DEF SyncTypeOK, UnderWay
  <2> QED
    BY <1>1, <2>1, <2>2, <2>3 DEF SyncTypeOK
<1>6. CopiesOf(r) = {}
  BY <1>1 DEF CopiesAreWhole
<1>7. CopiesOf(r)' = s.fresh
  <2>1. \A c \in s.fresh : c.by = r
    BY <1>4
  <2>2. \A c \in target : c.by # r
    BY <1>6 DEF CopiesOf
  <2> QED
    BY <1>1, <2>1, <2>2 DEF CopiesOf
<1>8. ASSUME NEW q \in SyncRuns \ {r}
      PROVE  /\ CopiesOf(q)' \in {{}, CopiesOf(q)}
             /\ CopiesOf(q) \subseteq s.doomed => CopiesOf(q)' = {}
  <2>1. CopiesOf(q)' = CopiesOf(q) \ s.doomed
    <3>1. \A c \in s.fresh : c.by # q
      BY <1>4
    <3>2. \A c : c \in CopiesOf(q)' <=> (c \in (target \ s.doomed) \cup s.fresh /\ c.by = q)
      BY <1>1 DEF CopiesOf
    <3>3. \A c : c \in CopiesOf(q) <=> (c \in target /\ c.by = q)
      BY DEF CopiesOf
    <3> QED
      BY <3>1, <3>2, <3>3
  <2>2. CopiesOf(q) \cap s.doomed = {} \/ CopiesOf(q) \subseteq s.doomed
    BY DEF DoomedSound
  <2> QED
    BY <2>1, <2>2
<1>9. CopiesAreWhole'
  <2> SUFFICES ASSUME NEW q \in SyncRuns, CopiesOf(q)' # {}
               PROVE  CopiesOf(q)' = [row : run'[q].rows, by : {q}] /\ run'[q].pc \in Ended
    BY DEF CopiesAreWhole, Ended
  <2>1. CASE q = r
    BY <1>2, <1>3, <1>4, <1>7, <2>1 DEF Ended
  <2>2. CASE q # r
    <3>q. q \in SyncRuns \ {r}
      BY <2>2
    <3>r. run'[q] = run[q]
      BY <1>3, <3>q
    <3>c. CopiesOf(q)' \in {{}, CopiesOf(q)}
      BY <1>8, <3>q
    <3>1. CopiesOf(q)' = CopiesOf(q) /\ CopiesOf(q) # {} /\ run'[q] = run[q]
      BY <3>r, <3>c
    <3> QED
      BY <3>1 DEF CopiesAreWhole, Ended
  <2> QED
    BY <2>1, <2>2
<1>10. FreshSound'
  BY <1>2, <1>3 DEF FreshSound
<1>11. DoomedSound'
  <2> SUFFICES ASSUME NEW q \in SyncRuns
               PROVE  /\ run'[q].pc \notin Replacing => run'[q].doomed = {}
                      /\ \A c \in run'[q].doomed : run'[c.by].pc \in Ended
                      /\ \A p \in SyncRuns : \/ CopiesOf(p)' \cap run'[q].doomed = {}
                                             \/ CopiesOf(p)' \subseteq run'[q].doomed
    BY DEF DoomedSound
  <2>1. CASE q = r
    BY <1>2, <1>3, <2>1
  <2>2. CASE q # r
    <3>1. run'[q] = run[q] /\ run[q].doomed \subseteq Copies
      BY <1>1, <1>3, <2>2 DEF RunState
    <3>2. \A c \in run[q].doomed : c.by \in SyncRuns \ {r} /\ run[c.by].pc \in Ended
      BY <1>1, <3>1 DEF DoomedSound, Copies, Ended
    <3>3. \A p \in SyncRuns : \/ CopiesOf(p)' \cap run[q].doomed = {}
                              \/ CopiesOf(p)' \subseteq run[q].doomed
      <4> SUFFICES ASSUME NEW p \in SyncRuns
                   PROVE  \/ CopiesOf(p)' \cap run[q].doomed = {}
                          \/ CopiesOf(p)' \subseteq run[q].doomed
        OBVIOUS
      <4>1. CASE p = r
        <5>1. \A c \in CopiesOf(p)' : c.by = r
          BY <4>1 DEF CopiesOf
        <5> QED
          BY <3>2, <5>1
      <4>2. CASE p # r
        BY <1>8, <4>2 DEF DoomedSound
      <4> QED
        BY <4>1, <4>2
    <3>4. run[q].pc \notin Replacing => run[q].doomed = {}
      BY DEF DoomedSound
    <3> QED
      BY <1>3, <3>1, <3>2, <3>3, <3>4
  <2> QED
    BY <2>1, <2>2
<1>12. MissedSound'
  <2> SUFFICES ASSUME NEW p \in SyncRuns, NEW q \in SyncRuns, p # q,
                      run'[p].pc \in Replacing, run'[p].mode = "full", CopiesOf(q)' # {}
               PROVE  CopiesOf(q)' \subseteq run'[p].doomed \/ << q, p >> \in met'
    BY DEF MissedSound
  <2>1. p # r /\ run'[p] = run[p]
    BY <1>2, <1>3 DEF Replacing
  <2>2. CASE q = r
    <3>1. p \in UnderWay \ {r}
      BY <2>1 DEF UnderWay, Replacing
    <3> QED
      BY <1>1, <2>2, <3>1
  <2>3. CASE q # r
    <3>1. CopiesOf(q)' = CopiesOf(q) /\ CopiesOf(q) # {}
      BY <1>8, <2>3
    <3> QED
      BY <1>1, <2>1, <3>1 DEF MissedSound
  <2> QED
    BY <2>2, <2>3
<1>13. \A q \in SyncRuns \ {r} :
          (s.mode = "full" /\ CopiesOf(q)' # {}) => << q, r >> \in met'
  <2> SUFFICES ASSUME NEW q \in SyncRuns \ {r}, s.mode = "full", CopiesOf(q)' # {}
               PROVE  << q, r >> \in met'
    OBVIOUS
  <2>1. CopiesOf(q) # {} /\ ~(CopiesOf(q) \subseteq s.doomed)
    BY <1>8
  <2> QED
    BY <1>1, <2>1 DEF MissedSound, Replacing
<1>14. CopiesReplace'
  <2> SUFFICES ASSUME NEW p \in SyncRuns, NEW q \in SyncRuns, p # q,
                      CopiesOf(p)' # {}, CopiesOf(q)' # {}
               PROVE  \/ "incremental" \in {run'[p].mode, run'[q].mode}
                      \/ << p, q >> \in met' \/ << q, p >> \in met'
    BY DEF CopiesReplace
  <2>1. run'[p].mode = run[p].mode /\ run'[q].mode = run[q].mode
    BY <1>2, <1>3
  <2>2. s.mode \in {"full", "incremental"}
    BY <1>1 DEF RunState
  <2>3. CASE p = r
    BY <1>13, <2>1, <2>2, <2>3
  <2>4. CASE q = r
    BY <1>13, <2>1, <2>2, <2>4
  <2>5. CASE p # r /\ q # r
    <3>1. CopiesOf(p) # {} /\ CopiesOf(q) # {}
      BY <1>8, <2>5
    <3> QED
      BY <1>1, <2>1, <3>1 DEF CopiesReplace
  <2> QED
    BY <2>3, <2>4, <2>5
<1> QED
  BY <1>5, <1>9, <1>10, <1>11, <1>12, <1>14

LEMMA SyncInvStep ==
    ASSUME SyncInv, [SyncNext]_syncVars
    PROVE  SyncInv'
<1> USE DEF SyncInv, SyncTypeOK, Replacing, Ended
<1>1. CASE UNCHANGED syncVars
  BY <1>1 DEF syncVars, CopiesAreWhole, FreshSound, DoomedSound, MissedSound, CopiesReplace,
     CopiesOf
<1>2. ASSUME NEW rows \in SUBSET SourceRows, ChangeSource(rows) PROVE SyncInv'
  BY <1>2 DEF ChangeSource, CopiesAreWhole, FreshSound, DoomedSound, MissedSound,
     CopiesReplace, CopiesOf
<1>3. ASSUME NEW r \in SyncRuns, NEW mode \in {"full", "incremental"}, StartRun(r, mode)
      PROVE  SyncInv'
  <2> DEFINE t == [IdleRun EXCEPT !.mode = mode, !.pc = "read"]
  <2>1. SoundRun(r, t)
    BY <1>3 DEF StartRun, SoundRun, IdleRun, RunState
  <2> QED
    BY <1>3, <2>1, RunMoves DEF StartRun
<1>4. ASSUME NEW r \in SyncRuns, NEW rows \in SUBSET SourceRows, ReadSource(r, rows)
      PROVE  SyncInv'
  <2> DEFINE t == [run[r] EXCEPT !.rows = rows,
                                 !.pc = IF rows = {} /\ ~columnsGiven THEN "touch" ELSE "begin"]
  <2>1. run[r] \in RunState /\ run[r].pc = "read" /\ run[r].doomed = {} /\ run[r].fresh = {}
    BY <1>4 DEF ReadSource, DoomedSound, FreshSound
  <2>2. SoundRun(r, t)
    BY <2>1 DEF SoundRun, RunState
  <2> QED
    BY <1>4, <2>2, RunMoves DEF ReadSource
<1>5. ASSUME NEW r \in SyncRuns, BeginCopy(r) PROVE SyncInv'
  <2> DEFINE s == run[r]
             t == IF s.mode = "full" THEN [s EXCEPT !.pc = "delete", !.doomed = target]
                  ELSE [s EXCEPT !.pc = "insert", !.todo = s.rows]
  <2>1. s \in RunState /\ s.pc = "begin" /\ s.doomed = {} /\ s.fresh = {}
    BY <1>5 DEF BeginCopy, DoomedSound, FreshSound
  <2>2. SoundRun(r, t)
    <3>1. CASE s.mode = "full"
      BY <2>1, <3>1 DEF SoundRun, RunState
    <3>2. CASE s.mode # "full"
      <4>1. [row : s.rows \ s.rows, by : {r}] = {}
        OBVIOUS
      <4> QED
        BY <2>1, <3>2, <4>1 DEF SoundRun, RunState
    <3> QED
      BY <3>1, <3>2
  <2> QED
    BY <1>5, <2>2, RunMoves DEF BeginCopy
<1>6. ASSUME NEW r \in SyncRuns, DeleteTarget(r) PROVE SyncInv'
  <2> DEFINE s == run[r]
             t == [s EXCEPT !.pc = "insert", !.doomed = @ \cap target, !.todo = s.rows]
  <2>1. s \in RunState /\ s.pc = "delete" /\ s.fresh = {}
    BY <1>6 DEF DeleteTarget, FreshSound
  <2>2. SoundRun(r, t)
    <3>1. [row : s.rows \ s.rows, by : {r}] = {}
      OBVIOUS
    <3> QED
      BY <2>1, <3>1 DEF SoundRun, RunState
  <2> QED
    BY <1>6, <2>2, RunMoves DEF DeleteTarget
<1>7. ASSUME NEW r \in SyncRuns, NEW chunk \in SUBSET SourceRows, InsertBatch(r, chunk)
      PROVE  SyncInv'
  <2> DEFINE s == run[r]
             t == [s EXCEPT !.todo = @ \ chunk, !.fresh = @ \cup [row : chunk, by : {r}]]
  <2>1. /\ s \in RunState /\ s.pc = "insert" /\ chunk \subseteq s.todo
        /\ s.fresh = [row : s.rows \ s.todo, by : {r}] /\ s.todo \subseteq s.rows
    BY <1>7 DEF InsertBatch, FreshSound
  <2>2. t.fresh = [row : s.rows \ (s.todo \ chunk), by : {r}]
    <3>1. s.rows \ (s.todo \ chunk) = (s.rows \ s.todo) \cup chunk
      BY <2>1
    <3>2. t.fresh = s.fresh \cup [row : chunk, by : {r}]
      BY <2>1 DEF RunState
    <3>3. [row : s.rows \ s.todo, by : {r}] \cup [row : chunk, by : {r}]
            = [row : (s.rows \ s.todo) \cup chunk, by : {r}]
      BY CopiesJoin
    <3> QED
      BY <2>1, <3>1, <3>2, <3>3
  <2>3. s.fresh \cup [row : chunk, by : {r}] \subseteq Copies
    BY <2>1 DEF RunState, Copies
  <2>4. SoundRun(r, t)
    BY <2>1, <2>2, <2>3 DEF SoundRun, RunState
  <2> QED
    BY <1>7, <2>4, RunMoves DEF InsertBatch
<1>8. ASSUME NEW r \in SyncRuns, CommitCopy(r) PROVE SyncInv'
  BY <1>8, CommitKeeps
<1>9. ASSUME NEW r \in SyncRuns, TouchLastSync(r) PROVE SyncInv'
  <2> DEFINE t == [run[r] EXCEPT !.pc = "done"]
  <2>1. run[r] \in RunState /\ run[r].pc = "touch" /\ run[r].doomed = {} /\ run[r].fresh = {}
    BY <1>9 DEF TouchLastSync, DoomedSound, FreshSound
  <2>2. SoundRun(r, t)
    BY <2>1 DEF SoundRun, RunState
  <2> QED
    BY <1>9, <2>2, RunMoves DEF TouchLastSync, RunGoes
<1>10. ASSUME NEW r \in SyncRuns, RunFails(r) PROVE SyncInv'
  <2> DEFINE t == [IdleRun EXCEPT !.mode = run[r].mode, !.pc = "failed"]
  <2>1. SoundRun(r, t)
    BY <1>10 DEF RunFails, SoundRun, IdleRun, RunState
  <2> QED
    BY <1>10, <2>1, RunMoves DEF RunFails
<1>11. ASSUME NEW r \in SyncRuns, NEW q \in SyncRuns, RunAgain(r, q) PROVE SyncInv'
  <2> DEFINE t == [IdleRun EXCEPT !.mode = run[r].mode, !.pc = "read"]
  <2>1. SoundRun(q, t)
    BY <1>11 DEF RunAgain, SoundRun, IdleRun, RunState
  <2> QED
    BY <1>11, <2>1, RunMoves DEF RunAgain
<1> QED
  BY <1>1, <1>2, <1>3, <1>4, <1>5, <1>6, <1>7, <1>8, <1>9, <1>10, <1>11 DEF SyncNext, RunStep

THEOREM SyncInvariant == SyncSpec => []SyncInv
<1>1. SyncInit => SyncInv
  BY SyncInvInit
<1>2. SyncInv /\ [SyncNext]_syncVars => SyncInv'
  BY SyncInvStep
<1> QED
  BY <1>1, <1>2, PTL DEF SyncSpec

\* A failure midway leaves the target as it was (workers/syncer.rs:254-257): what is in it
\* of any run is all that the run read, and the run has committed.
THEOREM CopiesWhole == SyncSpec => []CopiesAreWhole
<1>1. SyncInv => CopiesAreWhole
  BY DEF SyncInv
<1> QED
  BY <1>1, SyncInvariant, PTL

\* Two full runs have rows in the target only if one was committed after the other had read
\* the source (workers/syncer.rs:264-275).
THEOREM CopiesReplaced == SyncSpec => []CopiesReplace
<1>1. SyncInv => CopiesReplace
  BY DEF SyncInv
<1> QED
  BY <1>1, SyncInvariant, PTL
=============================================================================
