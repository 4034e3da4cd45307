---------------------------- MODULE MCBackOffice ----------------------------
(***************************************************************************)
(* The instance TLC checks of the components that share no state: a        *)
(* behaviour is about one of them, its subject, while the others rest.     *)
(***************************************************************************)
EXTENDS OrgTree, OneTimeLinks, Throttle, SessionRows, Replicas, SourceSync, FileStore

\* The departments are numbered level by level, and there are two of them or more.
ASSUME NumbersAssumption ==
    /\ IsFiniteSet(OrgNodes)
    /\ OrgNodes = 1 .. Cardinality(OrgNodes)
    /\ Cardinality(OrgNodes) > 1
    /\ NoNode = 0

VARIABLE subject

Subjects == {"org", "links", "throttle", "sessions", "replicas", "sync", "files"}

\* Every shape of a forest: the nodes 1 .. n, numbered level by level, so that parents
\* come before their children and do not decrease.  The last node may not be created yet;
\* the account is in the first, and holds no role yet.
Shapes(existing) ==
    {f \in [OrgNodes -> {NoNode} \cup existing] :
        \A n \in OrgNodes : /\ f[n] < n
                            /\ \A k \in existing : (n < k /\ n \in existing) => f[n] <= f[k]
                            /\ n \notin existing => f[n] = NoNode}
OrgAnyTree ==
    /\ unborn \in {{}, {Cardinality(OrgNodes)}}
    /\ nodes = OrgNodes \ unborn
    /\ parent \in Shapes(nodes)
    /\ people = People
    /\ home = [p \in People |-> 1]
    /\ roles = OrgRoles
    /\ held = {}
    /\ editor = [e \in Editors |-> IdleEditor]
    /\ raced = {}

\* Every path has an object, or one path only.
HeldBefore == {p \in Paths : object[0][p] = Old} \in {Paths, {CHOOSE p \in Paths : TRUE}}

\* The components that are not the subject are in one of their initial states.
Resting(first) == subject # first
MCInit ==
    /\ subject \in Subjects
    /\ OrgAnyTree /\ (Resting("org") => /\ unborn = {}
                                        /\ \A n \in OrgNodes : parent[n] = NoNode)
    /\ LinkInit /\ (Resting("links") => kind = "magic")
    /\ ThrottleInit
    /\ SessionInit
    /\ ReplicaInit /\ HeldBefore /\ (Resting("replicas") => /\ failureMode = "Single"
                                                            /\ \A p \in Paths : object[0][p] = Old)
    /\ SyncInit /\ (Resting("sync") => columnsGiven)
    /\ FileInit

OrgRests == UNCHANGED orgVars
LinksRest == UNCHANGED linkVars
ThrottleRests == UNCHANGED throttleVars
SessionsRest == UNCHANGED sessionVars
ReplicasRest == UNCHANGED replicaVars
SyncRests == UNCHANGED syncVars
FilesRest == UNCHANGED fileVars

MCNext ==
    /\ UNCHANGED subject
    /\ \/ /\ subject = "org" /\ OrgNext
          /\ LinksRest /\ ThrottleRests /\ SessionsRest /\ ReplicasRest /\ SyncRests /\ FilesRest
       \/ /\ subject = "links" /\ LinkNext
          /\ OrgRests /\ ThrottleRests /\ SessionsRest /\ ReplicasRest /\ SyncRests /\ FilesRest
       \/ /\ subject = "throttle" /\ ThrottleNext
          /\ OrgRests /\ LinksRest /\ SessionsRest /\ ReplicasRest /\ SyncRests /\ FilesRest
       \/ /\ subject = "sessions" /\ SessionNext
          /\ OrgRests /\ LinksRest /\ ThrottleRests /\ ReplicasRest /\ SyncRests /\ FilesRest
       \/ /\ subject = "replicas" /\ ReplicaNext
          /\ OrgRests /\ LinksRest /\ ThrottleRests /\ SessionsRest /\ SyncRests /\ FilesRest
       \/ /\ subject = "sync" /\ SyncNext
          /\ OrgRests /\ LinksRest /\ ThrottleRests /\ SessionsRest /\ ReplicasRest /\ FilesRest
       \/ /\ subject = "files" /\ FileNext
          /\ OrgRests /\ LinksRest /\ ThrottleRests /\ SessionsRest /\ ReplicasRest /\ SyncRests

MCSpec == MCInit /\ [][MCNext]_<< subject, orgVars, linkVars, throttleVars, sessionVars,
                                  replicaVars, syncVars, fileVars >>

\* Every variable of the subject has its type.
BackOfficeTypeOK ==
    /\ subject = "org" => OrgTypeOK
    /\ subject = "links" => LinkTypeOK
    /\ subject = "throttle" => ThrottleTypeOK
    /\ subject = "sessions" => SessionTypeOK
    /\ subject = "replicas" => ReplicaTypeOK
    /\ subject = "sync" => SyncTypeOK
    /\ subject = "files" => FileTypeOK
=============================================================================
