-------------------------- MODULE BackOffice_proofs --------------------------
(***************************************************************************)
(* What TLC explores of the components of MCBackOffice are behaviours of   *)
(* these components, so that what is proved of a component holds of the    *)
(* runs, and the types of all of them.                                     *)
(***************************************************************************)
EXTENDS MCBackOffice, OrgTree_proofs, Login_proofs, Storage_proofs, WellFoundedInduction

\* Parents that have smaller numbers make a forest.
LEMMA SmallerParents ==
    ASSUME OrgNodes \subseteq Nat, \A n \in OrgNodes : parent[n] < n
    PROVE  Acyclic
<1> SUFFICES ASSUME NEW S \in SUBSET OrgNodes, \A n \in S : parent[n] \in S, S # {}
             PROVE  FALSE
  BY DEF Acyclic
<1>1. PICK x \in S : \A y \in S : ~(<< y, x >> \in OpToRel(<, Nat))
  BY NatLessThanWellFounded, WFMin
<1>2. parent[x] \in S /\ parent[x] < x /\ x \in Nat /\ parent[x] \in Nat
  OBVIOUS
<1>3. << parent[x], x >> \in OpToRel(<, Nat)
  BY <1>2 DEF OpToRel
<1> QED
  BY <1>1, <1>2, <1>3

\* The trees TLC begins with are forests like any other.
LEMMA AnyTreeIsAForest == OrgAnyTree => OrgInit
<1> SUFFICES ASSUME OrgAnyTree PROVE OrgInit
  OBVIOUS
<1> DEFINE last == Cardinality(OrgNodes)
<1>1. last \in Nat /\ last > 1 /\ OrgNodes = 1 .. last /\ NoNode = 0
  BY NumbersAssumption, FS_CardinalityType
<1> HIDE DEF last
<1>2. unborn \subseteq OrgNodes /\ nodes = OrgNodes \ unborn /\ 1 \in nodes
  BY <1>1 DEF OrgAnyTree, last
<1>3. /\ parent \in [OrgNodes -> nodes \cup {NoNode}]
      /\ \A n \in OrgNodes : parent[n] < n
      /\ \A n \in OrgNodes \ nodes : parent[n] = NoNode
  BY <1>2 DEF OrgAnyTree, Shapes
<1>4. Acyclic
  BY <1>1, <1>3, SmallerParents
<1>5. home \in [People -> nodes \cup {NoNode}]
  BY <1>2 DEF OrgAnyTree
<1> QED
  BY <1>2, <1>3, <1>4, <1>5 DEF OrgAnyTree, OrgInit

\* Whatever the subject is, every component behaves as its own specification says: what the
\* theorems say of a component is true of every behaviour TLC explores of it.
THEOREM BackOfficeIsItsParts ==
    MCSpec => /\ OrgSpec /\ LinkSpec /\ ThrottleSpec /\ SessionSpec
              /\ ReplicaSpec /\ SyncSpec /\ FileSpec
<1>1. MCInit => /\ OrgInit /\ LinkInit /\ ThrottleInit /\ SessionInit
                /\ ReplicaInit /\ SyncInit /\ FileInit
  BY AnyTreeIsAForest DEF MCInit
<1> DEFINE vars == << subject, orgVars, linkVars, throttleVars, sessionVars, replicaVars,
                      syncVars, fileVars >>
<1>2. [MCNext]_vars => [OrgNext]_orgVars
  BY DEF MCNext, OrgRests
<1>3. [MCNext]_vars => [LinkNext]_linkVars
  BY DEF MCNext, LinksRest
<1>4. [MCNext]_vars => [ThrottleNext]_throttleVars
  BY DEF MCNext, ThrottleRests
<1>5. [MCNext]_vars => [SessionNext]_sessionVars
  BY DEF MCNext, SessionsRest
<1>6. [MCNext]_vars => [ReplicaNext]_replicaVars
  BY DEF MCNext, ReplicasRest
<1>7. [MCNext]_vars => [SyncNext]_syncVars
  BY DEF MCNext, SyncRests
<1>8. [MCNext]_vars => [FileNext]_fileVars
  BY DEF MCNext, FilesRest
<1> QED
  BY <1>1, <1>2, <1>3, <1>4, <1>5, <1>6, <1>7, <1>8, PTL
     DEF MCSpec, OrgSpec, LinkSpec, ThrottleSpec, SessionSpec, ReplicaSpec, SyncSpec, FileSpec

\* The types of the seven components (departments and menus, one-time links, rate limiter,
\* session rows, replicas, synchronisation, files), whoever is the subject.
THEOREM BackOfficeTypes == MCSpec => []BackOfficeTypeOK
<1>1. SessionSpec => []SessionInv
  BY SessionInvInit, SessionInvStep, PTL DEF SessionSpec
<1>2. /\ LinkInv => LinkTypeOK
      /\ ThrottleInv => ThrottleTypeOK
      /\ SessionInv => SessionTypeOK
      /\ ReplicaInv => ReplicaTypeOK
      /\ SyncInv => SyncTypeOK
      /\ FileInv => FileTypeOK
  BY DEF LinkInv, ThrottleInv, SessionInv, ReplicaInv, SyncInv, FileInv
<1>3. /\ OrgTypeOK /\ LinkTypeOK /\ ThrottleTypeOK /\ SessionTypeOK
      /\ ReplicaTypeOK /\ SyncTypeOK /\ FileTypeOK
      => BackOfficeTypeOK
  BY DEF BackOfficeTypeOK
<1> QED
  BY <1>1, <1>2, <1>3, BackOfficeIsItsParts, OrgTypeCorrect, LinkInvariant, ThrottleInvariant,
     ReplicaInvariant, SyncInvariant, FileInvariant, PTL
=============================================================================
