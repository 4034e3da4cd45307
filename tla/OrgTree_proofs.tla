--------------------------- MODULE OrgTree_proofs ---------------------------
(***************************************************************************)
(* OrgTree for any number of nodes and concurrent requests: a cycle takes  *)
(* a move that another move crossed, or a tree deeper than the climb.      *)
(***************************************************************************)
EXTENDS OrgTree, FiniteSetTheorems, TLAPS

\* A climb that no move crossed has gone through ancestors of the new parent, up to
\* where it is, and has not met the node that is to move.
ClimbSound(s) ==
    /\ s.op = "move" /\ s.pc = "load" => s.seen = {}
    /\ s.pc = "climb" /\ s.at = s.node => s.at = s.to
    /\ (s.op = "move" /\ s.pc \in {"climb", "write"} /\ ~s.crossed) =>
          /\ s.node \notin s.seen
          /\ s.seen \cap unborn = {}
          /\ \A x \in s.seen : parent[x] \in s.seen \cup {s.at, NoNode}
          /\ s.to # NoNode => s.to \in s.seen \cup {s.at}

ClimbsSound == \A e \in Editors : ClimbSound(editor[e])

OrgInv == OrgTypeOK /\ ClimbsSound /\ CyclesAreRaced

-----------------------------------------------------------------------------
(* Type correctness.                                                       *)

LEMMA IdleEditorType == IdleEditor \in EditorState /\ EditorDone \in EditorState
<1>1. IdleEditor \in EditorState
  BY ClimbAssumption DEF IdleEditor, EditorState, Parents
<1>2. EditorDone \in EditorState
  BY <1>1 DEF EditorDone, EditorState
<1> QED
  BY <1>1, <1>2

\* One request changes its own state, and does not climb.
LEMMA OneEditor ==
    ASSUME EditorsOK, NEW e \in Editors, NEW t \in EditorState, EditorBecomes(e, t),
           t.pc # "climb"
    PROVE  EditorsOK'
BY DEF EditorsOK, EditorBecomes

LEMMA OneEditorDone ==
    ASSUME EditorsOK, NEW e \in Editors, EditorBecomes(e, EditorDone)
    PROVE  EditorsOK'
<1>1. EditorDone.pc # "climb"
  BY DEF EditorDone, IdleEditor
<1> QED
  BY <1>1, IdleEditorType, OneEditor

LEMMA OneEditorGoes ==
    ASSUME EditorsOK, NEW e \in Editors, NEW stage \in {"load", "count", "write"},
           EditorGoes(e, stage)
    PROVE  EditorsOK'
<1> DEFINE t == [editor[e] EXCEPT !.pc = stage]
<1>1. t \in EditorState /\ t.pc # "climb"
  BY DEF EditorsOK, EditorState
<1> QED
  BY <1>1, OneEditor DEF EditorGoes

\* Two states of a request that are at the same point of the same work.
SameWork(t, s) ==
    /\ t.op = s.op /\ t.pc = s.pc /\ t.node = s.node /\ t.to = s.to
    /\ t.at = s.at /\ t.seen = s.seen /\ t.left = s.left

\* Telling the removals what was attached changes nothing but what they know.
LEMMA AttachedKeeps ==
    ASSUME NEW others \in [Editors -> EditorState], NEW n, NEW rs,
           NEW what \in SUBSET (OrgNodes \cup People)
    PROVE  /\ Attached(others, n, rs, what) \in [Editors -> EditorState]
           /\ \A f \in Editors :
                /\ SameWork(Attached(others, n, rs, what)[f], others[f])
                /\ Attached(others, n, rs, what)[f].crossed = others[f].crossed
<1>1. SUFFICES ASSUME NEW f \in Editors
               PROVE  /\ Attached(others, n, rs, what)[f] \in EditorState
                      /\ SameWork(Attached(others, n, rs, what)[f], others[f])
                      /\ Attached(others, n, rs, what)[f].crossed = others[f].crossed
  <2>1. Attached(others, n, rs, what)
            = [f \in Editors |-> Attached(others, n, rs, what)[f]]
    BY DEF Attached
  <2> QED
    BY <1>1, <2>1
<1> DEFINE s == others[f]
<1>2. s \in EditorState
  OBVIOUS
<1>3. [s EXCEPT !.late = @ \cup what] \in EditorState
  BY <1>2 DEF EditorState
<1>4. Attached(others, n, rs, what)[f] \in {s, [s EXCEPT !.late = @ \cup what]}
  BY DEF Attached
<1> QED
  BY <1>2, <1>3, <1>4 DEF EditorState, SameWork

\* The same of the crossing of climbs.
LEMMA CrossedKeeps ==
    ASSUME NEW s \in EditorState
    PROVE  /\ Crossed(s) \in EditorState
           /\ SameWork(Crossed(s), s)
           /\ (s.op = "move" /\ s.pc \in {"climb", "write"}) => Crossed(s).crossed
BY DEF Crossed, EditorState, SameWork

\* Requests that learn of a crossing or of an attachment go on as they were.
LEMMA ToldEditors ==
    ASSUME EditorsOK, NEW others \in [Editors -> EditorState],
           \A f \in Editors : others[f].pc = "climb" =>
                others[f].op = "move" /\ others[f].at # NoNode /\ others[f].left > 0,
           NEW n, NEW rs, NEW what \in SUBSET (OrgNodes \cup People),
           editor' = Attached(others, n, rs, what)
    PROVE  EditorsOK'
BY AttachedKeeps DEF EditorsOK, SameWork

\* The request that has just written is done, the others are where they were.
LEMMA OthersOK ==
    ASSUME EditorsOK, NEW e \in Editors
    PROVE  LET others == [editor EXCEPT ![e] = EditorDone] IN
           /\ others \in [Editors -> EditorState]
           /\ \A f \in Editors : others[f].pc = "climb" =>
                others[f].op = "move" /\ others[f].at # NoNode /\ others[f].left > 0
<1>1. EditorDone.pc # "climb"
  BY DEF EditorDone, IdleEditor
<1> QED
  BY <1>1, IdleEditorType DEF EditorsOK

\* Actions that change no row.
LEMMA RowsStay ==
    ASSUME RowsOK, TreeUnchanged, RolesUnchanged
    PROVE  RowsOK'
BY DEF RowsOK, TreeUnchanged, RolesUnchanged

LEMMA OrgTypeInit == OrgInit => OrgTypeOK
<1>1. IdleEditor.pc # "climb"
  BY DEF IdleEditor
<1> QED
  BY <1>1, IdleEditorType DEF OrgInit, OrgTypeOK, RowsOK, EditorsOK

LEMMA OrgTypeStep ==
    ASSUME OrgTypeOK, [OrgNext]_orgVars
    PROVE  OrgTypeOK'
<1> USE DEF OrgTypeOK
<1>0. CASE UNCHANGED orgVars
  BY <1>0 DEF orgVars, RowsOK, EditorsOK
<1>1. CASE \E e \in Editors, to \in Parents : StartCreate(e, to)
  <2> PICK e \in Editors, to \in Parents : StartCreate(e, to)
    BY <1>1
  <2> DEFINE t == [IdleEditor EXCEPT !.op = "create", !.pc = "load", !.to = to]
  <2>1. t \in EditorState /\ t.pc # "climb"
    BY IdleEditorType DEF EditorState
  <2> QED
    BY <2>1, OneEditor, RowsStay DEF StartCreate
<1>2. CASE \E e \in Editors, n \in OrgNodes, to \in Parents : StartMove(e, n, to)
  <2> PICK e \in Editors, n \in OrgNodes, to \in Parents : StartMove(e, n, to)
    BY <1>2
  <2> DEFINE t == [IdleEditor EXCEPT !.op = "move", !.pc = "load", !.node = n, !.to = to]
  <2>1. t \in EditorState /\ t.pc # "climb"
    BY IdleEditorType DEF EditorState, Parents
  <2> QED
    BY <2>1, OneEditor, RowsStay DEF StartMove
<1>3. CASE \E e \in Editors, n \in OrgNodes : StartRemove(e, n)
  <2> PICK e \in Editors, n \in OrgNodes : StartRemove(e, n)
    BY <1>3
  <2> DEFINE t == [IdleEditor EXCEPT !.op = "remove", !.pc = "count", !.node = n]
  <2>1. t \in EditorState /\ t.pc # "climb"
    BY IdleEditorType DEF EditorState, Parents
  <2> QED
    BY <2>1, OneEditor, RowsStay DEF StartRemove
<1>4. CASE \E e \in Editors, p \in People, grant \in SUBSET OrgRoles, to \in Parents :
              StartEdit(e, p, grant, to)
  <2> PICK e \in Editors, p \in People, grant \in SUBSET OrgRoles, to \in Parents :
              StartEdit(e, p, grant, to)
    BY <1>4
  <2> DEFINE t == [IdleEditor EXCEPT !.op = "edit", !.pc = "load", !.person = {p},
                                     !.grant = grant, !.to = to]
  <2>1. t \in EditorState /\ t.pc # "climb"
    BY IdleEditorType DEF EditorState, Parents
  <2> QED
    BY <2>1, OneEditor, RowsStay DEF StartEdit
<1>5. CASE \E e \in Editors, r \in OrgRoles : StartDrop(e, r)
  <2> PICK e \in Editors, r \in OrgRoles : StartDrop(e, r)
    BY <1>5
  <2> DEFINE t == [IdleEditor EXCEPT !.op = "drop", !.pc = "find", !.grant = {r}]
  <2>1. t \in EditorState /\ t.pc # "climb"
    BY IdleEditorType DEF EditorState, Parents
  <2> QED
    BY <2>1, OneEditor, RowsStay DEF StartDrop
<1>6. ASSUME NEW e \in Editors,
             LoadParent(e) \/ CountChildren(e) \/ LoadForRemoval(e) \/ LoadAccount(e)
               \/ LoadRole(e) \/ CountHolders(e) \/ EditorFails(e)
      PROVE  OrgTypeOK'
  <2>1. \/ EditorBecomes(e, EditorDone)
        \/ \E stage \in {"load", "count", "write"} : EditorGoes(e, stage)
    BY <1>6 DEF LoadParent, CountChildren, LoadForRemoval, LoadAccount, LoadRole, CountHolders,
                EditorFails
  <2>2. TreeUnchanged /\ RolesUnchanged
    BY <1>6 DEF LoadParent, CountChildren, LoadForRemoval, LoadAccount, LoadRole, CountHolders,
                EditorFails
  <2> QED
    BY <2>1, <2>2, OneEditorDone, OneEditorGoes, RowsStay
<1>7. ASSUME NEW e \in Editors, NEW n \in unborn, InsertNode(e, n) PROVE OrgTypeOK'
  <2>1. RowsOK'
    BY <1>7 DEF InsertNode, RowsOK, RolesUnchanged
  <2>2. {n} \in SUBSET (OrgNodes \cup People)
    BY DEF RowsOK
  <2>3. EditorsOK'
    <3>1. CASE EditorBecomes(e, EditorDone)
      BY <3>1, OneEditorDone
    <3>2. CASE editor' = Attached([editor EXCEPT ![e] = EditorDone], editor[e].to, {}, {n})
      BY <3>2, <2>2, OthersOK, ToldEditors
    <3> QED
      BY <1>7, <3>1, <3>2 DEF InsertNode
  <2> QED
    BY <2>1, <2>3
<1>8. ASSUME NEW e \in Editors, LoadNode(e) PROVE OrgTypeOK'
  <2> DEFINE s == editor[e]
             t == [s EXCEPT !.pc = "climb", !.at = s.to, !.left = MaxClimb]
  <2>1. s \in EditorState /\ MaxClimb \in 0 .. MaxClimb /\ MaxClimb > 0
    BY ClimbAssumption DEF EditorsOK
  <2>2. t \in EditorState
    BY <2>1 DEF EditorState
  <2>3. CASE EditorBecomes(e, EditorDone) \/ EditorGoes(e, "write")
    BY <1>8, <2>3, OneEditorDone, OneEditorGoes, RowsStay DEF LoadNode
  <2>4. CASE s.op = "move" /\ s.to # NoNode /\ EditorBecomes(e, t)
    <3>1. t.op = "move" /\ t.at # NoNode /\ t.left > 0
      BY <2>1, <2>4 DEF EditorState
    <3>2. EditorsOK'
      BY <2>2, <2>4, <3>1 DEF EditorsOK, EditorBecomes
    <3> QED
      BY <1>8, <3>2, RowsStay DEF LoadNode
  <2> QED
    BY <1>8, <2>3, <2>4 DEF LoadNode, At
<1>9. ASSUME NEW e \in Editors, Climb(e) PROVE OrgTypeOK'
  <2> DEFINE s == editor[e]
             next == parent[s.at]
             stage == IF next = NoNode \/ s.left = 1 THEN "write" ELSE "climb"
             t == [s EXCEPT !.at = next, !.seen = @ \cup {s.at}, !.left = @ - 1,
                            !.pc = stage]
  <2>1. CASE EditorBecomes(e, EditorDone)
    BY <1>9, <2>1, OneEditorDone, RowsStay DEF Climb
  <2>2. CASE s.at \in nodes /\ EditorBecomes(e, t)
    <3>1. s \in EditorState /\ s.op = "move" /\ s.left \in 1 .. MaxClimb
      BY <1>9, ClimbAssumption DEF Climb, At, EditorsOK, EditorState
    <3>2. s.at \in OrgNodes /\ next \in Parents
      BY <2>2 DEF RowsOK, Parents
    <3>3. s.left - 1 \in 0 .. MaxClimb /\ (s.left # 1 => s.left - 1 > 0)
      BY <3>1, ClimbAssumption
    <3>4. stage \in {"write", "climb"} /\ (stage = "climb" => next # NoNode /\ s.left # 1)
      OBVIOUS
    <3>5. t \in EditorState
      BY <3>1, <3>2, <3>3, <3>4 DEF EditorState
    <3>6. t.pc = "climb" => t.op = "move" /\ t.at # NoNode /\ t.left > 0
      BY <3>1, <3>3, <3>4 DEF EditorState
    <3>7. EditorsOK'
      BY <2>2, <3>5, <3>6 DEF EditorsOK, EditorBecomes
    <3> QED
      BY <1>9, <3>7, RowsStay DEF Climb
  <2> QED
    BY <1>9, <2>1, <2>2 DEF Climb
<1>10. ASSUME NEW e \in Editors, WriteParent(e) PROVE OrgTypeOK'
  <2> DEFINE s == editor[e]
             others == [f \in Editors |-> IF f = e THEN EditorDone ELSE Crossed(editor[f])]
  <2>1. RowsOK'
    BY <1>10 DEF WriteParent, RowsOK, RolesUnchanged
  <2>2. CASE EditorBecomes(e, EditorDone)
    BY <2>1, <2>2, OneEditorDone
  <2>3. CASE s.node \in nodes /\ editor' = Attached(others, s.to, {}, {s.node})
    <3>1. EditorDone.pc # "climb"
      BY DEF EditorDone, IdleEditor
    <3>2. /\ others \in [Editors -> EditorState]
          /\ \A f \in Editors : others[f].pc = "climb" =>
               others[f].op = "move" /\ others[f].at # NoNode /\ others[f].left > 0
      BY <3>1, IdleEditorType, CrossedKeeps DEF EditorsOK, SameWork
    <3>3. {s.node} \in SUBSET (OrgNodes \cup People)
      BY <2>3 DEF RowsOK
    <3>4. EditorsOK'
      BY <2>3, <3>2, <3>3, ToldEditors
    <3> QED
      BY <2>1, <3>4
  <2> QED
    BY <1>10, <2>2, <2>3 DEF WriteParent
<1>11. ASSUME NEW e \in Editors, DeleteNode(e) PROVE OrgTypeOK'
  <2>1. RowsOK'
    BY <1>11 DEF DeleteNode, RowsOK, Staff
  <2> QED
    BY <1>11, <2>1, OneEditorDone DEF DeleteNode
<1>12. ASSUME NEW e \in Editors, WriteAccount(e) PROVE OrgTypeOK'
  <2> DEFINE s == editor[e]
  <2>1. RowsOK'
    BY <1>12 DEF WriteAccount, RowsOK, TreeUnchanged
  <2>2. CASE EditorBecomes(e, EditorDone)
    BY <2>1, <2>2, OneEditorDone
  <2>3. CASE editor' = Attached([editor EXCEPT ![e] = EditorDone], NoNode, s.grant, s.person)
    <3>1. s.person \in SUBSET (OrgNodes \cup People)
      BY DEF EditorsOK, EditorState
    <3>2. EditorsOK'
      BY <2>3, <3>1, OthersOK, ToldEditors
    <3> QED
      BY <2>1, <3>2
  <2> QED
    BY <1>12, <2>2, <2>3 DEF WriteAccount
<1>13. ASSUME NEW e \in Editors, DeleteRole(e) PROVE OrgTypeOK'
  <2>1. RowsOK'
    BY <1>13 DEF DeleteRole, RowsOK, TreeUnchanged
  <2> QED
    BY <1>13, <2>1, OneEditorDone DEF DeleteRole
<1> QED
  BY <1>0, <1>1, <1>2, <1>3, <1>4, <1>5, <1>6, <1>7, <1>8, <1>9, <1>10, <1>11, <1>12, <1>13
  DEF OrgNext, EditorStep

\* Type correctness: the foreign keys hold (nothing points at a row that is gone).
THEOREM OrgTypeCorrect == OrgSpec => []OrgTypeOK
BY OrgTypeInit, OrgTypeStep, PTL DEF OrgSpec

-----------------------------------------------------------------------------
(* Climbs, and the cycles they exclude.                                    *)

LEMMA NotClimbing ==
    /\ IdleEditor.op # "move" /\ IdleEditor.pc # "climb"
    /\ EditorDone.op # "move" /\ EditorDone.pc # "climb"
BY DEF IdleEditor, EditorDone

\* A request that changes only its own state, and no row.
LEMMA ClimbsStay ==
    ASSUME EditorsOK, ClimbsSound, NEW e \in Editors, NEW t, EditorBecomes(e, t),
           TreeUnchanged, ClimbSound(t)
    PROVE  ClimbsSound'
<1> SUFFICES ASSUME NEW f \in Editors PROVE ClimbSound(editor[f])'
  BY DEF ClimbsSound
<1>1. editor'[f] = IF f = e THEN t ELSE editor[f]
  BY DEF EditorBecomes, EditorsOK
<1>2. ClimbSound(editor'[f])
  BY <1>1 DEF ClimbsSound
<1> QED
  BY <1>2 DEF ClimbSound, TreeUnchanged

\* A request is done after it changed rows; the others climb as before, unless they
\* were crossed, over parents that are the same or were cut off.
LEMMA ClimbsOfOthers ==
    ASSUME OrgTypeOK, ClimbsSound, NEW e \in Editors,
           unborn' \subseteq unborn,
           editor'[e].op # "move", editor'[e].pc # "climb",
           \A f \in Editors \ {e} :
              /\ SameWork(editor'[f], editor[f])
              /\ (/\ editor[f].op = "move" /\ editor[f].pc \in {"climb", "write"}
                  /\ ~editor'[f].crossed) =>
                   /\ ~editor[f].crossed
                   /\ \A x \in editor[f].seen : parent'[x] \in {parent[x], NoNode}
    PROVE  ClimbsSound'
<1> SUFFICES ASSUME NEW f \in Editors PROVE ClimbSound(editor[f])'
  BY DEF ClimbsSound
<1>1. CASE f = e
  BY <1>1 DEF ClimbSound
<1>2. CASE f # e
  <2>1. ClimbSound(editor[f])
    BY DEF ClimbsSound
  <2> QED
    BY <1>2, <2>1 DEF ClimbSound, SameWork
<1> QED
  BY <1>1, <1>2

\* If no parent is set, no cycle appears.
LEMMA NoCycleByCutting ==
    ASSUME CyclesAreRaced, NoNode \notin OrgNodes, raced' = raced,
           \A n \in OrgNodes : parent'[n] \in {parent[n], NoNode}
    PROVE  CyclesAreRaced'
<1> SUFFICES ASSUME NEW S \in SUBSET OrgNodes, S # {}, \A n \in S : parent'[n] \in S
             PROVE  S \cap raced' # {}
  BY DEF CyclesAreRaced
<1>1. \A n \in S : parent[n] \in S
  OBVIOUS
<1> QED
  BY <1>1 DEF CyclesAreRaced

\* A new leaf is on no cycle.
LEMMA NoCycleByLeaf ==
    ASSUME OrgTypeOK, CyclesAreRaced, NEW n \in unborn, NEW d \in nodes \cup {NoNode},
           parent' = [parent EXCEPT ![n] = d], raced' = raced
    PROVE  CyclesAreRaced'
<1> SUFFICES ASSUME NEW S \in SUBSET OrgNodes, S # {}, \A x \in S : parent'[x] \in S
             PROVE  S \cap raced # {}
  BY DEF CyclesAreRaced
<1> DEFINE T == S \ {n}
<1>1. /\ n \in OrgNodes /\ n \notin nodes /\ n # NoNode /\ d # n
      /\ \A x \in OrgNodes : parent[x] # n
      /\ \A x \in OrgNodes \ {n} : parent'[x] = parent[x]
      /\ parent'[n] = d
  BY NoNodeAssumption DEF OrgTypeOK, RowsOK
<1>2. T # {}
  BY <1>1
<1>3. \A x \in T : parent[x] \in T
  BY <1>1
<1> QED
  BY <1>2, <1>3 DEF CyclesAreRaced

\* A move whose climb went to the root undisturbed closes no cycle: what is on a
\* cycle through the moved node and was climbed over would be a cycle without it.
LEMMA NoCycleBySureMove ==
    ASSUME OrgTypeOK, CyclesAreRaced, NEW n \in OrgNodes, NEW d \in OrgNodes,
           NEW seen, n \notin seen, d \in seen,
           \A x \in seen : parent[x] \in seen \cup {NoNode},
           parent' = [parent EXCEPT ![n] = d], raced' = raced \ {n}
    PROVE  CyclesAreRaced'
<1> SUFFICES ASSUME NEW S \in SUBSET OrgNodes, S # {}, \A x \in S : parent'[x] \in S
             PROVE  S \cap raced' # {}
  BY DEF CyclesAreRaced
<1>0. /\ parent'[n] = d
      /\ \A x \in OrgNodes \ {n} : parent'[x] = parent[x]
  BY DEF OrgTypeOK, RowsOK
<1>1. CASE n \notin S
  <2>1. \A x \in S : parent[x] \in S
    BY <1>0, <1>1
  <2> QED
    BY <1>1, <2>1 DEF CyclesAreRaced
<1>2. CASE n \in S
  <2> DEFINE T == S \cap seen
  <2>1. d \in T
    BY <1>0, <1>2
  <2>2. \A x \in T : parent[x] \in T
    BY <1>0, NoNodeAssumption
  <2>3. T \cap raced # {}
    BY <2>1, <2>2 DEF CyclesAreRaced
  <2> QED
    BY <2>3
<1> QED
  BY <1>1, <1>2

-----------------------------------------------------------------------------
(* The invariant.                                                          *)

LEMMA OrgInvInit == OrgInit => OrgInv
<1> SUFFICES ASSUME OrgInit PROVE OrgInv
  OBVIOUS
<1>1. ClimbsSound
  BY NotClimbing DEF OrgInit, ClimbsSound, ClimbSound
<1>2. CyclesAreRaced
  BY DEF OrgInit, Acyclic, CyclesAreRaced
<1> QED
  BY <1>1, <1>2, OrgTypeInit DEF OrgInv

LEMMA OrgInvStep ==
    ASSUME OrgInv, [OrgNext]_orgVars
    PROVE  OrgInv'
<1> USE DEF OrgInv
<1>0. OrgTypeOK'
  BY OrgTypeStep
<1> SUFFICES ClimbsSound' /\ CyclesAreRaced'
  BY <1>0
<1> EditorsOK /\ RowsOK
  BY DEF OrgTypeOK
<1>a. TreeUnchanged => CyclesAreRaced'
  BY DEF TreeUnchanged, CyclesAreRaced
<1>b. ASSUME NEW e \in Editors, EditorBecomes(e, EditorDone), TreeUnchanged
      PROVE  ClimbsSound'
  BY <1>b, ClimbsStay, NotClimbing DEF ClimbSound
<1>c. ASSUME NEW e \in Editors, NEW stage \in {"load", "count", "write"}, EditorGoes(e, stage),
             TreeUnchanged, editor[e].op # "move"
      PROVE  ClimbsSound'
  <2> DEFINE t == [editor[e] EXCEPT !.pc = stage]
  <2>1. t.op # "move" /\ t.pc # "climb"
    BY <1>c DEF EditorsOK, EditorState
  <2> QED
    BY <1>c, <2>1, ClimbsStay DEF ClimbSound, EditorGoes
<1>1. CASE UNCHANGED orgVars
  BY <1>1, <1>a DEF orgVars, ClimbsSound, ClimbSound, TreeUnchanged
<1>2. ASSUME NEW e \in Editors, NEW to \in Parents, StartCreate(e, to)
      PROVE  ClimbsSound' /\ CyclesAreRaced'
  <2> DEFINE t == [IdleEditor EXCEPT !.op = "create", !.pc = "load", !.to = to]
  <2>1. ClimbSound(t)
    BY DEF ClimbSound, IdleEditor
  <2> QED
    BY <1>2, <1>a, <2>1, ClimbsStay DEF StartCreate
<1>3. ASSUME NEW e \in Editors, NEW n \in OrgNodes, NEW to \in Parents, StartMove(e, n, to)
      PROVE  ClimbsSound' /\ CyclesAreRaced'
  <2> DEFINE t == [IdleEditor EXCEPT !.op = "move", !.pc = "load", !.node = n, !.to = to]
  <2>1. ClimbSound(t)
    BY DEF ClimbSound, IdleEditor
  <2> QED
    BY <1>3, <1>a, <2>1, ClimbsStay DEF StartMove
<1>4. ASSUME NEW e \in Editors, NEW n \in OrgNodes, StartRemove(e, n)
      PROVE  ClimbsSound' /\ CyclesAreRaced'
  <2> DEFINE t == [IdleEditor EXCEPT !.op = "remove", !.pc = "count", !.node = n]
  <2>1. ClimbSound(t)
    BY DEF ClimbSound, IdleEditor
  <2> QED
    BY <1>4, <1>a, <2>1, ClimbsStay DEF StartRemove
<1>5. ASSUME NEW e \in Editors, NEW p \in People, NEW grant \in SUBSET OrgRoles,
             NEW to \in Parents, StartEdit(e, p, grant, to)
      PROVE  ClimbsSound' /\ CyclesAreRaced'
  <2> DEFINE t == [IdleEditor EXCEPT !.op = "edit", !.pc = "load", !.person = {p},
                                     !.grant = grant, !.to = to]
  <2>1. ClimbSound(t)
    BY DEF ClimbSound, IdleEditor
  <2> QED
    BY <1>5, <1>a, <2>1, ClimbsStay DEF StartEdit
<1>6. ASSUME NEW e \in Editors, NEW r \in OrgRoles, StartDrop(e, r)
      PROVE  ClimbsSound' /\ CyclesAreRaced'
  <2> DEFINE t == [IdleEditor EXCEPT !.op = "drop", !.pc = "find", !.grant = {r}]
  <2>1. ClimbSound(t)
    BY DEF ClimbSound, IdleEditor
  <2> QED
    BY <1>6, <1>a, <2>1, ClimbsStay DEF StartDrop
<1>7. ASSUME NEW e \in Editors,
             LoadParent(e) \/ CountChildren(e) \/ LoadForRemoval(e) \/ LoadAccount(e)
               \/ LoadRole(e) \/ CountHolders(e) \/ EditorFails(e)
      PROVE  ClimbsSound' /\ CyclesAreRaced'
  <2>1. \/ EditorBecomes(e, EditorDone)
        \/ /\ editor[e].op # "move"
           /\ \E stage \in {"load", "count", "write"} : EditorGoes(e, stage)
    BY <1>7 DEF LoadParent, CountChildren, LoadForRemoval, LoadAccount, LoadRole, CountHolders,
                EditorFails, At
  <2>2. TreeUnchanged
    BY <1>7 DEF LoadParent, CountChildren, LoadForRemoval, LoadAccount, LoadRole, CountHolders,
                EditorFails
  <2> QED
    BY <1>a, <1>b, <1>c, <2>1, <2>2
<1>8. ASSUME NEW e \in Editors, NEW n \in unborn, InsertNode(e, n)
      PROVE  ClimbsSound' /\ CyclesAreRaced'
  <2> DEFINE d == editor[e].to
  <2>1. CASE d \notin nodes \cup {NoNode}
    <3>1. UNCHANGED << nodes, parent, raced >> /\ EditorBecomes(e, EditorDone)
          /\ unborn' \subseteq unborn
      BY <1>8, <2>1 DEF InsertNode
    <3>2. CyclesAreRaced'
      BY <3>1 DEF CyclesAreRaced
    <3>3. ClimbsSound'
      BY <3>1, ClimbsOfOthers, NotClimbing DEF EditorBecomes, EditorsOK, SameWork
    <3> QED
      BY <3>2, <3>3
  <2>2. CASE d \in nodes \cup {NoNode}
    <3> DEFINE others == [editor EXCEPT ![e] = EditorDone]
    <3>1. /\ unborn' = unborn \ {n} /\ parent' = [parent EXCEPT ![n] = d] /\ raced' = raced
          /\ editor' = Attached(others, d, {}, {n})
      BY <1>8, <2>2 DEF InsertNode
    <3>2. CyclesAreRaced'
      BY <2>2, <3>1, NoCycleByLeaf
    <3>3. /\ others \in [Editors -> EditorState]
          /\ others[e] = EditorDone
          /\ \A f \in Editors \ {e} : others[f] = editor[f]
      BY IdleEditorType DEF EditorsOK
    <3>a. {n} \in SUBSET (OrgNodes \cup People)
      BY DEF RowsOK
    <3> HIDE DEF others, d
    <3>4. \A f \in Editors :
            SameWork(editor'[f], others[f]) /\ editor'[f].crossed = others[f].crossed
      BY <3>1, <3>3, <3>a, AttachedKeeps
    <3>5. \A f \in Editors \ {e} :
            (/\ editor[f].op = "move" /\ editor[f].pc \in {"climb", "write"}
             /\ ~editor[f].crossed)
              => \A x \in editor[f].seen : parent'[x] = parent[x]
      BY <3>1 DEF ClimbsSound, ClimbSound, RowsOK, EditorsOK, EditorState
    <3>b. editor'[e].op # "move" /\ editor'[e].pc # "climb"
      BY <3>3, <3>4, NotClimbing DEF SameWork
    <3>6. ClimbsSound'
      <4>1. \A f \in Editors \ {e} :
              /\ SameWork(editor'[f], editor[f])
              /\ editor'[f].crossed = editor[f].crossed
        BY <3>3, <3>4
      <4>2. unborn' \subseteq unborn
        BY <3>1
      <4> QED
        BY <4>1, <4>2, <3>5, <3>b, ClimbsOfOthers
    <3> QED
      BY <3>2, <3>6
  <2> QED
    BY <2>1, <2>2
<1>9. ASSUME NEW e \in Editors, LoadNode(e)
      PROVE  ClimbsSound' /\ CyclesAreRaced'
  <2> DEFINE s == editor[e]
             t == [s EXCEPT !.pc = "climb", !.at = s.to, !.left = MaxClimb]
             u == [s EXCEPT !.pc = "write"]
  <2>1. s \in EditorState /\ s.op = "move" /\ s.pc = "load" /\ s.seen = {}
    BY <1>9 DEF LoadNode, At, EditorsOK, ClimbsSound, ClimbSound
  <2>2. ClimbSound(t) /\ (s.to = NoNode => ClimbSound(u))
    BY <2>1 DEF ClimbSound, EditorState
  <2>3. TreeUnchanged
    BY <1>9 DEF LoadNode
  <2>4. \/ EditorBecomes(e, EditorDone)
        \/ s.to = NoNode /\ EditorBecomes(e, u)
        \/ EditorBecomes(e, t)
    BY <1>9 DEF LoadNode, EditorGoes
  <2> QED
    BY <1>a, <1>b, <2>2, <2>3, <2>4, ClimbsStay
<1>10. ASSUME NEW e \in Editors, Climb(e)
       PROVE  ClimbsSound' /\ CyclesAreRaced'
  <2> DEFINE s == editor[e]
             next == parent[s.at]
             stage == IF next = NoNode \/ s.left = 1 THEN "write" ELSE "climb"
             t == [s EXCEPT !.at = next, !.seen = @ \cup {s.at}, !.left = @ - 1,
                            !.pc = stage]
  <2>1. TreeUnchanged
    BY <1>10 DEF Climb
  <2>2. CASE EditorBecomes(e, EditorDone)
    BY <1>a, <1>b, <2>1, <2>2
  <2>3. CASE /\ s.at \in nodes
             /\ s.node # s.to /\ s.node # next
             /\ EditorBecomes(e, t)
    <3>1. s \in EditorState /\ s.op = "move" /\ s.pc = "climb" /\ ClimbSound(s)
      BY <1>10 DEF Climb, At, EditorsOK, ClimbsSound
    <3>2. /\ t.op = "move" /\ t.pc \in {"climb", "write"} /\ t.node = s.node /\ t.to = s.to
          /\ t.at = next /\ t.seen = s.seen \cup {s.at} /\ t.crossed = s.crossed
      BY <3>1 DEF EditorState
    <3>3. s.at \notin unborn
      BY <2>3 DEF RowsOK
    <3>4. ClimbSound(t)
      BY <2>3, <3>1, <3>2, <3>3 DEF ClimbSound
    <3> QED
      BY <1>a, <2>1, <2>3, <3>4, ClimbsStay
  <2> QED
    BY <1>10, <2>2, <2>3 DEF Climb, FormsCycle
<1>11. ASSUME NEW e \in Editors, WriteParent(e)
       PROVE  ClimbsSound' /\ CyclesAreRaced'
  <2> DEFINE s == editor[e]
             others == [f \in Editors |-> IF f = e THEN EditorDone ELSE Crossed(editor[f])]
  <2>1. CASE EditorBecomes(e, EditorDone) /\ TreeUnchanged
    BY <1>a, <1>b, <2>1
  <2>2. CASE /\ s.node \in nodes /\ s.to \in nodes \cup {NoNode}
             /\ parent' = [parent EXCEPT ![s.node] = s.to]
             /\ raced' = IF Unsure(s) THEN raced \cup {s.node} ELSE raced \ {s.node}
             /\ editor' = Attached(others, s.to, {}, {s.node})
             /\ unborn' = unborn
    <3>1. /\ s \in EditorState /\ s.op = "move" /\ s.pc = "write" /\ ClimbSound(s)
          /\ s.node \in OrgNodes /\ s.node # NoNode
      BY <1>11, <2>2, NoNodeAssumption DEF WriteParent, At, EditorsOK, ClimbsSound, RowsOK
    <3>2. ClimbsSound'
      <4>1. /\ others \in [Editors -> EditorState]
            /\ others[e] = EditorDone
            /\ \A f \in Editors \ {e} : others[f] = Crossed(editor[f])
        BY IdleEditorType, CrossedKeeps DEF EditorsOK
      <4>a. {s.node} \in SUBSET (OrgNodes \cup People)
        BY <3>1
      <4>2. \A f \in Editors :
              SameWork(editor'[f], others[f]) /\ editor'[f].crossed = others[f].crossed
        BY <2>2, <4>1, <4>a, AttachedKeeps
      <4>3. \A f \in Editors \ {e} :
              /\ SameWork(editor'[f], editor[f])
              /\ (editor[f].op = "move" /\ editor[f].pc \in {"climb", "write"})
                   => editor'[f].crossed
        <5> TAKE f \in Editors \ {e}
        <5>1. editor[f] \in EditorState
          BY DEF EditorsOK
        <5>2. /\ SameWork(Crossed(editor[f]), editor[f])
              /\ (editor[f].op = "move" /\ editor[f].pc \in {"climb", "write"})
                   => Crossed(editor[f]).crossed
          BY <5>1, CrossedKeeps
        <5> QED
          BY <4>1, <4>2, <5>2 DEF SameWork
      <4>4. editor'[e].op # "move" /\ editor'[e].pc # "climb"
        BY <4>1, <4>2, NotClimbing DEF SameWork
      <4> QED
        BY <2>2, <4>3, <4>4, ClimbsOfOthers
    <3>3. CyclesAreRaced'
      <4>1. /\ parent'[s.node] = s.to
            /\ \A x \in OrgNodes \ {s.node} : parent'[x] = parent[x]
        BY <2>2, <3>1 DEF RowsOK
      <4>2. CASE Unsure(s)
        <5> SUFFICES ASSUME NEW S \in SUBSET OrgNodes, S # {}, \A x \in S : parent'[x] \in S
                     PROVE  S \cap raced' # {}
          BY DEF CyclesAreRaced
        <5>1. CASE s.node \in S
          BY <2>2, <4>2, <5>1
        <5>2. CASE s.node \notin S
          <6>1. \A x \in S : parent[x] \in S
            BY <4>1, <5>2
          <6> QED
            BY <2>2, <4>2, <6>1 DEF CyclesAreRaced
        <5> QED
          BY <5>1, <5>2
      <4>3. CASE s.to = NoNode
        <5> SUFFICES ASSUME NEW S \in SUBSET OrgNodes, S # {}, \A x \in S : parent'[x] \in S
                     PROVE  S \cap raced' # {}
          BY DEF CyclesAreRaced
        <5>1. s.node \notin S
          BY <4>1, <4>3, NoNodeAssumption
        <5>2. \A x \in S : parent[x] \in S
          BY <4>1, <5>1
        <5>3. S \cap raced # {}
          BY <5>2 DEF CyclesAreRaced
        <5> QED
          BY <2>2, <5>1, <5>3
      <4>4. CASE ~Unsure(s) /\ s.to # NoNode
        <5>1. /\ s.node \notin s.seen /\ s.to \in s.seen
              /\ \A x \in s.seen : parent[x] \in s.seen \cup {NoNode}
          BY <3>1, <4>4 DEF Unsure, ClimbSound
        <5>2. s.to \in OrgNodes
          BY <2>2, <4>4 DEF RowsOK
        <5> QED
          BY <2>2, <3>1, <4>4, <5>1, <5>2, NoCycleBySureMove
      <4> QED
        BY <4>2, <4>3, <4>4
    <3> QED
      BY <3>2, <3>3
  <2> QED
    BY <1>11, <2>1, <2>2 DEF WriteParent, TreeUnchanged
<1>12. ASSUME NEW e \in Editors, DeleteNode(e)
       PROVE  ClimbsSound' /\ CyclesAreRaced'
  <2>1. /\ \A x \in OrgNodes : parent'[x] \in {parent[x], NoNode}
        /\ raced' = raced /\ unborn' = unborn /\ EditorBecomes(e, EditorDone)
    BY <1>12 DEF DeleteNode
  <2>2. CyclesAreRaced'
    BY <2>1, NoNodeAssumption, NoCycleByCutting
  <2>3. ClimbsSound'
    <3>1. \A f \in Editors \ {e} : editor'[f] = editor[f]
      BY <2>1 DEF EditorBecomes
    <3>2. \A f \in Editors \ {e} :
            /\ SameWork(editor'[f], editor[f])
            /\ editor'[f].crossed = editor[f].crossed
      BY <3>1 DEF SameWork
    <3>3. \A f \in Editors : \A x \in editor[f].seen : parent'[x] \in {parent[x], NoNode}
      BY <2>1 DEF EditorsOK, EditorState
    <3>4. editor'[e].op # "move" /\ editor'[e].pc # "climb"
      BY <2>1, NotClimbing DEF EditorBecomes, EditorsOK
    <3> QED
      BY <2>1, <3>2, <3>3, <3>4, ClimbsOfOthers
  <2> QED
    BY <2>2, <2>3
<1>13. ASSUME NEW e \in Editors, WriteAccount(e)
       PROVE  ClimbsSound' /\ CyclesAreRaced'
  <2> DEFINE s == editor[e]
             others == [editor EXCEPT ![e] = EditorDone]
  <2>1. TreeUnchanged
    BY <1>13 DEF WriteAccount
  <2>2. CASE EditorBecomes(e, EditorDone)
    BY <1>a, <1>b, <2>1, <2>2
  <2>3. CASE editor' = Attached(others, NoNode, s.grant, s.person)
    <3>1. /\ others \in [Editors -> EditorState]
          /\ others[e] = EditorDone
          /\ \A f \in Editors \ {e} : others[f] = editor[f]
          /\ s.person \in SUBSET (OrgNodes \cup People)
      BY IdleEditorType DEF EditorsOK, EditorState
    <3> HIDE DEF others
    <3>2. \A f \in Editors :
            SameWork(editor'[f], others[f]) /\ editor'[f].crossed = others[f].crossed
      BY <2>3, <3>1, AttachedKeeps
    <3>a. editor'[e].op # "move" /\ editor'[e].pc # "climb"
      BY <3>1, <3>2, NotClimbing DEF SameWork
    <3>3. ClimbsSound'
      BY <2>1, <3>1, <3>2, <3>a, ClimbsOfOthers DEF TreeUnchanged
    <3> QED
      BY <1>a, <2>1, <3>3
  <2> QED
    BY <1>13, <2>2, <2>3 DEF WriteAccount
<1>14. ASSUME NEW e \in Editors, DeleteRole(e)
       PROVE  ClimbsSound' /\ CyclesAreRaced'
  BY <1>14, <1>a, <1>b DEF DeleteRole
<1> QED
  BY <1>1, <1>2, <1>3, <1>4, <1>5, <1>6, <1>7, <1>8, <1>9, <1>10, <1>11, <1>12, <1>13, <1>14
  DEF OrgNext, EditorStep

\* Departments and menus stay trees unless a move was crossed by another one during
\* its climb, or climbed a branch of more than MaxClimb levels.
THEOREM OrgCyclesAreRaced == OrgSpec => []CyclesAreRaced
<1>1. OrgInit => OrgInv
  BY OrgInvInit
<1>2. OrgInv /\ [OrgNext]_orgVars => OrgInv'
  BY OrgInvStep
<1>3. OrgInv => CyclesAreRaced
  BY DEF OrgInv
<1> QED
  BY <1>1, <1>2, <1>3, PTL DEF OrgSpec

-----------------------------------------------------------------------------
(* Removals.                                                               *)

\* A removal that has counted knows every child, or holder, that there is.
RemovalSound(s) ==
    /\ s.op = "remove" => s.node # NoNode
    /\ s.op = "drop" => s.pc # "load"
    /\ (s.op = "remove" /\ s.pc \in {"load", "write"}) =>
          \A c \in OrgNodes : parent[c] = s.node => c \in s.late
    /\ (s.op = "drop" /\ s.pc = "write") =>
          \A p \in People, r \in s.grant : << p, r >> \in held => p \in s.late

RemovalsSound == \A e \in Editors : RemovalSound(editor[e])

LEMMA AttachedTells ==
    ASSUME NEW others \in [Editors -> EditorState], NEW n, NEW rs,
           NEW what \in SUBSET (OrgNodes \cup People), NEW f \in Editors
    PROVE  LET t == Attached(others, n, rs, what)[f] IN
           /\ t.grant = others[f].grant
           /\ others[f].late \subseteq t.late
           /\ (others[f].op = "remove" /\ others[f].pc \in {"load", "write"}
                 /\ others[f].node = n) => what \subseteq t.late
           /\ (others[f].op = "drop" /\ others[f].pc = "write"
                 /\ others[f].grant \cap rs # {}) => what \subseteq t.late
BY DEF Attached, EditorState

\* One request is at a point where it knows nothing, the others know at least what
\* they knew, and all that was attached since.
LEMMA RemovalsStay ==
    ASSUME RemovalsSound, NEW e \in Editors,
           RemovalSound(editor[e])',
           \A f \in Editors \ {e} :
              /\ SameWork(editor'[f], editor[f])
              /\ editor'[f].grant = editor[f].grant
              /\ editor[f].late \subseteq editor'[f].late
              /\ (editor[f].op = "remove" /\ editor[f].pc \in {"load", "write"}) =>
                   \A c \in OrgNodes : parent'[c] = editor[f].node =>
                      parent[c] = editor[f].node \/ c \in editor'[f].late
              /\ (editor[f].op = "drop" /\ editor[f].pc = "write") =>
                   \A p \in People, r \in editor[f].grant : << p, r >> \in held' =>
                      << p, r >> \in held \/ p \in editor'[f].late
    PROVE  RemovalsSound'
<1> SUFFICES ASSUME NEW f \in Editors, f # e PROVE RemovalSound(editor[f])'
  BY DEF RemovalsSound
<1>1. RemovalSound(editor[f])
  BY DEF RemovalsSound
<1>2. /\ SameWork(editor'[f], editor[f])
      /\ editor'[f].grant = editor[f].grant
      /\ editor[f].late \subseteq editor'[f].late
  OBVIOUS
<1> QED
  BY <1>1, <1>2 DEF RemovalSound, SameWork

LEMMA RemovalStep ==
    ASSUME OrgTypeOK, RemovalsSound, [OrgNext]_orgVars
    PROVE  RemovalsSound'
<1> EditorsOK /\ RowsOK
  BY DEF OrgTypeOK
<1>a. ASSUME NEW e \in Editors, NEW t, EditorBecomes(e, t), TreeUnchanged, RolesUnchanged,
             RemovalSound(t)
      PROVE  RemovalsSound'
  <2>1. editor'[e] = t /\ \A f \in Editors \ {e} : editor'[f] = editor[f]
    BY <1>a DEF EditorBecomes, EditorsOK
  <2>2. \A f \in Editors : RemovalSound(editor'[f])
    BY <1>a, <2>1 DEF RemovalsSound
  <2>3. parent' = parent /\ held' = held
    BY <1>a DEF TreeUnchanged, RolesUnchanged
  <2> QED
    BY <2>2, <2>3 DEF RemovalsSound, RemovalSound
<1>b. ASSUME NEW e \in Editors, EditorBecomes(e, EditorDone),
             \A x \in OrgNodes : parent'[x] \in {parent[x], NoNode},
             held' \subseteq held
      PROVE  RemovalsSound'
  <2>1. editor'[e] = EditorDone /\ \A f \in Editors \ {e} : editor'[f] = editor[f]
    BY <1>b DEF EditorBecomes, EditorsOK
  <2>2. \A f \in Editors : RemovalSound(editor'[f])
    BY <2>1 DEF RemovalsSound, RemovalSound, EditorDone, IdleEditor
  <2> QED
    BY <1>b, <2>2 DEF RemovalsSound, RemovalSound
\* Something is attached to n, or to the roles rs; the writer is done.
<1>c. ASSUME NEW e \in Editors, NEW others \in [Editors -> EditorState], NEW n, NEW rs,
             NEW what \in SUBSET (OrgNodes \cup People),
             others[e] = EditorDone,
             \A f \in Editors \ {e} : SameWork(others[f], editor[f])
                  /\ others[f].grant = editor[f].grant /\ others[f].late = editor[f].late,
             editor' = Attached(others, n, rs, what),
             \A c \in OrgNodes : parent'[c] # parent[c] => c \in what /\ parent'[c] = n,
             \A p \in People, r \in OrgRoles :
                << p, r >> \in held' \ held => p \in what /\ r \in rs
      PROVE  RemovalsSound'
  <2>1. \A f \in Editors : SameWork(editor'[f], others[f])
    BY <1>c, AttachedKeeps
  <2>2. \A f \in Editors :
          /\ editor'[f].grant = others[f].grant
          /\ others[f].late \subseteq editor'[f].late
          /\ (others[f].op = "remove" /\ others[f].pc \in {"load", "write"}
                /\ others[f].node = n) => what \subseteq editor'[f].late
          /\ (others[f].op = "drop" /\ others[f].pc = "write"
                /\ others[f].grant \cap rs # {}) => what \subseteq editor'[f].late
    BY <1>c, AttachedTells
  <2>3. editor'[e].op = "none"
    BY <1>c, <2>1 DEF SameWork, EditorDone, IdleEditor
  <2>4. RemovalSound(editor[e])'
    BY <2>3 DEF RemovalSound
  <2>5. ASSUME NEW f \in Editors \ {e}
        PROVE  /\ SameWork(editor'[f], editor[f])
               /\ editor'[f].grant = editor[f].grant
               /\ editor[f].late \subseteq editor'[f].late
               /\ (editor[f].op = "remove" /\ editor[f].pc \in {"load", "write"}) =>
                   \A c \in OrgNodes : parent'[c] = editor[f].node =>
                      parent[c] = editor[f].node \/ c \in editor'[f].late
               /\ (editor[f].op = "drop" /\ editor[f].pc = "write") =>
                   \A p \in People, r \in editor[f].grant : << p, r >> \in held' =>
                      << p, r >> \in held \/ p \in editor'[f].late
    <3>1. SameWork(others[f], editor[f]) /\ SameWork(editor'[f], others[f])
      BY <1>c, <2>1
    <3>2. /\ SameWork(editor'[f], editor[f])
          /\ editor'[f].grant = editor[f].grant
          /\ editor[f].late \subseteq editor'[f].late
      BY <1>c, <2>2, <3>1 DEF SameWork
    <3>3. editor[f].grant \subseteq OrgRoles
      BY DEF EditorsOK, EditorState
    <3> QED
      BY <1>c, <2>2, <3>1, <3>2, <3>3 DEF SameWork
  <2> QED
    BY <2>4, <2>5, RemovalsStay
<1>1. CASE UNCHANGED orgVars
  BY <1>1 DEF orgVars, RemovalsSound, RemovalSound
<1>2. ASSUME NEW e \in Editors, NEW to \in Parents, StartCreate(e, to) PROVE RemovalsSound'
  <2> DEFINE t == [IdleEditor EXCEPT !.op = "create", !.pc = "load", !.to = to]
  <2>1. RemovalSound(t)
    BY DEF RemovalSound, IdleEditor
  <2> QED
    BY <1>2, <1>a, <2>1 DEF StartCreate
<1>9. ASSUME NEW e \in Editors, NEW n \in OrgNodes, NEW to \in Parents, StartMove(e, n, to)
      PROVE  RemovalsSound'
  <2> DEFINE t == [IdleEditor EXCEPT !.op = "move", !.pc = "load", !.node = n, !.to = to]
  <2>1. RemovalSound(t)
    BY DEF RemovalSound, IdleEditor
  <2> QED
    BY <1>9, <1>a, <2>1 DEF StartMove
<1>3. ASSUME NEW e \in Editors, NEW n \in OrgNodes, StartRemove(e, n) PROVE RemovalsSound'
  <2> DEFINE t == [IdleEditor EXCEPT !.op = "remove", !.pc = "count", !.node = n]
  <2>1. RemovalSound(t)
    BY NoNodeAssumption DEF RemovalSound, IdleEditor
  <2> QED
    BY <1>3, <1>a, <2>1 DEF StartRemove
<1>4. ASSUME NEW e \in Editors, NEW p \in People, NEW grant \in SUBSET OrgRoles,
             NEW to \in Parents, StartEdit(e, p, grant, to)
      PROVE  RemovalsSound'
  <2> DEFINE t == [IdleEditor EXCEPT !.op = "edit", !.pc = "load", !.person = {p},
                                     !.grant = grant, !.to = to]
  <2>1. RemovalSound(t)
    BY DEF RemovalSound, IdleEditor
  <2> QED
    BY <1>4, <1>a, <2>1 DEF StartEdit
<1>5. ASSUME NEW e \in Editors, NEW r \in OrgRoles, StartDrop(e, r) PROVE RemovalsSound'
  <2> DEFINE t == [IdleEditor EXCEPT !.op = "drop", !.pc = "find", !.grant = {r}]
  <2>1. RemovalSound(t)
    BY DEF RemovalSound, IdleEditor
  <2> QED
    BY <1>5, <1>a, <2>1 DEF StartDrop
<1>6. ASSUME NEW e \in Editors, EditorBecomes(e, EditorDone), TreeUnchanged, RolesUnchanged
      PROVE  RemovalsSound'
  BY <1>6, <1>b DEF TreeUnchanged, RolesUnchanged
<1>7. ASSUME NEW e \in Editors,
             LoadParent(e) \/ LoadNode(e) \/ Climb(e) \/ LoadAccount(e) \/ EditorFails(e)
      PROVE  RemovalsSound'
  <2>1. TreeUnchanged /\ RolesUnchanged
    BY <1>7 DEF LoadParent, LoadNode, Climb, LoadAccount, EditorFails
  <2>2. CASE EditorBecomes(e, EditorDone)
    BY <1>6, <2>1, <2>2
  <2>3. ASSUME ~EditorBecomes(e, EditorDone)
        PROVE  \E t \in EditorState :
                  EditorBecomes(e, t) /\ t.op \in {"create", "move", "edit"}
    <3> DEFINE s == editor[e]
               w == [s EXCEPT !.pc = "write"]
               c == [s EXCEPT !.pc = "climb", !.at = s.to, !.left = MaxClimb]
    <3>1. s \in EditorState
      BY DEF EditorsOK
    <3>2. w \in EditorState /\ w.op = s.op
      BY <3>1 DEF EditorState
    <3>3. CASE LoadParent(e) \/ LoadAccount(e)
      BY <2>3, <3>2, <3>3 DEF LoadParent, LoadAccount, EditorGoes, At
    <3>4. CASE LoadNode(e)
      <4>1. MaxClimb \in 0 .. MaxClimb
        BY ClimbAssumption
      <4>2. c \in EditorState /\ c.op = s.op
        BY <3>1, <4>1 DEF EditorState
      <4> QED
        BY <2>3, <3>2, <3>4, <4>2 DEF LoadNode, EditorGoes, At
    <3>5. CASE Climb(e)
      <4>1. s.at \in nodes /\ s.op = "move" /\ s.left > 0
        BY <2>3, <3>5 DEF Climb, At, EditorsOK
      <4> DEFINE next == parent[s.at]
                 stage == IF next = NoNode \/ s.left = 1 THEN "write" ELSE "climb"
                 t == [s EXCEPT !.at = next, !.seen = @ \cup {s.at}, !.left = @ - 1,
                                !.pc = stage]
      <4>2. EditorBecomes(e, t)
        BY <2>3, <3>5 DEF Climb
      <4>3. /\ next \in Parents /\ s.at \in OrgNodes /\ s.left - 1 \in 0 .. MaxClimb
            /\ stage \in {"write", "climb"}
        BY <3>1, <4>1, ClimbAssumption DEF RowsOK, Parents, EditorState
      <4>4. t \in EditorState /\ t.op = "move"
        BY <3>1, <4>1, <4>3 DEF EditorState
      <4> QED
        BY <4>2, <4>4
    <3> QED
      BY <1>7, <2>3, <3>3, <3>4, <3>5 DEF EditorFails
  <2>4. CASE ~EditorBecomes(e, EditorDone)
    <3> PICK t \in EditorState : EditorBecomes(e, t) /\ t.op \in {"create", "move", "edit"}
      BY <2>3, <2>4
    <3>1. RemovalSound(t)
      BY DEF RemovalSound
    <3> QED
      BY <1>a, <2>1, <3>1
  <2> QED
    BY <2>2, <2>4
<1>8. ASSUME NEW e \in Editors,
             CountChildren(e) \/ LoadForRemoval(e) \/ LoadRole(e) \/ CountHolders(e)
      PROVE  RemovalsSound'
  <2> DEFINE s == editor[e]
             l == [s EXCEPT !.pc = "load"]
             w == [s EXCEPT !.pc = "write"]
             c == [s EXCEPT !.pc = "count"]
  <2>1. TreeUnchanged /\ RolesUnchanged
    BY <1>8 DEF CountChildren, LoadForRemoval, LoadRole, CountHolders
  <2>2. s \in EditorState /\ RemovalSound(s)
    BY DEF EditorsOK, RemovalsSound
  <2>3. CASE EditorBecomes(e, EditorDone)
    BY <1>6, <2>1, <2>3
  <2>4. CASE CountChildren(e) /\ ~EditorBecomes(e, EditorDone)
    <3>1. RemovalSound(l)
      BY <2>2, <2>4 DEF CountChildren, At, Children, RemovalSound, EditorState
    <3> QED
      BY <1>a, <2>1, <2>4, <3>1 DEF CountChildren, EditorGoes
  <2>5. CASE LoadForRemoval(e) /\ ~EditorBecomes(e, EditorDone)
    <3>1. RemovalSound(w)
      BY <2>2, <2>5 DEF LoadForRemoval, At, RemovalSound, EditorState
    <3> QED
      BY <1>a, <2>1, <2>5, <3>1 DEF LoadForRemoval, EditorGoes
  <2>6. CASE CountHolders(e) /\ ~EditorBecomes(e, EditorDone)
    <3>1. RemovalSound(w)
      BY <2>2, <2>6 DEF CountHolders, At, HoldersOf, RemovalSound, EditorState
    <3> QED
      BY <1>a, <2>1, <2>6, <3>1 DEF CountHolders, EditorGoes
  <2>7. CASE LoadRole(e) /\ ~EditorBecomes(e, EditorDone)
    <3>1. RemovalSound(c)
      BY <2>2, <2>7 DEF LoadRole, At, RemovalSound, EditorState
    <3> QED
      BY <1>a, <2>1, <2>7, <3>1 DEF LoadRole, EditorGoes
  <2> QED
    BY <1>8, <2>3, <2>4, <2>5, <2>6, <2>7
<1>10. ASSUME NEW e \in Editors, NEW n \in unborn, InsertNode(e, n) PROVE RemovalsSound'
  <2> DEFINE d == editor[e].to
             others == [editor EXCEPT ![e] = EditorDone]
  <2>1. held' = held
    BY <1>10 DEF InsertNode, RolesUnchanged
  <2>2. CASE EditorBecomes(e, EditorDone) /\ parent' = parent
    BY <1>b, <2>1, <2>2
  <2>3. CASE parent' = [parent EXCEPT ![n] = d] /\ editor' = Attached(others, d, {}, {n})
    <3>1. /\ others \in [Editors -> EditorState] /\ others[e] = EditorDone
          /\ \A f \in Editors \ {e} : others[f] = editor[f]
      BY IdleEditorType DEF EditorsOK
    <3>2. \A f \in Editors \ {e} : SameWork(others[f], editor[f])
            /\ others[f].grant = editor[f].grant /\ others[f].late = editor[f].late
      BY <3>1 DEF SameWork
    <3>3. \A c \in OrgNodes : parent'[c] # parent[c] => c \in {n} /\ parent'[c] = d
      BY <2>3 DEF RowsOK
    <3>4. {n} \in SUBSET (OrgNodes \cup People)
      BY DEF RowsOK
    <3> HIDE DEF others, d
    <3> QED
      BY <1>c, <2>1, <2>3, <3>1, <3>2, <3>3, <3>4
  <2> QED
    BY <1>10, <2>2, <2>3 DEF InsertNode
<1>11. ASSUME NEW e \in Editors, WriteParent(e) PROVE RemovalsSound'
  <2> DEFINE s == editor[e]
             others == [f \in Editors |-> IF f = e THEN EditorDone ELSE Crossed(editor[f])]
  <2>1. held' = held
    BY <1>11 DEF WriteParent, RolesUnchanged
  <2>2. CASE EditorBecomes(e, EditorDone) /\ parent' = parent
    BY <1>b, <2>1, <2>2
  <2>3. CASE /\ s.node \in nodes
             /\ parent' = [parent EXCEPT ![s.node] = s.to]
             /\ editor' = Attached(others, s.to, {}, {s.node})
    <3>1. /\ others \in [Editors -> EditorState] /\ others[e] = EditorDone
          /\ \A f \in Editors \ {e} : others[f] = Crossed(editor[f])
      BY IdleEditorType, CrossedKeeps DEF EditorsOK
    <3>2. \A f \in Editors \ {e} : SameWork(others[f], editor[f])
            /\ others[f].grant = editor[f].grant /\ others[f].late = editor[f].late
      <4> TAKE f \in Editors \ {e}
      <4>1. editor[f] \in EditorState
        BY DEF EditorsOK
      <4>2. Crossed(editor[f]).grant = editor[f].grant /\ Crossed(editor[f]).late = editor[f].late
        BY <4>1 DEF Crossed, EditorState
      <4> QED
        BY <3>1, <4>1, <4>2, CrossedKeeps
    <3>3. \A c \in OrgNodes : parent'[c] # parent[c] => c \in {s.node} /\ parent'[c] = s.to
      BY <2>3 DEF RowsOK
    <3>4. {s.node} \in SUBSET (OrgNodes \cup People)
      BY <2>3 DEF RowsOK
    <3> HIDE DEF others, s
    <3> QED
      BY <1>c, <2>1, <2>3, <3>1, <3>2, <3>3, <3>4
  <2> QED
    BY <1>11, <2>2, <2>3 DEF WriteParent
<1>12. ASSUME NEW e \in Editors, DeleteNode(e) PROVE RemovalsSound'
  BY <1>12, <1>b DEF DeleteNode
<1>13. ASSUME NEW e \in Editors, DeleteRole(e) PROVE RemovalsSound'
  BY <1>13, <1>b DEF DeleteRole, TreeUnchanged
<1>14. ASSUME NEW e \in Editors, WriteAccount(e) PROVE RemovalsSound'
  <2> DEFINE s == editor[e]
             others == [editor EXCEPT ![e] = EditorDone]
  <2>1. parent' = parent
    BY <1>14 DEF WriteAccount, TreeUnchanged
  <2>2. CASE EditorBecomes(e, EditorDone) /\ held' = held
    BY <1>b, <2>1, <2>2
  <2>3. CASE /\ held' = (held \ (s.person \X OrgRoles)) \cup (s.person \X s.grant)
             /\ editor' = Attached(others, NoNode, s.grant, s.person)
    <3>1. /\ others \in [Editors -> EditorState] /\ others[e] = EditorDone
          /\ \A f \in Editors \ {e} : others[f] = editor[f]
      BY IdleEditorType DEF EditorsOK
    <3>2. \A f \in Editors \ {e} : SameWork(others[f], editor[f])
            /\ others[f].grant = editor[f].grant /\ others[f].late = editor[f].late
      BY <3>1 DEF SameWork
    <3>3. \A p \in People, r \in OrgRoles :
             << p, r >> \in held' \ held => p \in s.person /\ r \in s.grant
      BY <2>3
    <3>4. s.person \in SUBSET (OrgNodes \cup People)
      BY DEF EditorsOK, EditorState
    <3> HIDE DEF others, s
    <3> QED
      BY <1>c, <2>1, <2>3, <3>1, <3>2, <3>3, <3>4
  <2> QED
    BY <1>14, <2>2, <2>3 DEF WriteAccount
<1> QED
  BY <1>1, <1>2, <1>3, <1>4, <1>5, <1>7, <1>8, <1>9, <1>10, <1>11, <1>12, <1>13, <1>14
  DEF OrgNext, EditorStep

RemovalInv == OrgTypeOK /\ RemovalsSound

LEMMA RemovalInvariant == OrgSpec => []RemovalInv
<1>1. OrgInit => RemovalInv
  <2>1. OrgInit => RemovalsSound
    BY DEF OrgInit, RemovalsSound, RemovalSound, IdleEditor
  <2> QED
    BY <2>1, OrgTypeInit DEF RemovalInv
<1>2. RemovalInv /\ [OrgNext]_orgVars => RemovalInv'
  BY OrgTypeStep, RemovalStep DEF RemovalInv
<1> QED
  BY <1>1, <1>2, PTL DEF OrgSpec

\* The removal of a department or a menu orphans only what came after its count.
THEOREM OrgOrphansCameLate == OrgSpec => OrphansCameLate
<1> DEFINE A == \A e \in Editors : DeleteNode(e) => Children(editor[e].node) \subseteq editor[e].late
<1>1. RemovalInv => A
  BY DEF RemovalInv, RemovalsSound, RemovalSound, DeleteNode, At, Children
<1>2. RemovalInv /\ [OrgNext]_orgVars => [A]_orgVars
  BY <1>1
<1> QED
  BY <1>2, RemovalInvariant, PTL DEF OrgSpec, OrphansCameLate

\* The removal of a role strips only those who were given it after its count.
THEOREM OrgStrippedCameLate == OrgSpec => StrippedCameLate
<1> DEFINE A == \A p \in People, r \in OrgRoles :
        (<< p, r >> \in held /\ p \in people' /\ r \notin roles')
            => \E e \in Editors : At(e, "drop", "write") /\ p \in editor[e].late
<1>1. RemovalInv /\ [OrgNext]_orgVars => [A]_orgVars
  <2> SUFFICES ASSUME RemovalInv, OrgNext, NEW p \in People, NEW r \in OrgRoles,
                      << p, r >> \in held, r \notin roles'
               PROVE  \E e \in Editors : At(e, "drop", "write") /\ p \in editor[e].late
    OBVIOUS
  <2>1. r \in roles
    BY DEF RemovalInv, OrgTypeOK, RowsOK
  <2>2. PICK e \in Editors : DeleteRole(e)
    BY <2>1 DEF OrgNext, EditorStep, StartCreate, StartMove, StartRemove, StartEdit, StartDrop,
       LoadParent, InsertNode, LoadNode, Climb, WriteParent, CountChildren, LoadForRemoval,
       DeleteNode, LoadAccount, WriteAccount, LoadRole, CountHolders, EditorFails, RolesUnchanged
  <2>3. r \in editor[e].grant
    BY <2>1, <2>2 DEF DeleteRole
  <2>4. p \in editor[e].late
    BY <2>2, <2>3 DEF RemovalInv, RemovalsSound, RemovalSound, DeleteRole, At
  <2> QED
    BY <2>2, <2>4 DEF DeleteRole
<1> QED
  BY <1>1, RemovalInvariant, PTL DEF OrgSpec, StrippedCameLate
-----------------------------------------------------------------------------
(* Moves one after another.                                                *)

Moving(s) == s.op = "move" /\ s.pc \in {"climb", "write"}

\* No two requests are between the first query of a climb and the write of a move.
MovesInTurn == \A e, f \in Editors : Moving(editor[e]) /\ Moving(editor[f]) => e = f

\* With a node its ancestors.
Closed(A) == \A x \in A : parent[x] \in A \cup {NoNode}

\* What a climb is about to visit it has not visited.
Above(s) == \E A \in SUBSET OrgNodes :
    s.at \in A /\ Closed(A) /\ A \cap s.seen = {} /\ A \cap unborn = {}

TurnSound(s) ==
    /\ s.op = "move" /\ s.pc \in {"load", "climb", "write"} => ~s.crossed
    /\ s.op = "move" /\ s.pc \in {"load", "write"} => s.at = NoNode
    /\ s.pc = "climb" =>
          /\ IsFiniteSet(s.seen) /\ Cardinality(s.seen) + s.left = MaxClimb
          /\ s.at \in unborn => s.seen = {}
          /\ s.seen # {} => Above(s)

MovesSound == \A e \in Editors : TurnSound(editor[e])

TurnInv == OrgInv /\ raced = {} /\ MovesSound

\* In a forest a node is not among the ancestors of its parent.
LEMMA ParentsAbove ==
    ASSUME OrgTypeOK, Acyclic, NEW n \in OrgNodes, parent[n] # NoNode
    PROVE  \E A \in SUBSET OrgNodes :
             parent[n] \in A /\ Closed(A) /\ n \notin A /\ A \cap unborn = {}
<1> USE NoNodeAssumption DEF OrgTypeOK, RowsOK
<1> SUFFICES ASSUME \A A \in SUBSET nodes : Closed(A) /\ parent[n] \in A => n \in A
             PROVE  FALSE
  <2>1. \A A \in SUBSET nodes : A \in SUBSET OrgNodes /\ A \cap unborn = {}
    OBVIOUS
  <2> QED
    BY <2>1
<1> DEFINE S == {x \in nodes : \A A \in SUBSET nodes : Closed(A) /\ x \in A => n \in A}
<1>1. parent[n] \in S
  OBVIOUS
<1>2. ASSUME NEW x \in S PROVE parent[x] \in S
  <2>1. CASE x = n
    BY <1>1, <2>1
  <2>2. CASE x # n
    <3>1. x \in nodes /\ parent[x] \in nodes \cup {NoNode}
      BY <1>2
    <3>2. parent[x] # NoNode
      <4>1. parent[x] = NoNode => Closed({x})
        BY DEF Closed
      <4> QED
        BY <1>2, <2>2, <3>1, <4>1
    <3>3. ASSUME NEW B \in SUBSET nodes, Closed(B), parent[x] \in B PROVE n \in B
      <4> DEFINE C == B \cup {x}
      <4>1. Closed(C) /\ C \in SUBSET nodes /\ x \in C
        BY <3>1, <3>3 DEF Closed
      <4>2. n \in C
        BY <1>2, <4>1
      <4> QED
        BY <2>2, <4>2
    <3> QED
      BY <3>1, <3>2, <3>3
  <2> QED
    BY <2>1, <2>2
<1>3. S \in SUBSET OrgNodes /\ S # {}
  BY <1>1
<1> HIDE DEF S
<1> QED
  BY <1>2, <1>3 DEF Acyclic

\* A step of one request leaves the others where they are.
LEMMA StepOfOne ==
    ASSUME OrgTypeOK, NEW e \in Editors, EditorStep(e), NEW f \in Editors \ {e}
    PROVE  /\ SameWork(editor'[f], editor[f])
           /\ ~Moving(editor[f]) \/ ~WriteParent(e) => editor'[f].crossed = editor[f].crossed
<1> USE DEF OrgTypeOK, EditorsOK
<1>1. ASSUME NEW t, EditorBecomes(e, t) PROVE editor'[f] = editor[f]
  BY <1>1 DEF EditorBecomes
<1>2. CASE \E n \in unborn : InsertNode(e, n)
  <2> PICK n \in unborn : InsertNode(e, n)
    BY <1>2
  <2> DEFINE others == [editor EXCEPT ![e] = EditorDone]
  <2>1. others \in [Editors -> EditorState] /\ others[f] = editor[f]
        /\ {n} \in SUBSET (OrgNodes \cup People)
    BY IdleEditorType DEF RowsOK
  <2>2. CASE editor' = Attached(others, editor[e].to, {}, {n})
    <3> HIDE DEF others
    <3> QED
      BY <2>1, <2>2, AttachedKeeps
  <2> QED
    BY <1>1, <2>2 DEF InsertNode, SameWork
<1>3. CASE WriteParent(e)
  <2> DEFINE s == editor[e]
             others == [g \in Editors |-> IF g = e THEN EditorDone ELSE Crossed(editor[g])]
  <2>1. others \in [Editors -> EditorState] /\ others[f] = Crossed(editor[f])
    BY IdleEditorType, CrossedKeeps
  <2>2. /\ SameWork(Crossed(editor[f]), editor[f])
        /\ ~Moving(editor[f]) => Crossed(editor[f]) = editor[f]
    BY CrossedKeeps DEF Moving, Crossed
  <2>3. CASE /\ editor' = Attached(others, s.to, {}, {s.node})
             /\ s.node \in nodes
    <3> HIDE DEF others
    <3>1. {s.node} \in SUBSET (OrgNodes \cup People)
      BY <2>3 DEF RowsOK
    <3>2. \A g \in Editors :
            SameWork(editor'[g], others[g]) /\ editor'[g].crossed = others[g].crossed
      BY <2>1, <2>3, <3>1, AttachedKeeps
    <3>3. SameWork(editor'[f], others[f]) /\ editor'[f].crossed = others[f].crossed
      BY <3>2
    <3>4. SameWork(editor'[f], editor[f])
      BY <2>1, <2>2, <3>3 DEF SameWork
    <3> QED
      BY <1>3, <2>1, <2>2, <3>3, <3>4
  <2> QED
    BY <1>1, <1>3, <2>3 DEF WriteParent, SameWork
<1>4. CASE WriteAccount(e)
  <2> DEFINE s == editor[e]
             others == [editor EXCEPT ![e] = EditorDone]
  <2>1. others \in [Editors -> EditorState] /\ others[f] = editor[f]
        /\ s.person \in SUBSET (OrgNodes \cup People)
    BY IdleEditorType DEF EditorState
  <2>2. CASE editor' = Attached(others, NoNode, s.grant, s.person)
    <3> HIDE DEF others
    <3> QED
      BY <2>1, <2>2, AttachedKeeps
  <2> QED
    BY <1>1, <1>4, <2>2 DEF WriteAccount, SameWork
<1> QED
  BY <1>1, <1>2, <1>3, <1>4 DEF EditorStep, LoadParent, LoadNode, Climb, CountChildren,
     LoadForRemoval, DeleteNode, LoadAccount, LoadRole, CountHolders, DeleteRole, EditorFails,
     EditorGoes, SameWork

\* The others keep their climbs: under them edges are cut, and leaves are added.
LEMMA TurnsOfOthers ==
    ASSUME OrgTypeOK, NEW f \in Editors, TurnSound(editor[f]),
           SameWork(editor'[f], editor[f]), editor'[f].crossed = editor[f].crossed,
           unborn' \subseteq unborn,
           editor[f].pc = "climb" =>
               \A x \in OrgNodes \ unborn : parent'[x] \in {parent[x], NoNode}
    PROVE  TurnSound(editor[f])'
<1> DEFINE s == editor[f]
<1>1. /\ editor'[f].op = s.op /\ editor'[f].pc = s.pc /\ editor'[f].at = s.at
      /\ editor'[f].seen = s.seen /\ editor'[f].left = s.left
      /\ editor'[f].crossed = s.crossed
  BY DEF SameWork
<1>2. ASSUME s.pc = "climb", s.seen # {} PROVE Above(s)'
  <2>1. PICK A \in SUBSET OrgNodes :
           s.at \in A /\ Closed(A) /\ A \cap s.seen = {} /\ A \cap unborn = {}
    BY <1>2 DEF TurnSound, Above
  <2>2. Closed(A)'
    BY <1>2, <2>1 DEF Closed
  <2> QED
    BY <1>1, <2>1, <2>2 DEF Above
<1> QED
  BY <1>1, <1>2 DEF TurnSound

\* The local state of a request that is about to do something other than climb.
Opens(t) ==
    /\ t.pc # "climb"
    /\ \/ t.op # "move"
       \/ t.pc = "load" /\ ~t.crossed /\ t.at = NoNode

\* One level of a climb in a forest: what is next was not visited, and so there is a
\* root before the levels run out.
LEMMA ClimbInTurn ==
    ASSUME IsFiniteSet(OrgNodes), Cardinality(OrgNodes) <= MaxClimb,
           OrgTypeOK, Acyclic, NEW e \in Editors, TurnSound(editor[e]), Climb(e)
    PROVE  TurnSound(editor[e])'
<1> DEFINE s == editor[e]
           next == parent[s.at]
           stage == IF next = NoNode \/ s.left = 1 THEN "write" ELSE "climb"
           t == [s EXCEPT !.at = next, !.seen = @ \cup {s.at}, !.left = @ - 1, !.pc = stage]
<1> USE NoNodeAssumption, ClimbAssumption
<1>1. /\ s \in EditorState /\ s.op = "move" /\ s.pc = "climb" /\ s.at \in OrgNodes
      /\ s.left \in 1 .. MaxClimb
      /\ ~s.crossed /\ IsFiniteSet(s.seen) /\ Cardinality(s.seen) + s.left = MaxClimb
      /\ s.seen # {} => Above(s)
  BY DEF Climb, At, OrgTypeOK, EditorsOK, EditorState, Parents, TurnSound
<1>2. CASE EditorBecomes(e, EditorDone)
  <2>1. editor'[e].op = "none" /\ editor'[e].pc = "done"
    BY <1>2 DEF EditorBecomes, EditorDone, IdleEditor, OrgTypeOK, EditorsOK
  <2> QED
    BY <2>1 DEF TurnSound
<1>3. CASE s.at \in nodes /\ EditorBecomes(e, t) /\ TreeUnchanged
  <2>1. /\ editor'[e].op = "move" /\ editor'[e].pc = stage /\ editor'[e].at = next
        /\ editor'[e].seen = s.seen \cup {s.at} /\ editor'[e].left = s.left - 1
        /\ editor'[e].crossed = s.crossed
    <3>1. editor'[e] = t
      BY <1>3 DEF EditorBecomes, OrgTypeOK, EditorsOK
    <3> QED
      BY <1>1, <3>1 DEF EditorState
  <2>2. s.at \notin s.seen /\ s.seen \subseteq OrgNodes
    BY <1>1 DEF Above, EditorState
  <2>3. /\ IsFiniteSet(s.seen \cup {s.at})
        /\ Cardinality(s.seen \cup {s.at}) + (s.left - 1) = MaxClimb
    <3>1. Cardinality(s.seen) \in Nat
      BY <1>1, FS_CardinalityType
    <3>2. IsFiniteSet(s.seen \cup {s.at})
          /\ Cardinality(s.seen \cup {s.at}) = Cardinality(s.seen) + 1
      BY <1>1, <2>2, FS_AddElement
    <3> QED
      BY <1>1, <3>1, <3>2
  <2>4. ASSUME next # NoNode
        PROVE  \E A \in SUBSET OrgNodes : /\ next \in A /\ Closed(A) /\ A \cap unborn = {}
                                          /\ A \cap (s.seen \cup {s.at}) = {}
    <3>1. PICK B \in SUBSET OrgNodes :
             next \in B /\ Closed(B) /\ s.at \notin B /\ B \cap unborn = {}
      BY <1>1, <2>4, ParentsAbove
    <3>2. CASE s.seen = {}
      BY <3>1, <3>2
    <3>3. CASE s.seen # {}
      <4>1. PICK A \in SUBSET OrgNodes : s.at \in A /\ Closed(A) /\ A \cap s.seen = {}
        BY <1>1, <3>3 DEF Above
      <4>2. next \in A
        BY <2>4, <4>1 DEF Closed
      <4>3. Closed(A \cap B)
        BY <3>1, <4>1 DEF Closed
      <4> QED
        BY <3>1, <4>1, <4>2, <4>3
    <3> QED
      BY <3>2, <3>3
  <2>5. ASSUME stage = "write" PROVE next = NoNode
    <3> SUFFICES ASSUME next # NoNode PROVE FALSE
      OBVIOUS
    <3>1. PICK A \in SUBSET OrgNodes : next \in A /\ A \cap (s.seen \cup {s.at}) = {}
      BY <2>4
    <3> DEFINE path == s.seen \cup {s.at}
    <3>2. IsFiniteSet(path) /\ next \notin path /\ path \cup {next} \subseteq OrgNodes
      BY <1>1, <2>2, <2>3, <3>1
    <3>3. Cardinality(path) = MaxClimb
      <4>1. s.left = 1
        BY <2>5
      <4>2. Cardinality(path) \in Nat
        BY <3>2, FS_CardinalityType
      <4> QED
        BY <2>3, <4>1, <4>2
    <3> HIDE DEF path
    <3>4. Cardinality(path \cup {next}) = MaxClimb + 1
      BY <3>2, <3>3, FS_AddElement
    <3>5. Cardinality(path \cup {next}) <= Cardinality(OrgNodes)
      BY <3>2, FS_Subset
    <3>6. Cardinality(OrgNodes) \in Nat
      BY FS_CardinalityType
    <3> QED
      BY <3>4, <3>5, <3>6
  <2>6. ASSUME stage = "climb"
        PROVE  Above(editor[e])' /\ editor'[e].at \notin unborn'
    <3>1. next # NoNode
      BY <2>6
    <3>2. PICK A \in SUBSET OrgNodes : /\ next \in A /\ Closed(A) /\ A \cap unborn = {}
                                       /\ A \cap (s.seen \cup {s.at}) = {}
      BY <2>4, <3>1
    <3>3. Closed(A)' /\ unborn' = unborn
      BY <1>3, <3>2 DEF TreeUnchanged, Closed
    <3> HIDE DEF next, stage
    <3> QED
      BY <2>1, <3>2, <3>3 DEF Above
  <2>7. stage \in {"write", "climb"}
    OBVIOUS
  <2> HIDE DEF next, stage
  <2> QED
    BY <1>1, <2>1, <2>3, <2>5, <2>6, <2>7 DEF TurnSound
<1> QED
  BY <1>2, <1>3 DEF Climb

LEMMA TurnInvStep ==
    ASSUME IsFiniteSet(OrgNodes), Cardinality(OrgNodes) <= MaxClimb,
           TurnInv, MovesInTurn, [OrgNext]_orgVars
    PROVE  TurnInv'
<1> USE DEF TurnInv
<1>0. OrgInv'
  BY OrgInvStep
<1>1. OrgTypeOK /\ Acyclic /\ OrgTypeOK'
  BY <1>0 DEF OrgInv, CyclesAreRaced, Acyclic
<1> SUFFICES raced' = {} /\ MovesSound'
  BY <1>0
<1>2. \A e \in Editors : TurnSound(editor[e])
  BY DEF MovesSound
<1>4. CASE UNCHANGED orgVars
  BY <1>4 DEF orgVars, MovesSound, TurnSound, Above, Closed
<1>5. ASSUME NEW e \in Editors, NEW t, EditorBecomes(e, t), TreeUnchanged, Opens(t)
      PROVE  raced' = {} /\ MovesSound'
  <2>1. ASSUME NEW f \in Editors PROVE TurnSound(editor[f])'
    <3>1. CASE f = e
      <4>1. editor'[f] = t
        BY <1>1, <1>5, <3>1 DEF EditorBecomes, OrgTypeOK, EditorsOK
      <4> QED
        BY <1>5, <4>1 DEF TurnSound, Opens
    <3>2. CASE f # e
      <4>1. editor'[f] = editor[f]
        BY <1>5, <3>2 DEF EditorBecomes
      <4> QED
        BY <1>1, <1>2, <1>5, <4>1, TurnsOfOthers DEF SameWork, TreeUnchanged
    <3> QED
      BY <3>1, <3>2
  <2> QED
    BY <1>5, <2>1 DEF MovesSound, TreeUnchanged
<1>6. ASSUME NEW e \in Editors,
             \/ \E to \in Parents : StartCreate(e, to)
             \/ \E n \in OrgNodes, to \in Parents : StartMove(e, n, to)
             \/ \E n \in OrgNodes : StartRemove(e, n)
             \/ \E p \in People, grant \in SUBSET OrgRoles, to \in Parents :
                   StartEdit(e, p, grant, to)
             \/ \E r \in OrgRoles : StartDrop(e, r)
      PROVE  raced' = {} /\ MovesSound'
  <2>1. ASSUME NEW to \in Parents, StartCreate(e, to) PROVE raced' = {} /\ MovesSound'
    <3> DEFINE t == [IdleEditor EXCEPT !.op = "create", !.pc = "load", !.to = to]
    <3>1. Opens(t)
      BY DEF Opens, IdleEditor
    <3>2. EditorBecomes(e, t) /\ TreeUnchanged
      BY <2>1 DEF StartCreate, t
    <3> HIDE DEF t
    <3> QED
      BY <1>5, <3>1, <3>2
  <2>2. ASSUME NEW n \in OrgNodes, NEW to \in Parents, StartMove(e, n, to)
        PROVE  raced' = {} /\ MovesSound'
    <3> DEFINE t == [IdleEditor EXCEPT !.op = "move", !.pc = "load", !.node = n, !.to = to]
    <3>1. Opens(t)
      BY DEF Opens, IdleEditor
    <3>2. EditorBecomes(e, t) /\ TreeUnchanged
      BY <2>2 DEF StartMove, t
    <3> HIDE DEF t
    <3> QED
      BY <1>5, <3>1, <3>2
  <2>3. ASSUME NEW n \in OrgNodes, StartRemove(e, n) PROVE raced' = {} /\ MovesSound'
    <3> DEFINE t == [IdleEditor EXCEPT !.op = "remove", !.pc = "count", !.node = n]
    <3>1. Opens(t)
      BY DEF Opens, IdleEditor
    <3>2. EditorBecomes(e, t) /\ TreeUnchanged
      BY <2>3 DEF StartRemove, t
    <3> HIDE DEF t
    <3> QED
      BY <1>5, <3>1, <3>2
  <2>4. ASSUME NEW p \in People, NEW grant \in SUBSET OrgRoles, NEW to \in Parents,
               StartEdit(e, p, grant, to)
        PROVE  raced' = {} /\ MovesSound'
    <3> DEFINE t == [IdleEditor EXCEPT !.op = "edit", !.pc = "load", !.person = {p},
                                       !.grant = grant, !.to = to]
    <3>1. Opens(t)
      BY DEF Opens, IdleEditor
    <3>2. EditorBecomes(e, t) /\ TreeUnchanged
      BY <2>4 DEF StartEdit, t
    <3> HIDE DEF t
    <3> QED
      BY <1>5, <3>1, <3>2
  <2>5. ASSUME NEW r \in OrgRoles, StartDrop(e, r) PROVE raced' = {} /\ MovesSound'
    <3> DEFINE t == [IdleEditor EXCEPT !.op = "drop", !.pc = "find", !.grant = {r}]
    <3>1. Opens(t)
      BY DEF Opens, IdleEditor
    <3>2. EditorBecomes(e, t) /\ TreeUnchanged
      BY <2>5 DEF StartDrop, t
    <3> HIDE DEF t
    <3> QED
      BY <1>5, <3>1, <3>2
  <2> QED
    BY <1>6, <2>1, <2>2, <2>3, <2>4, <2>5
<1>7. ASSUME NEW e \in Editors, EditorStep(e)
      PROVE  raced' = {} /\ MovesSound'
  <2> DEFINE s == editor[e]
  <2>1. s \in EditorState /\ TurnSound(s)
    BY <1>1, <1>2 DEF OrgTypeOK, EditorsOK
  \* The others.
  <2>2. ASSUME NEW f \in Editors \ {e} PROVE TurnSound(editor[f])'
    <3>1. /\ SameWork(editor'[f], editor[f])
          /\ ~Moving(editor[f]) \/ ~WriteParent(e) => editor'[f].crossed = editor[f].crossed
      BY <1>1, <1>7, StepOfOne
    <3>2. editor[f].pc = "climb" => Moving(editor[f])
      BY <1>1 DEF OrgTypeOK, EditorsOK, Moving
    <3>3. WriteParent(e) => ~Moving(editor[f])
      BY DEF MovesInTurn, Moving, WriteParent, At
    <3>4. unborn' \subseteq unborn
      BY <1>7 DEF EditorStep, LoadParent, InsertNode, LoadNode, Climb, WriteParent, CountChildren,
         LoadForRemoval, DeleteNode, LoadAccount, WriteAccount, LoadRole, CountHolders, DeleteRole,
         EditorFails, TreeUnchanged
    <3>5. ~WriteParent(e) => \A x \in OrgNodes \ unborn : parent'[x] \in {parent[x], NoNode}
      <4>1. CASE \E n \in unborn : InsertNode(e, n)
        BY <1>1, <4>1 DEF InsertNode, OrgTypeOK, RowsOK
      <4>2. CASE DeleteNode(e)
        BY <4>2 DEF DeleteNode
      <4> QED
        BY <1>7, <4>1, <4>2 DEF EditorStep, LoadParent, LoadNode, Climb, CountChildren,
           LoadForRemoval, LoadAccount, WriteAccount, LoadRole, CountHolders, DeleteRole,
           EditorFails, TreeUnchanged
    <3> QED
      BY <1>1, <1>2, <3>1, <3>2, <3>3, <3>4, <3>5, TurnsOfOthers
  \* What it writes it is sure of.
  <2>3. raced' = {}
    <3>1. CASE WriteParent(e)
      <4>1. ~Unsure(s)
        BY <2>1, <3>1 DEF WriteParent, At, Unsure, TurnSound
      <4> QED
        BY <3>1, <4>1 DEF WriteParent
    <3> QED
      BY <1>7, <3>1 DEF EditorStep, LoadParent, InsertNode, LoadNode, Climb, CountChildren,
         LoadForRemoval, DeleteNode, LoadAccount, WriteAccount, LoadRole, CountHolders, DeleteRole,
         EditorFails, TreeUnchanged
  \* Its own state.
  <2>4. TurnSound(editor[e])'
    <3>1. ASSUME editor'[e].op # "move", editor'[e].pc # "climb" PROVE TurnSound(editor[e])'
      BY <3>1 DEF TurnSound
    <3>2. ASSUME EditorBecomes(e, EditorDone) PROVE TurnSound(editor[e])'
      BY <1>1, <3>1, <3>2, NotClimbing DEF EditorBecomes, OrgTypeOK, EditorsOK
    <3>3. ASSUME NEW stage \in {"load", "count", "write"}, EditorGoes(e, stage), s.op # "move"
          PROVE  TurnSound(editor[e])'
      <4>1. editor'[e] = [s EXCEPT !.pc = stage]
        BY <1>1, <3>3 DEF EditorGoes, EditorBecomes, OrgTypeOK, EditorsOK
      <4>2. editor'[e].op = s.op /\ editor'[e].pc = stage
        BY <2>1, <4>1 DEF EditorState
      <4> QED
        BY <3>1, <3>3, <4>2
    <3>4. ASSUME NEW others, NEW n, NEW rs, NEW what \in SUBSET (OrgNodes \cup People),
                 others \in [Editors -> EditorState], others[e] = EditorDone,
                 editor' = Attached(others, n, rs, what)
          PROVE  TurnSound(editor[e])'
      <4>1. SameWork(editor'[e], others[e])
        BY <3>4, AttachedKeeps
      <4> QED
        BY <3>1, <3>4, <4>1, NotClimbing DEF SameWork
    <3>5. CASE LoadNode(e)
      <4>1. ~s.crossed /\ s.at = NoNode /\ s.seen = {} /\ s.op = "move"
        BY <2>1, <3>5 DEF LoadNode, At, TurnSound, OrgInv, ClimbsSound, ClimbSound
      <4>2. CASE EditorGoes(e, "write")
        <5>1. editor'[e] = [s EXCEPT !.pc = "write"]
          BY <1>1, <4>2 DEF EditorGoes, EditorBecomes, OrgTypeOK, EditorsOK
        <5>2. editor'[e].pc = "write" /\ editor'[e].at = NoNode /\ ~editor'[e].crossed
          BY <2>1, <4>1, <5>1 DEF EditorState
        <5> QED
          BY <5>2 DEF TurnSound
      <4>3. CASE EditorBecomes(e, [s EXCEPT !.pc = "climb", !.at = s.to, !.left = MaxClimb])
        <5>1. editor'[e] = [s EXCEPT !.pc = "climb", !.at = s.to, !.left = MaxClimb]
          BY <1>1, <4>3 DEF EditorBecomes, OrgTypeOK, EditorsOK
        <5>2. /\ editor'[e].pc = "climb" /\ editor'[e].left = MaxClimb
              /\ editor'[e].seen = {} /\ ~editor'[e].crossed
          BY <2>1, <4>1, <5>1 DEF EditorState
        <5>3. IsFiniteSet({}) /\ Cardinality({}) + MaxClimb = MaxClimb
          BY FS_EmptySet, ClimbAssumption
        <5> QED
          BY <5>2, <5>3 DEF TurnSound
      <4> QED
        BY <3>2, <3>5, <4>2, <4>3 DEF LoadNode
    <3>6. CASE Climb(e)
      BY <1>1, <2>1, <3>6, ClimbInTurn
    <3>7. CASE \E n \in unborn : InsertNode(e, n)
      <4> PICK n \in unborn : InsertNode(e, n)
        BY <3>7
      <4> DEFINE others == [editor EXCEPT ![e] = EditorDone]
      <4>1. others \in [Editors -> EditorState] /\ others[e] = EditorDone
            /\ {n} \in SUBSET (OrgNodes \cup People)
        BY <1>1, IdleEditorType DEF OrgTypeOK, RowsOK, EditorsOK
      <4> QED
        BY <3>2, <3>4, <4>1 DEF InsertNode
    <3>8. CASE WriteParent(e)
      <4> DEFINE others == [f \in Editors |-> IF f = e THEN EditorDone ELSE Crossed(editor[f])]
      <4>1. others \in [Editors -> EditorState] /\ others[e] = EditorDone
        BY <1>1, IdleEditorType, CrossedKeeps DEF OrgTypeOK, EditorsOK
      <4>2. s.node \in nodes => {s.node} \in SUBSET (OrgNodes \cup People)
        BY <1>1 DEF OrgTypeOK, RowsOK
      <4> QED
        BY <3>2, <3>4, <3>8, <4>1, <4>2 DEF WriteParent
    <3>9. CASE WriteAccount(e)
      <4> DEFINE others == [editor EXCEPT ![e] = EditorDone]
      <4>1. others \in [Editors -> EditorState] /\ others[e] = EditorDone
            /\ s.person \in SUBSET (OrgNodes \cup People)
        BY <1>1, <2>1, IdleEditorType DEF OrgTypeOK, EditorsOK, EditorState
      <4> QED
        BY <3>2, <3>4, <3>9, <4>1 DEF WriteAccount
    <3>10. CASE \/ LoadParent(e) \/ CountChildren(e) \/ LoadForRemoval(e) \/ DeleteNode(e)
                \/ LoadAccount(e) \/ LoadRole(e) \/ CountHolders(e) \/ DeleteRole(e)
                \/ EditorFails(e)
      BY <3>2, <3>3, <3>10 DEF LoadParent, CountChildren, LoadForRemoval, DeleteNode,
         LoadAccount, LoadRole, CountHolders, DeleteRole, EditorFails, At
    <3> QED
      BY <1>7, <3>5, <3>6, <3>7, <3>8, <3>9, <3>10 DEF EditorStep
  <2> QED
    BY <2>2, <2>3, <2>4 DEF MovesSound
<1> QED
  BY <1>4, <1>6, <1>7 DEF OrgNext

\* Departments and menus stay trees while moves come one after another and a climb has as
\* many levels as there may be nodes, whatever is created and removed meanwhile: the
\* promise of controllers/departments.rs:190 without its two exceptions.
THEOREM OrgTreeWithoutRaces ==
    ASSUME IsFiniteSet(OrgNodes), Cardinality(OrgNodes) <= MaxClimb
    PROVE  OrgSpec /\ []MovesInTurn => []Acyclic
<1>1. OrgInit => TurnInv
  <2> SUFFICES ASSUME OrgInit PROVE TurnInv
    OBVIOUS
  <2>1. MovesSound
    BY DEF OrgInit, MovesSound, TurnSound, IdleEditor
  <2> QED
    BY <2>1, OrgInvInit DEF TurnInv, OrgInit
<1>2. TurnInv /\ MovesInTurn /\ [OrgNext]_orgVars => TurnInv'
  BY TurnInvStep
<1>3. TurnInv => Acyclic
  BY DEF TurnInv, OrgInv, CyclesAreRaced, Acyclic
<1> QED
  BY <1>1, <1>2, <1>3, PTL DEF OrgSpec
=============================================================================
