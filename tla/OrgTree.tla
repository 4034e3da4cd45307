------------------------------- MODULE OrgTree -------------------------------
(***************************************************************************)
(* The trees of the back office (departments and menus: the two have the   *)
(* same code) and what a removal takes with it.  A move is allowed by a    *)
(* climb from the new parent to the root, one query per level, and written *)
(* by a statement after it; a removal is allowed by a count of children,   *)
(* or of holders when a role is removed.  No transaction spans the two.    *)
(*                                                                         *)
(* Postgres does the rest through the foreign keys of the schema: a row    *)
(* cannot refer to one that is gone, the children of a removed node become *)
(* roots, and the accounts of a removed department are deleted with it.    *)
(***************************************************************************)
EXTENDS Integers, FiniteSets

CONSTANTS
    OrgNodes,    \* departments (or menus), each created at most once
    NoNode,      \* a parent_id or department_id that is NULL
    OrgRoles,    \* roles
    People,      \* accounts
    Editors,     \* requests that are being served
    MaxClimb     \* levels the cycle check climbs (100 in the code)

ASSUME NoNodeAssumption == NoNode \notin OrgNodes
ASSUME ClimbAssumption == MaxClimb \in Nat \ {0}

VARIABLES
    nodes,     \* ids of the rows of departments
    parent,    \* parent_id of each row
    unborn,    \* ids that no insert has used yet
    people,    \* rows of users
    home,      \* users.department_id
    roles,     \* rows of roles
    held,      \* rows of users_roles
    editor,    \* local state of each request
    raced      \* history: nodes whose parent was written after a climb that another
               \* move crossed, or that stopped before the root

orgVars == << nodes, parent, unborn, people, home, roles, held, editor, raced >>

-----------------------------------------------------------------------------

Parents == OrgNodes \cup {NoNode}

\* at: the node the climb is at; seen: the nodes it was at; late: what was attached
\* (children, or accounts to a role) since the count of this removal.
EditorState ==
    [ op : {"none", "create", "move", "remove", "edit", "drop"},
      pc : {"idle", "find", "load", "climb", "count", "write", "done"},
      node : Parents, to : Parents, at : Parents, seen : SUBSET OrgNodes,
      left : 0 .. MaxClimb, crossed : BOOLEAN, person : SUBSET People,
      grant : SUBSET OrgRoles, late : SUBSET (OrgNodes \cup People) ]

IdleEditor ==
    [ op |-> "none", pc |-> "idle", node |-> NoNode, to |-> NoNode, at |-> NoNode,
      seen |-> {}, left |-> 0, crossed |-> FALSE, person |-> {}, grant |-> {},
      late |-> {} ]

RowsOK ==
    /\ nodes \subseteq OrgNodes
    /\ parent \in [OrgNodes -> nodes \cup {NoNode}]
    /\ unborn \subseteq OrgNodes \ nodes
    /\ people \subseteq People
    /\ home \in [People -> nodes \cup {NoNode}]
    /\ roles \subseteq OrgRoles
    /\ held \subseteq people \X roles
    /\ raced \subseteq OrgNodes

EditorsOK ==
    /\ editor \in [Editors -> EditorState]
    /\ \A e \in Editors : editor[e].pc = "climb" =>
          editor[e].op = "move" /\ editor[e].at # NoNode /\ editor[e].left > 0

OrgTypeOK == RowsOK /\ EditorsOK

Children(n) == {c \in OrgNodes : parent[c] = n}
Staff(n) == {p \in people : home[p] = n}
HoldersOf(r) == {p \in People : << p, r >> \in held}

\* No set of nodes only points at itself: from every row one comes to a root.
Acyclic == \A S \in SUBSET OrgNodes : (\A n \in S : parent[n] \in S) => S = {}

\* Any forest; ids are in use, used up, or not used yet.
OrgInit ==
    /\ unborn \in SUBSET OrgNodes
    /\ nodes \in SUBSET (OrgNodes \ unborn)
    /\ parent \in [OrgNodes -> nodes \cup {NoNode}]
    /\ \A n \in OrgNodes \ nodes : parent[n] = NoNode
    /\ Acyclic
    /\ people \in SUBSET People
    /\ home \in [People -> nodes \cup {NoNode}]
    /\ roles \in SUBSET OrgRoles
    /\ held \in SUBSET (people \X roles)
    /\ editor = [e \in Editors |-> IdleEditor]
    /\ raced = {}

-----------------------------------------------------------------------------
(* Requests.                                                               *)

At(e, op, stage) == editor[e].op = op /\ editor[e].pc = stage
EditorBecomes(e, state) == editor' = [editor EXCEPT ![e] = state]
EditorGoes(e, stage) == EditorBecomes(e, [editor[e] EXCEPT !.pc = stage])

\* What was loaded and decided is dropped with the request.
EditorDone == [IdleEditor EXCEPT !.pc = "done"]
TreeUnchanged == UNCHANGED << nodes, parent, unborn, raced >>
RolesUnchanged == UNCHANGED << people, home, roles, held >>

\* Removals under way of a node (or of a role) learn that something was attached.
Attached(others, n, rs, what) ==
    [e \in Editors |->
        IF /\ others[e].pc \in {"load", "write"}
           /\ \/ others[e].op = "remove" /\ others[e].node = n
              \/ others[e].op = "drop" /\ others[e].grant \cap rs # {}
        THEN [others[e] EXCEPT !.late = @ \cup what]
        ELSE others[e]]

\* No request is made once the ids of the instance are used up.
StartCreate(e, to) ==
    /\ editor[e].pc = "idle"
    /\ unborn # {}
    /\ EditorBecomes(e, [IdleEditor EXCEPT !.op = "create", !.pc = "load", !.to = to])
    /\ TreeUnchanged /\ RolesUnchanged

StartMove(e, n, to) ==
    /\ editor[e].pc = "idle"
    /\ n \in nodes
    /\ EditorBecomes(e, [IdleEditor EXCEPT !.op = "move", !.pc = "load", !.node = n, !.to = to])
    /\ TreeUnchanged /\ RolesUnchanged

StartRemove(e, n) ==
    /\ editor[e].pc = "idle"
    /\ n \in nodes
    /\ EditorBecomes(e, [IdleEditor EXCEPT !.op = "remove", !.pc = "count", !.node = n])
    /\ TreeUnchanged /\ RolesUnchanged

\* users::update with role_ids, and with a department unless "to" is NoNode.
StartEdit(e, p, grant, to) ==
    /\ editor[e].pc = "idle"
    /\ p \in people
    /\ EditorBecomes(e, [IdleEditor EXCEPT !.op = "edit", !.pc = "load", !.person = {p},
                                           !.grant = grant, !.to = to])
    /\ TreeUnchanged /\ RolesUnchanged

StartDrop(e, r) ==
    /\ editor[e].pc = "idle"
    /\ r \in roles
    /\ EditorBecomes(e, [IdleEditor EXCEPT !.op = "drop", !.pc = "find", !.grant = {r}])
    /\ TreeUnchanged /\ RolesUnchanged

-----------------------------------------------------------------------------
(* Creating and moving a node.                                             *)

\* create: the parent must be there; the insert follows.
LoadParent(e) ==
    /\ At(e, "create", "load")
    /\ IF editor[e].to \in nodes \cup {NoNode}
       THEN EditorGoes(e, "write") ELSE EditorBecomes(e, EditorDone)
    /\ TreeUnchanged /\ RolesUnchanged

\* The id comes from a sequence, and is gone even if the insert fails.
InsertNode(e, n) ==
    LET d == editor[e].to IN
    /\ At(e, "create", "write")
    /\ n \in unborn
    /\ unborn' = unborn \ {n}
    /\ \/ /\ d \in nodes \cup {NoNode}
          /\ nodes' = nodes \cup {n}
          /\ parent' = [parent EXCEPT ![n] = d]
          /\ editor' = Attached([editor EXCEPT ![e] = EditorDone], d, {}, {n})
       \/ /\ d \notin nodes \cup {NoNode}            \* foreign key
          /\ UNCHANGED << nodes, parent >>
          /\ EditorBecomes(e, EditorDone)
    /\ UNCHANGED raced
    /\ RolesUnchanged

\* update: the row is loaded; without a new parent there is nothing to check.
LoadNode(e) ==
    /\ At(e, "move", "load")
    /\ IF editor[e].node \notin nodes THEN EditorBecomes(e, EditorDone)
       ELSE IF editor[e].to = NoNode THEN EditorGoes(e, "write")
       ELSE EditorBecomes(e, [editor[e] EXCEPT !.pc = "climb", !.at = editor[e].to,
                                               !.left = MaxClimb])
    /\ TreeUnchanged /\ RolesUnchanged

\* Mutant: the descendants are forgotten.
FormsCycle_SelfOnly(e, next) == editor[e].node = editor[e].to

\* would_create_cycle: TRUE for the node itself or one of its descendants.
FormsCycle(e, next) == editor[e].node \in {editor[e].to, next}

\* One round of its loop: a query for the row the climb is at.
Climb(e) ==
    LET s == editor[e]  next == parent[s.at] IN
    /\ At(e, "move", "climb")
    /\ IF s.at \notin nodes \/ FormsCycle(e, next) THEN EditorBecomes(e, EditorDone)
       ELSE EditorBecomes(e, [s EXCEPT !.at = next, !.seen = @ \cup {s.at}, !.left = @ - 1,
                                       !.pc = IF next = NoNode \/ s.left = 1 THEN "write"
                                              ELSE "climb"])
    /\ TreeUnchanged /\ RolesUnchanged

\* Another move is written while this one climbs, or before it is written.
Crossed(s) ==
    IF s.op = "move" /\ s.pc \in {"climb", "write"} THEN [s EXCEPT !.crossed = TRUE] ELSE s

\* The climb is over and cannot vouch for the move.
Unsure(s) == s.to # NoNode /\ (s.crossed \/ s.at # NoNode)

WriteParent(e) ==
    LET s == editor[e] IN
    /\ At(e, "move", "write")
    /\ \/ /\ s.node \in nodes
          /\ s.to \in nodes \cup {NoNode}
          /\ parent' = [parent EXCEPT ![s.node] = s.to]
          /\ raced' = IF Unsure(s) THEN raced \cup {s.node} ELSE raced \ {s.node}
          /\ editor' = Attached([f \in Editors |-> IF f = e THEN EditorDone
                                                   ELSE Crossed(editor[f])],
                                s.to, {}, {s.node})
       \/ /\ s.node \notin nodes \/ s.to \notin nodes \cup {NoNode}
          /\ EditorBecomes(e, EditorDone)
          /\ UNCHANGED << parent, raced >>
    /\ UNCHANGED << nodes, unborn >>
    /\ RolesUnchanged

-----------------------------------------------------------------------------
(* Removing a node.                                                        *)

\* Mutant: no count.
CountChildren_Skipped(e) ==
    /\ At(e, "remove", "count")
    /\ EditorGoes(e, "load")
    /\ TreeUnchanged /\ RolesUnchanged

CountChildren(e) ==
    /\ At(e, "remove", "count")
    /\ IF Children(editor[e].node) = {} THEN EditorGoes(e, "load")
       ELSE EditorBecomes(e, EditorDone)
    /\ TreeUnchanged /\ RolesUnchanged

LoadForRemoval(e) ==
    /\ At(e, "remove", "load")
    /\ IF editor[e].node \in nodes THEN EditorGoes(e, "write")
       ELSE EditorBecomes(e, EditorDone)
    /\ TreeUnchanged /\ RolesUnchanged

\* Mutant: no ON DELETE SET NULL for the children.
DeleteNode_KeepsChildren(e) ==
    LET n == editor[e].node  gone == Staff(n) IN
    /\ At(e, "remove", "write")
    /\ nodes' = nodes \ {n}
    /\ people' = people \ gone
    /\ home' = [p \in People |-> IF home[p] = n THEN NoNode ELSE home[p]]
    /\ held' = held \ (gone \X OrgRoles)
    /\ EditorBecomes(e, EditorDone)
    /\ UNCHANGED << parent, unborn, roles, raced >>

\* DELETE, and what the foreign keys make of it.
DeleteNode(e) ==
    LET n == editor[e].node  gone == Staff(n) IN
    /\ At(e, "remove", "write")
    /\ nodes' = nodes \ {n}
    /\ parent' = [c \in OrgNodes |-> IF n \in {c, parent[c]} THEN NoNode ELSE parent[c]]
    /\ people' = people \ gone
    /\ home' = [p \in People |-> IF home[p] = n THEN NoNode ELSE home[p]]
    /\ held' = held \ (gone \X OrgRoles)
    /\ EditorBecomes(e, EditorDone)
    /\ UNCHANGED << unborn, roles, raced >>

-----------------------------------------------------------------------------
(* Roles: assignment to an account, and removal.                           *)

\* update: the account is loaded, then validate_tenant_ids, a query for each kind of
\* reference.  One step stands for them: what they find can only vanish before the
\* write, and the write's foreign keys look for all of it again.
LoadAccount(e) ==
    /\ At(e, "edit", "load")
    /\ IF editor[e].person \subseteq people /\ editor[e].grant \subseteq roles
          /\ editor[e].to \in nodes \cup {NoNode}
       THEN EditorGoes(e, "write") ELSE EditorBecomes(e, EditorDone)
    /\ TreeUnchanged /\ RolesUnchanged

\* update_with_relations: one transaction, whose references must still be there.
WriteAccount(e) ==
    LET s == editor[e] IN
    /\ At(e, "edit", "write")
    /\ \/ /\ s.person \subseteq people
          /\ s.grant \subseteq roles
          /\ s.to \in nodes \cup {NoNode}
          /\ held' = (held \ (s.person \X OrgRoles)) \cup (s.person \X s.grant)
          /\ home' = IF s.to = NoNode THEN home
                     ELSE [p \in People |-> IF p \in s.person THEN s.to ELSE home[p]]
          /\ editor' = Attached([editor EXCEPT ![e] = EditorDone], NoNode, s.grant, s.person)
       \/ /\ ~(/\ s.person \subseteq people
               /\ s.grant \subseteq roles
               /\ s.to \in nodes \cup {NoNode})
          /\ EditorBecomes(e, EditorDone)
          /\ UNCHANGED << home, held >>
    /\ UNCHANGED << people, roles >>
    /\ TreeUnchanged

\* roles::remove: the row is loaded.
LoadRole(e) ==
    /\ At(e, "drop", "find")
    /\ IF editor[e].grant \subseteq roles THEN EditorGoes(e, "count")
       ELSE EditorBecomes(e, EditorDone)
    /\ TreeUnchanged /\ RolesUnchanged

\* Mutant: no count.
CountHolders_Skipped(e) ==
    /\ At(e, "drop", "count")
    /\ EditorGoes(e, "write")
    /\ TreeUnchanged /\ RolesUnchanged

\* Its holders are counted.
CountHolders(e) ==
    /\ At(e, "drop", "count")
    /\ IF \A r \in editor[e].grant : HoldersOf(r) = {}
       THEN EditorGoes(e, "write") ELSE EditorBecomes(e, EditorDone)
    /\ TreeUnchanged /\ RolesUnchanged

DeleteRole(e) ==
    /\ At(e, "drop", "write")
    /\ roles' = roles \ editor[e].grant
    /\ held' = held \ (People \X editor[e].grant)
    /\ EditorBecomes(e, EditorDone)
    /\ UNCHANGED << people, home >>
    /\ TreeUnchanged

\* A query fails, the connection is dropped or the process stops.
EditorFails(e) ==
    /\ editor[e].pc \notin {"idle", "done"}
    /\ EditorBecomes(e, EditorDone)
    /\ TreeUnchanged /\ RolesUnchanged

EditorStep(e) ==
    \/ LoadParent(e) \/ (\E n \in unborn : InsertNode(e, n))
    \/ LoadNode(e) \/ Climb(e) \/ WriteParent(e)
    \/ CountChildren(e) \/ LoadForRemoval(e) \/ DeleteNode(e)
    \/ LoadAccount(e) \/ WriteAccount(e)
    \/ LoadRole(e) \/ CountHolders(e) \/ DeleteRole(e)
    \/ EditorFails(e)

OrgNext ==
    \E e \in Editors :
        \/ \E to \in Parents : StartCreate(e, to)
        \/ \E n \in OrgNodes, to \in Parents : StartMove(e, n, to)
        \/ \E n \in OrgNodes : StartRemove(e, n)
        \/ \E p \in People, grant \in SUBSET OrgRoles, to \in Parents : StartEdit(e, p, grant, to)
        \/ \E r \in OrgRoles : StartDrop(e, r)
        \/ EditorStep(e)

OrgSpec == OrgInit /\ [][OrgNext]_orgVars

-----------------------------------------------------------------------------
(* Properties.                                                             *)

\* The code promises a tree (controllers/departments.rs:190, menus.rs:126).  Whatever
\* moves, insertions and removals interleave, every set of nodes that only point at
\* each other has a node whose parent was written after a check that could not know:
\* another move crossed its climb, or it gave up at its last level.
CyclesAreRaced ==
    \A S \in SUBSET OrgNodes :
        (S # {} /\ \A n \in S : parent[n] \in S) => S \cap raced # {}

\* "avoid orphans" (controllers/departments.rs:222, menus.rs:172): the removal of a node
\* cuts off only children that were attached to it after it was counted as childless.
OrphansCameLate ==
    [][\A e \in Editors :
        DeleteNode(e) => Children(editor[e].node) \subseteq editor[e].late]_orgVars

\* "the FK cascade would silently strip permissions" (controllers/roles.rs:190): an account
\* that stays loses a role to the removal of the role only if the role was given to it
\* after the holders were counted.
StrippedCameLate ==
    [][\A p \in People, r \in OrgRoles :
        (<< p, r >> \in held /\ p \in people' /\ r \notin roles')
            => \E e \in Editors : At(e, "drop", "write") /\ p \in editor[e].late]_orgVars
=============================================================================
