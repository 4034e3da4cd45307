------------------------ MODULE SessionGuard_proofs -------------------------
(***************************************************************************)
(* Theorems about SessionGuard, for every set of users and requests, every *)
(* token lifetime and every revocation TTL longer than it.                 *)
(***************************************************************************)
EXTENDS SessionGuard, TLAPS

(***************************************************************************)
(* Type correctness, one step per group of actions.                        *)
(***************************************************************************)
LEMMA LaterType ==
    ASSUME NEW a \in Nat, NEW b \in Nat
    PROVE  /\ Later(a, b) \in Nat
           /\ a <= Later(a, b)
           /\ b <= Later(a, b)
           /\ Later(a, b) \in {a, b}
BY DEF Later

LEMMA FreshType ==
    /\ Fresh \in RequestState
    /\ Done \in RequestState
    /\ NoLogin \in LoginState
    /\ LoginDone \in LoginState
BY DEF Fresh, Done, RequestState, NoLogin, LoginDone, LoginState, Stages, Operations

LEMMA BecomesType ==
    ASSUME TypeOK, NEW r \in Requests, NEW s \in RequestState, Becomes(r, s)
    PROVE  request' \in [Requests -> RequestState]
BY DEF TypeOK, Becomes

\* Every variable keeps its type in every reachable state.
THEOREM TypeCorrect == Spec => []TypeOK
<1>1. Init => TypeOK
  BY FreshType DEF Init, TypeOK, NoMarker, NoLogin
<1>2. TypeOK /\ [Next]_vars => TypeOK'
  <2> SUFFICES ASSUME TypeOK, [Next]_vars PROVE TypeOK'
    OBVIOUS
  <2> USE FreshType DEF TypeOK, store, history
  <2>1. CASE Tick
    BY <2>1 DEF Tick
  <2>2. CASE EnableTenant
    BY <2>2 DEF EnableTenant
  <2>3. ASSUME NEW l \in Logins, LoginNext(l) PROVE TypeOK'
    <3>1. CASE LoginCheckTenant(l)
      BY <3>1 DEF LoginCheckTenant, LoginState
    <3>2. ASSUME NEW u \in Users, LoginVerify(l, u) PROVE TypeOK'
      <4> DEFINE s == [login[l] EXCEPT !.pc = "verified", !.user = u]
      <4>1. s \in LoginState /\ s.user \in Users
        BY DEF LoginState
      <4>2. login' = [login EXCEPT ![l] = s]
        BY <3>2 DEF LoginVerify
      <4> HIDE DEF s
      <4> QED BY <4>1, <4>2, <3>2 DEF LoginVerify
    <3>3. CASE LoginLoad(l)
      <4> DEFINE s == [login[l] EXCEPT !.pc = "loaded", !.seen = changes]
      <4>1. s \in LoginState /\ s.user \in Users
        BY <3>3 DEF LoginState, LoginLoad
      <4>2. login' = [login EXCEPT ![l] = s]
        BY <3>3 DEF LoginLoad
      <4> HIDE DEF s
      <4> QED BY <4>1, <4>2, <3>3 DEF LoginLoad
    <3>4. CASE LoginSign(l)
      <4>1. tokens' \subseteq Token
        BY <3>4 DEF LoginSign, LoginState, Token
      <4>2. login' \in [Logins -> LoginState] /\ login'[l].pc = "done"
        BY <3>4 DEF LoginSign, LoginDone
      <4> QED BY <4>1, <4>2, <3>4 DEF LoginSign
    <3>5. CASE LoginGivesUp(l)
      BY <3>5 DEF LoginGivesUp, LoginDone
    <3> QED BY <2>3, <3>1, <3>2, <3>3, <3>4, <3>5 DEF LoginNext
  <2>4. ASSUME NEW r \in Requests, NEW u \in Users, UserRequest(r, u) PROVE TypeOK'
    <3>1. changes' \in Nat /\ (StartRevoking(r, u, 0) \/ StartRevoking(r, u, changes'))
      BY <2>4 DEF Commit, UserRequest, Logout, ForceLogout, ResetPassword, ChangePassword,
                  UpdateUser, RemoveUser
    <3>2. \A c \in Nat : [Fresh EXCEPT !.pc = "revoking", !.op = "revoke",
                                       !.todo = {u}, !.holders = {u}, !.target = c] \in RequestState
      BY DEF Fresh, RequestState, Stages, Operations
    <3>3. request' \in [Requests -> RequestState]
      BY <3>1, <3>2, BecomesType DEF StartRevoking
    <3> QED
      BY <2>4, <3>3 DEF Commit, UserRequest, Logout, ForceLogout, ResetPassword, ChangePassword,
                        UpdateUser, RemoveUser
  <2>5. ASSUME NEW r \in Requests, GrantRequest(r) PROVE TypeOK'
    <3> USE BecomesType
    <3>0. request[r] \in RequestState
      OBVIOUS
    <3>1. CASE UpdateRole(r)
      <4>1. changes' \in Nat
        BY <3>1 DEF Commit, UpdateRole
      <4>2. \A c \in Nat, next \in {"menus", "lookup"} :
               [Fresh EXCEPT !.pc = next, !.op = "role", !.target = c] \in RequestState
        BY DEF Fresh, RequestState, Stages, Operations
      <4>3. PICK next \in {"menus", "lookup"} :
               Becomes(r, [Fresh EXCEPT !.pc = next, !.op = "role", !.target = changes'])
        BY <3>1 DEF Commit, UpdateRole
      <4> QED BY <3>1, <4>1, <4>2, <4>3 DEF Commit, UpdateRole
    <3>2. CASE SetMenus(r)
      <4>1. changes' \in Nat
        BY <3>2 DEF Commit, SetMenus
      <4>2. \A c \in Nat :
               [request[r] EXCEPT !.pc = "lookup", !.target = c] \in RequestState
        BY <3>0 DEF RequestState, Stages
      <4> QED BY <3>2, <4>1, <4>2 DEF Commit, SetMenus
    <3>3. CASE LookupRole(r)
      <4>1. \A found \in {members, {}}, next \in {"revoking", "users"} :
               [request[r] EXCEPT !.pc = next, !.todo = found,
                                  !.holders = members] \in RequestState
        BY <3>0 DEF RequestState, Stages
      <4> QED BY <3>3, <4>1 DEF LookupRole
    <3>4. CASE UpdateMenu(r)
      <4>1. changes' \in Nat
        BY <3>4 DEF Commit, UpdateMenu
      <4>2. \A c \in Nat :
               [Fresh EXCEPT !.pc = "lookup", !.op = "menu", !.target = c] \in RequestState
        BY DEF Fresh, RequestState, Stages, Operations
      <4> QED BY <3>4, <4>1, <4>2 DEF Commit, UpdateMenu
    <3>5. CASE RemoveMenu(r)
      <4>1. [Fresh EXCEPT !.pc = "lookup", !.op = "menuRemove"] \in RequestState
        BY DEF Fresh, RequestState, Stages, Operations
      <4> QED BY <3>5, <4>1 DEF RemoveMenu
    <3>6. CASE LookupMenu(r)
      <4>1. [request[r] EXCEPT !.pc = "users", !.todo = members, !.holders = members] \in RequestState
        BY <3>0 DEF RequestState, Stages
      <4> QED BY <3>6, <4>1 DEF LookupMenu
    <3>8. CASE LookupUsers(r)
      <4>1. \A found \in {request[r].todo \cap accounts, {}} :
               [request[r] EXCEPT !.pc = "revoking", !.todo = found,
                                  !.holders = @ \cap accounts] \in RequestState
        BY <3>0 DEF RequestState, Stages
      <4> QED BY <3>8, <4>1 DEF LookupUsers
    <3>7. CASE DeleteMenu(r)
      BY <3>7 DEF Commit, DeleteMenu
    <3> QED BY <2>5, <3>1, <3>2, <3>3, <3>4, <3>5, <3>6, <3>7, <3>8 DEF GrantRequest
  <2>6. ASSUME NEW r \in Requests, TenantRequest(r) PROVE TypeOK'
    <3> USE BecomesType
    <3>1. CASE DisableTenant(r)
      <4>1. /\ [Fresh EXCEPT !.pc = "lookup", !.op = "disable", !.since = clock]
                  \in RequestState
            /\ [Fresh EXCEPT !.pc = "revoking", !.op = "disable"] \in RequestState
        BY DEF Fresh, RequestState, Stages, Operations
      <4> QED BY <3>1, <4>1 DEF DisableTenant
    <3>2. CASE DeleteTenant(r)
      <4>1. [Fresh EXCEPT !.pc = "lookup", !.op = "delete", !.since = clock]
               \in RequestState
        BY DEF Fresh, RequestState, Stages, Operations
      <4> QED BY <3>2, <4>1 DEF DeleteTenant
    <3>3. CASE LookupTenant(r)
      <4>1. [request[r] EXCEPT !.pc = "revoking", !.todo = accounts] \in RequestState
        <5>1. request[r] \in RequestState
          OBVIOUS
        <5> QED BY <5>1 DEF RequestState, Stages
      <4> QED BY <3>3, <4>1 DEF LookupTenant
    <3>4. CASE PersistDisabled(r)
      BY <3>4 DEF PersistDisabled
    <3>5. CASE PersistDeleted(r)
      BY <3>5 DEF PersistDeleted
    <3> QED BY <2>6, <3>1, <3>2, <3>3, <3>4, <3>5 DEF TenantRequest
  <2>7. ASSUME NEW r \in Requests, Revocation(r) PROVE TypeOK'
    <3> USE BecomesType
    <3>0. request[r] \in RequestState
      OBVIOUS
    <3>1. ASSUME NEW u \in Users, RevokeStamp(r, u) PROVE TypeOK'
      <4>1. [request[r] EXCEPT !.pc = "stamped", !.user = u, !.now = clock]
               \in RequestState
        BY <3>0 DEF RequestState, Stages
      <4> QED BY <3>1, <4>1 DEF RevokeStamp
    <3>2. CASE RevokeStore(r)
      <4> DEFINE u == request[r].user
      <4>1. [request[r] EXCEPT !.pc = "revoking", !.user = NoUser, !.now = 0,
                               !.todo = @ \ {u}] \in RequestState
        BY <3>0 DEF RequestState, Stages
      <4>2. marker' \in [Users -> [at : Nat, exp : Nat]]
        <5> DEFINE m == [at |-> request[r].now, exp |-> clock + RevocationTTL]
        <5>1. m \in [at : Nat, exp : Nat]
          BY <3>0, TimesAssumption DEF RequestState
        <5>2. marker' = [marker EXCEPT ![u] = m]
          BY <3>2 DEF RevokeStore
        <5> HIDE DEF m
        <5> QED BY <5>1, <5>2
      <4>3. revokedAt' \in [Users -> Nat] /\ settled' \in [Users -> Nat]
        BY <3>0, <3>2, LaterType DEF RevokeStore, RequestState
      <4> QED BY <4>1, <4>2, <4>3, <3>2 DEF RevokeStore
    <3>3. CASE Respond(r)
      BY <3>3 DEF Respond
    <3>4. CASE Abort(r)
      BY <3>4 DEF Abort
    <3> QED BY <2>7, <3>1, <3>2, <3>3, <3>4 DEF Revocation
  <2>8. CASE UNCHANGED vars
    BY <2>8 DEF vars
  <2> QED BY <2>1, <2>2, <2>3, <2>4, <2>5, <2>6, <2>7, <2>8 DEF Next
<1> QED BY <1>1, <1>2, PTL DEF Spec

-----------------------------------------------------------------------------
(***************************************************************************)
(* The inductive invariant.  The properties of SessionGuard speak of       *)
(* completed revocations; what makes them inductive is what is known while *)
(* a revocation is under way.                                              *)
(***************************************************************************)

\* The key outlives every token it covers, and is never ahead of the history.
MarkersSound ==
    \A u \in Users :
        /\ marker[u].at <= revokedAt[u]
        /\ revokedAt[u] <= clock
        /\ revokedAt[u] > 0 => revokedAt[u] + RevocationTTL <= marker[u].exp

TokensSound == \A t \in tokens : t.iat > 0 /\ t.iat <= clock /\ t.born <= changes

\* Between the clock reading and the key write, the tokens signed before the
\* change are already known to be no younger than the reading; and a tenant
\* request has only the users of `todo` left to revoke since it began.
RequestSound(s) ==
    /\ s.target <= changes
    /\ s.now <= clock
    /\ s.since <= clock
    /\ s.pc = "stamped" =>
          /\ s.user \in Users
          /\ s.since <= s.now
          /\ \A t \in tokens : t.born < s.target => t.iat <= s.now
    /\ s.op \in TenantOps /\ s.pc \in {"revoking", "stamped"} =>
          \A u \in accounts : u \in s.todo \/ s.since <= revokedAt[u]

RequestsSound == \A r \in Requests : RequestSound(request[r])

SettledSound ==
    \A u \in Users :
        /\ settled[u] <= changes
        /\ \A t \in tokens : t.user = u /\ t.born < settled[u] => t.iat <= revokedAt[u]

Inv == TypeOK /\ MarkersSound /\ TokensSound /\ RequestsSound /\ SettledSound

\* Every request starts, and ends, in a state that is sound in any state.
LEMMA FreshSound ==
    ASSUME TypeOK
    PROVE  RequestSound(Fresh) /\ RequestSound(Done)
BY DEF TypeOK, RequestSound, Fresh, Done, TenantOps

\* A step of one request that writes no marker preserves the invariant as soon
\* as it leaves the request in a sound state.
LEMMA RequestStep ==
    ASSUME Inv, TypeOK', NEW r \in Requests, NEW s \in RequestState, Becomes(r, s),
           changes' >= changes, accounts' \subseteq accounts,
           UNCHANGED << clock, marker, tokens, revokedAt, settled >>,
           RequestSound(s)'
    PROVE  Inv'
<1>1. MarkersSound' /\ TokensSound' /\ SettledSound'
  BY DEF Inv, TypeOK, MarkersSound, TokensSound, SettledSound, Token
<1>2. ASSUME NEW q \in Requests PROVE RequestSound(request[q])'
  <2>1. CASE q = r
    <3>1. request'[q] = s
      BY <2>1 DEF Inv, TypeOK, Becomes
    <3> QED BY <3>1 DEF RequestSound
  <2>2. CASE q # r
    <3>1. request'[q] = request[q]
      BY <2>2 DEF Inv, TypeOK, Becomes
    <3>2. RequestSound(request[q]) /\ request[q] \in RequestState
      BY DEF Inv, RequestsSound, TypeOK
    <3> QED BY <3>1, <3>2 DEF RequestSound, Inv, TypeOK, RequestState
  <2> QED BY <2>1, <2>2
<1> QED BY <1>1, <1>2 DEF Inv, RequestsSound

\* The same, for a request that is not between clock reading and key write.
LEMMA QuietStep ==
    ASSUME Inv, TypeOK', NEW r \in Requests, NEW s \in RequestState, Becomes(r, s),
           changes' >= changes, accounts' \subseteq accounts,
           UNCHANGED << clock, marker, tokens, revokedAt, settled >>,
           s.target <= changes', s.now <= clock, s.since <= clock, s.pc # "stamped",
           s.op \in TenantOps /\ s.pc = "revoking" =>
              \A u \in accounts : u \in s.todo \/ s.since <= revokedAt[u]
    PROVE  Inv'
<1>1. RequestSound(s)'
  BY DEF RequestSound, Inv, TypeOK
<1> QED BY <1>1, RequestStep

LEMMA UserRequestStep ==
    ASSUME Inv, TypeOK', NEW r \in Requests, NEW u \in Users, UserRequest(r, u)
    PROVE  Inv'
<1>1. /\ changes' \in Nat /\ changes' >= changes
      /\ accounts' \subseteq accounts
      /\ UNCHANGED << clock, marker, tokens, revokedAt, settled >>
      /\ StartRevoking(r, u, 0) \/ StartRevoking(r, u, changes')
  BY DEF Commit, UserRequest, Logout, ForceLogout, ResetPassword, ChangePassword, UpdateUser,
         RemoveUser, history, store, Inv, TypeOK
<1>2. PICK c \in Nat : c <= changes' /\ StartRevoking(r, u, c)
  BY <1>1
<1> DEFINE s == [Fresh EXCEPT !.pc = "revoking", !.op = "revoke",
                              !.todo = {u}, !.holders = {u}, !.target = c]
<1>3. /\ s \in RequestState /\ s.pc = "revoking" /\ s.op = "revoke"
      /\ s.target = c /\ s.now = 0 /\ s.since = 0
  BY DEF Fresh, RequestState, Stages, Operations
<1>4. Becomes(r, s)
  BY <1>2 DEF StartRevoking
<1> HIDE DEF s
<1> QED BY <1>1, <1>2, <1>3, <1>4, QuietStep DEF TenantOps, Inv, TypeOK

LEMMA GrantRequestStep ==
    ASSUME Inv, TypeOK', NEW r \in Requests, GrantRequest(r)
    PROVE  Inv'
<1>1. /\ changes' \in Nat /\ changes' >= changes /\ clock \in Nat
      /\ accounts' \subseteq accounts
      /\ UNCHANGED << clock, marker, tokens, revokedAt, settled >>
  BY DEF Commit, GrantRequest, UpdateRole, SetMenus, LookupRole, UpdateMenu, RemoveMenu,
         LookupMenu, LookupUsers, DeleteMenu, history, store, Inv, TypeOK
<1>2. /\ request[r] \in RequestState
      /\ request[r].target <= changes
      /\ request[r].now <= clock
      /\ request[r].since <= clock
  BY DEF Inv, TypeOK, RequestsSound, RequestSound
<1>a. changes \in Nat /\ members \subseteq Users /\ request[r].target \in Nat
  BY <1>2 DEF Inv, TypeOK, RequestState
<1> USE QuietStep DEF TenantOps
<1>3. CASE UpdateRole(r)
  <2>1. PICK next \in {"menus", "lookup"} :
           Becomes(r, [Fresh EXCEPT !.pc = next, !.op = "role", !.target = changes'])
    BY <1>3 DEF Commit, UpdateRole
  <2> DEFINE s == [Fresh EXCEPT !.pc = next, !.op = "role", !.target = changes']
  <2>2. /\ s \in RequestState
        /\ s.pc = next /\ s.op = "role" /\ s.target = changes' /\ s.now = 0 /\ s.since = 0
    BY <1>1 DEF Fresh, RequestState, Stages, Operations
  <2>3. Becomes(r, s)
    BY <2>1
  <2> HIDE DEF s
  <2> QED BY <1>1, <2>2, <2>3
<1>4. CASE SetMenus(r)
  <2> DEFINE s == [request[r] EXCEPT !.pc = "lookup", !.target = changes']
  <2>1. /\ s \in RequestState
        /\ s.pc = "lookup" /\ s.target = changes' /\ s.now = request[r].now /\ s.since = request[r].since
    BY <1>1, <1>2, <1>a DEF Fresh, RequestState, Stages, Operations
  <2>2. Becomes(r, s)
    BY <1>4 DEF Commit, SetMenus, At
  <2> HIDE DEF s
  <2> QED BY <1>1, <1>2, <1>a, <2>1, <2>2
<1>5. CASE LookupRole(r)
  <2>1. PICK found \in {members, {}}, next \in {"revoking", "users"} :
           Becomes(r, [request[r] EXCEPT !.pc = next, !.todo = found,
                                         !.holders = members])
    BY <1>5 DEF LookupRole
  <2> DEFINE s == [request[r] EXCEPT !.pc = next, !.todo = found,
                                     !.holders = members]
  <2>2. /\ s \in RequestState
        /\ s.pc # "stamped" /\ s.op = request[r].op
        /\ s.target = request[r].target /\ s.now = request[r].now /\ s.since = request[r].since
    BY <1>2, <1>a DEF RequestState, Stages
  <2>3. Becomes(r, s) /\ request[r].op = "role"
    BY <1>5, <2>1 DEF LookupRole, At
  <2> HIDE DEF s
  <2> QED BY <1>1, <1>2, <1>a, <2>2, <2>3
<1>6. CASE UpdateMenu(r)
  <2> DEFINE s == [Fresh EXCEPT !.pc = "lookup", !.op = "menu", !.target = changes']
  <2>1. /\ s \in RequestState
        /\ s.pc = "lookup" /\ s.target = changes' /\ s.now = 0 /\ s.since = 0
    BY <1>1, <1>2, <1>a DEF Fresh, RequestState, Stages, Operations
  <2>2. Becomes(r, s)
    BY <1>6 DEF Commit, UpdateMenu, At
  <2> HIDE DEF s
  <2> QED BY <1>1, <1>2, <1>a, <2>1, <2>2
<1>7. CASE RemoveMenu(r)
  <2> DEFINE s == [Fresh EXCEPT !.pc = "lookup", !.op = "menuRemove"]
  <2>1. /\ s \in RequestState
        /\ s.pc = "lookup" /\ s.target = 0 /\ s.now = 0 /\ s.since = 0
    BY <1>1, <1>2, <1>a DEF Fresh, RequestState, Stages, Operations
  <2>2. Becomes(r, s)
    BY <1>7 DEF RemoveMenu, At
  <2> HIDE DEF s
  <2> QED BY <1>1, <1>2, <1>a, <2>1, <2>2
<1>8. CASE LookupMenu(r)
  <2> DEFINE s == [request[r] EXCEPT !.pc = "users", !.todo = members, !.holders = members]
  <2>1. /\ s \in RequestState
        /\ s.pc = "users" /\ s.op = request[r].op
        /\ s.target = request[r].target /\ s.now = request[r].now /\ s.since = request[r].since
    BY <1>1, <1>2, <1>a DEF Fresh, RequestState, Stages, Operations
  <2>2. Becomes(r, s) /\ request[r].op \in {"menu", "menuRemove"}
    BY <1>8 DEF LookupMenu, At
  <2> HIDE DEF s
  <2> QED BY <1>1, <1>2, <1>a, <2>1, <2>2
<1>9. CASE DeleteMenu(r)
  <2>1. Becomes(r, Done)
    BY <1>9 DEF Commit, DeleteMenu
  <2>2. /\ Done \in RequestState /\ Done.pc = "done" /\ Done.target = 0
        /\ Done.now = 0 /\ Done.since = 0
    BY FreshType DEF Done, Fresh
  <2> QED BY <1>1, <1>a, <2>1, <2>2
<1>10. CASE LookupUsers(r)
  <2>1. PICK found \in {request[r].todo \cap accounts, {}} :
           Becomes(r, [request[r] EXCEPT !.pc = "revoking", !.todo = found,
                                         !.holders = @ \cap accounts])
    BY <1>10 DEF LookupUsers
  <2> DEFINE s == [request[r] EXCEPT !.pc = "revoking", !.todo = found,
                                     !.holders = @ \cap accounts]
  <2>2. /\ s \in RequestState
        /\ s.pc = "revoking" /\ s.op = request[r].op
        /\ s.target = request[r].target /\ s.now = request[r].now /\ s.since = request[r].since
    BY <1>2, <1>a DEF RequestState, Stages
  <2>3. Becomes(r, s) /\ request[r].op \notin TenantOps
    BY <1>10, <2>1 DEF LookupUsers
  <2> HIDE DEF s
  <2> QED BY <1>1, <1>2, <1>a, <2>2, <2>3
<1> QED BY <1>3, <1>4, <1>5, <1>6, <1>7, <1>8, <1>9, <1>10 DEF GrantRequest

LEMMA TenantRequestStep ==
    ASSUME Inv, TypeOK', NEW r \in Requests, TenantRequest(r)
    PROVE  Inv'
<1>1. /\ changes' \in Nat /\ changes' >= changes /\ clock \in Nat
      /\ accounts' \subseteq accounts
      /\ UNCHANGED << clock, marker, tokens, revokedAt, settled >>
  BY DEF TenantRequest, DisableTenant, DeleteTenant, LookupTenant, PersistDisabled,
         PersistDeleted, history, store, Inv, TypeOK
<1>2. /\ request[r] \in RequestState
      /\ request[r].target <= changes
      /\ request[r].now <= clock
      /\ request[r].since <= clock
  BY DEF Inv, TypeOK, RequestsSound, RequestSound
<1>a. /\ changes \in Nat /\ accounts \subseteq Users /\ request[r].target \in Nat
      /\ revokedAt \in [Users -> Nat]
  BY <1>2 DEF Inv, TypeOK, RequestState
<1> USE QuietStep DEF TenantOps
<1>3. CASE DisableTenant(r)
  <2>1. CASE tenant = "enabled"
    <3> DEFINE s == [Fresh EXCEPT !.pc = "lookup", !.op = "disable", !.since = clock]
    <3>1. /\ s \in RequestState
          /\ s.pc = "lookup" /\ s.target = 0 /\ s.now = 0 /\ s.since = clock
      BY <1>1 DEF Fresh, RequestState, Stages, Operations
    <3>2. Becomes(r, s)
      BY <1>3, <2>1 DEF DisableTenant
    <3> HIDE DEF s
    <3> QED BY <1>1, <1>a, <3>1, <3>2
  <2>2. CASE tenant # "enabled"
    <3> DEFINE s == [Fresh EXCEPT !.pc = "revoking", !.op = "disable"]
    <3>1. /\ s \in RequestState
          /\ s.pc = "revoking" /\ s.target = 0 /\ s.now = 0 /\ s.since = 0
      BY DEF Fresh, RequestState, Stages, Operations
    <3>2. Becomes(r, s)
      BY <1>3, <2>2 DEF DisableTenant
    <3> HIDE DEF s
    <3> QED BY <1>1, <1>a, <3>1, <3>2
  <2> QED BY <2>1, <2>2
<1>4. CASE DeleteTenant(r)
  <2> DEFINE s == [Fresh EXCEPT !.pc = "lookup", !.op = "delete", !.since = clock]
  <2>1. /\ s \in RequestState
        /\ s.pc = "lookup" /\ s.target = 0 /\ s.now = 0 /\ s.since = clock
    BY <1>1, <1>2, <1>a DEF Fresh, RequestState, Stages, Operations
  <2>2. Becomes(r, s)
    BY <1>4 DEF DeleteTenant, At
  <2> HIDE DEF s
  <2> QED BY <1>1, <1>2, <1>a, <2>1, <2>2
<1>5. CASE LookupTenant(r)
  <2> DEFINE s == [request[r] EXCEPT !.pc = "revoking", !.todo = accounts]
  <2>1. /\ s \in RequestState
        /\ s.pc = "revoking" /\ s.todo = accounts
        /\ s.target = request[r].target /\ s.now = request[r].now /\ s.since = request[r].since
    BY <1>1, <1>2, <1>a DEF Fresh, RequestState, Stages, Operations
  <2>2. Becomes(r, s)
    BY <1>5 DEF LookupTenant, At
  <2> HIDE DEF s
  <2> QED BY <1>1, <1>2, <1>a, <2>1, <2>2
<1>6. CASE PersistDisabled(r) \/ PersistDeleted(r)
  <2>1. Becomes(r, Done)
    BY <1>6 DEF PersistDisabled, PersistDeleted
  <2>2. /\ Done \in RequestState /\ Done.pc = "done" /\ Done.target = 0
        /\ Done.now = 0 /\ Done.since = 0
    BY FreshType DEF Done, Fresh
  <2> QED BY <1>1, <1>a, <2>1, <2>2
<1> QED BY <1>3, <1>4, <1>5, <1>6 DEF TenantRequest

\* The clock reading: every token signed so far is no younger than it.
LEMMA StampStep ==
    ASSUME Inv, TypeOK', NEW r \in Requests, NEW u \in Users, RevokeStamp(r, u)
    PROVE  Inv'
<1>1. /\ changes' = changes /\ accounts' = accounts
      /\ UNCHANGED << clock, marker, tokens, revokedAt, settled >>
      /\ Becomes(r, [request[r] EXCEPT !.pc = "stamped", !.user = u, !.now = clock])
      /\ request[r].pc = "revoking"
  BY DEF RevokeStamp, store, history
<1>2. request[r] \in RequestState /\ RequestSound(request[r])
  BY DEF Inv, TypeOK, RequestsSound
<1>3. PICK s \in RequestState :
         s = [request[r] EXCEPT !.pc = "stamped", !.user = u, !.now = clock]
  BY <1>2 DEF RequestState, Stages, Inv, TypeOK
<1>4. /\ s.pc = "stamped" /\ s.user = u /\ s.now = clock /\ s.op = request[r].op
      /\ s.todo = request[r].todo /\ s.since = request[r].since
      /\ s.target = request[r].target
  BY <1>2, <1>3 DEF RequestState
<1>5. RequestSound(s)'
  BY <1>1, <1>2, <1>4 DEF RequestSound, RequestState, Inv, TypeOK, TokensSound
<1>6. changes' >= changes
  BY <1>1 DEF Inv, TypeOK
<1> QED BY <1>1, <1>3, <1>5, <1>6, RequestStep

\* The key write: what was known of the request becomes true of its user.
LEMMA StoreStep ==
    ASSUME Inv, TypeOK', NEW r \in Requests, RevokeStore(r)
    PROVE  Inv'
<1> DEFINE u == request[r].user
           s == [request[r] EXCEPT !.pc = "revoking", !.user = NoUser, !.now = 0,
                                   !.todo = @ \ {u}]
<1>1. request[r] \in RequestState /\ RequestSound(request[r]) /\ request[r].pc = "stamped"
  BY DEF Inv, TypeOK, RequestsSound, RevokeStore
<1>2. /\ u \in Users
      /\ request[r].now \in Nat /\ request[r].now <= clock
      /\ request[r].since \in Nat /\ request[r].since <= request[r].now
      /\ request[r].target \in Nat /\ request[r].target <= changes
      /\ \A t \in tokens : t.born < request[r].target => t.iat <= request[r].now
  BY <1>1 DEF RequestSound, RequestState
<1>3. /\ UNCHANGED << clock, tokens, accounts, changes >>
      /\ marker' = [marker EXCEPT ![u] =
                       [at |-> request[r].now, exp |-> clock + RevocationTTL]]
      /\ revokedAt' = [revokedAt EXCEPT ![u] = Later(revokedAt[u], request[r].now)]
      /\ settled' = [settled EXCEPT ![u] = Later(settled[u], request[r].target)]
      /\ Becomes(r, s)
  BY DEF RevokeStore, store
<1>4. \A v \in Users : revokedAt'[v] >= revokedAt[v]
  BY <1>2, <1>3, LaterType DEF Inv, TypeOK
<1>5. MarkersSound'
  <2> SUFFICES ASSUME NEW v \in Users
               PROVE  /\ marker'[v].at <= revokedAt'[v]
                      /\ revokedAt'[v] <= clock
                      /\ revokedAt'[v] > 0 => revokedAt'[v] + RevocationTTL <= marker'[v].exp
    BY <1>3 DEF MarkersSound
  <2>1. /\ marker[v].at <= revokedAt[v] /\ revokedAt[v] <= clock
        /\ revokedAt[v] > 0 => revokedAt[v] + RevocationTTL <= marker[v].exp
        /\ revokedAt[v] \in Nat /\ clock \in Nat
    BY DEF Inv, TypeOK, MarkersSound
  <2>2. CASE v = u
    <3>1. /\ marker'[v].at = request[r].now
          /\ marker'[v].exp = clock + RevocationTTL
          /\ revokedAt'[v] = Later(revokedAt[v], request[r].now)
      BY <1>3, <2>2 DEF Inv, TypeOK
    <3> QED BY <1>2, <2>1, <3>1, TimesAssumption DEF Later
  <2>3. CASE v # u
    BY <1>3, <2>1, <2>3 DEF Inv, TypeOK
  <2> QED BY <2>2, <2>3
<1>6. TokensSound'
  BY <1>3 DEF Inv, TokensSound
<1>7. SettledSound'
  <2> SUFFICES ASSUME NEW v \in Users
               PROVE  /\ settled'[v] <= changes
                      /\ \A t \in tokens : t.user = v /\ t.born < settled'[v]
                                             => t.iat <= revokedAt'[v]
    BY <1>3 DEF SettledSound
  <2>1. /\ settled[v] <= changes /\ settled[v] \in Nat /\ changes \in Nat
        /\ revokedAt[v] \in Nat /\ revokedAt'[v] \in Nat
        /\ \A t \in tokens : /\ t.user = v /\ t.born < settled[v] => t.iat <= revokedAt[v]
                              /\ t.iat \in Nat /\ t.born \in Nat
    BY DEF Inv, TypeOK, SettledSound, Token
  <2>2. CASE v = u
    <3>1. /\ settled'[v] = Later(settled[v], request[r].target)
          /\ revokedAt'[v] = Later(revokedAt[v], request[r].now)
      BY <1>3, <2>2 DEF Inv, TypeOK
    <3>2. settled'[v] <= changes
      BY <1>2, <2>1, <3>1 DEF Later
    <3>3. ASSUME NEW t \in tokens, t.user = v, t.born < settled'[v]
          PROVE  t.iat <= revokedAt'[v]
      <4>1. t.born < settled[v] \/ t.born < request[r].target
        BY <3>1, <3>3 DEF Later
      <4>2. t.iat <= revokedAt[v] \/ t.iat <= request[r].now
        BY <1>2, <2>1, <3>3, <4>1
      <4>3. t.iat \in Nat
        BY DEF Inv, TypeOK, Token
      <4> QED BY <1>2, <2>1, <3>1, <4>2, <4>3 DEF Later
    <3> QED BY <3>2, <3>3
  <2>3. CASE v # u
    <3>1. settled'[v] = settled[v] /\ revokedAt'[v] = revokedAt[v]
      BY <1>3, <2>3 DEF Inv, TypeOK
    <3> QED BY <2>1, <3>1
  <2> QED BY <2>2, <2>3
<1>8. RequestsSound'
  <2> SUFFICES ASSUME NEW q \in Requests PROVE RequestSound(request[q])'
    BY DEF RequestsSound
  <2>1. RequestSound(request[q]) /\ request[q] \in RequestState
    BY DEF Inv, TypeOK, RequestsSound
  <2>2. CASE q = r
    <3>1. /\ request'[q].pc = "revoking" /\ request'[q].op = request[r].op
          /\ request'[q].now = 0 /\ request'[q].since = request[r].since
          /\ request'[q].target = request[r].target
          /\ request'[q].todo = request[r].todo \ {u}
      BY <1>1, <1>3, <2>2 DEF Becomes, RequestState, Inv, TypeOK
    <3>2. revokedAt'[u] >= request[r].now
      BY <1>2, <1>3, LaterType DEF Inv, TypeOK
    <3>3. request[r].op \in TenantOps =>
             \A v \in accounts :
                v \in request[r].todo \ {u} \/ request[r].since <= revokedAt'[v]
      <4> SUFFICES ASSUME request[r].op \in TenantOps, NEW v \in accounts,
                          v \notin request[r].todo \ {u}
                   PROVE  request[r].since <= revokedAt'[v]
        OBVIOUS
      <4>1. /\ v \in Users /\ revokedAt[v] \in Nat /\ revokedAt'[v] \in Nat
            /\ revokedAt'[u] \in Nat
        BY <1>2 DEF Inv, TypeOK
      <4>2. CASE v = u
        BY <1>2, <3>2, <4>1, <4>2
      <4>3. CASE v # u
        <5>1. request[r].since <= revokedAt[v]
          BY <1>1, <4>3 DEF RequestSound
        <5> QED BY <1>2, <1>4, <4>1, <5>1
      <4> QED BY <4>2, <4>3
    <3> QED BY <1>2, <1>3, <3>1, <3>3 DEF RequestSound, Inv, TypeOK
  <2>3. CASE q # r
    <3>1. request'[q] = request[q]
      BY <1>3, <2>3 DEF Becomes, Inv, TypeOK
    <3>2. \A v \in accounts : /\ revokedAt'[v] >= revokedAt[v]
                              /\ revokedAt[v] \in Nat /\ revokedAt'[v] \in Nat
      BY <1>4 DEF Inv, TypeOK
    <3> QED BY <1>3, <2>1, <3>1, <3>2 DEF RequestSound, RequestState
  <2> QED BY <2>2, <2>3
<1> QED BY <1>5, <1>6, <1>7, <1>8 DEF Inv

LEMMA RevocationStep ==
    ASSUME Inv, TypeOK', NEW r \in Requests, Revocation(r)
    PROVE  Inv'
<1>1. CASE Respond(r) \/ Abort(r)
  <2>1. /\ UNCHANGED << clock, marker, tokens, revokedAt, settled, changes, accounts >>
        /\ Becomes(r, Done)
    BY <1>1 DEF Respond, Abort, store, history
  <2>2. /\ Done \in RequestState /\ Done.pc = "done" /\ Done.target = 0
        /\ Done.now = 0 /\ Done.since = 0
    BY FreshType DEF Done, Fresh
  <2>3. changes \in Nat /\ clock \in Nat
    BY DEF Inv, TypeOK
  <2>4. /\ changes' >= changes /\ accounts' \subseteq accounts
        /\ Done.target <= changes' /\ Done.now <= clock /\ Done.since <= clock
    BY <2>1, <2>2, <2>3
  <2> HIDE DEF Done
  <2> QED BY <2>1, <2>2, <2>4, QuietStep
<1> QED BY <1>1, StampStep, StoreStep DEF Revocation

\* A new token is as young as the clock and as the changes allow.
LEMMA LoginStep ==
    ASSUME Inv, TypeOK', NEW l \in Logins, LoginNext(l)
    PROVE  Inv'
<1>1. /\ UNCHANGED << clock, marker, accounts, changes, request, revokedAt, settled >>
      /\ \A t \in tokens' : t \in tokens \/ (t.iat = clock /\ t.born = changes)
  <2>1. CASE LoginSign(l)
    BY <2>1 DEF LoginSign, store, history
  <2>2. CASE ~LoginSign(l)
    BY <2>2 DEF LoginNext, LoginCheckTenant, LoginVerify, LoginLoad, LoginGivesUp,
                store, history
  <2> QED BY <2>1, <2>2
<1>2. MarkersSound' /\ TokensSound'
  BY <1>1 DEF Inv, TypeOK, MarkersSound, TokensSound
<1>3. SettledSound'
  BY <1>1 DEF Inv, TypeOK, SettledSound, Token
<1>4. RequestsSound'
  <2> SUFFICES ASSUME NEW q \in Requests PROVE RequestSound(request[q])'
    BY DEF RequestsSound
  <2>1. RequestSound(request[q]) /\ request[q] \in RequestState
    BY DEF Inv, TypeOK, RequestsSound
  <2> QED BY <1>1, <2>1 DEF RequestSound, RequestState, Inv, TypeOK
<1> QED BY <1>2, <1>3, <1>4 DEF Inv

LEMMA TickStep ==
    ASSUME Inv, TypeOK', Tick
    PROVE  Inv'
<1>1. /\ UNCHANGED << marker, tokens, accounts, changes, request, revokedAt, settled >>
      /\ clock \in Nat /\ clock' = clock + 1
  BY DEF Tick, store, history, Inv, TypeOK
<1>2. MarkersSound' /\ TokensSound' /\ SettledSound'
  BY <1>1 DEF Inv, TypeOK, MarkersSound, TokensSound, SettledSound, Token
<1>3. RequestsSound'
  <2> SUFFICES ASSUME NEW q \in Requests PROVE RequestSound(request[q])'
    BY DEF RequestsSound
  <2>1. RequestSound(request[q]) /\ request[q] \in RequestState
    BY DEF Inv, TypeOK, RequestsSound
  <2> QED BY <1>1, <2>1 DEF RequestSound, RequestState
<1> QED BY <1>2, <1>3 DEF Inv

\* The invariant holds in every reachable state.
LEMMA Invariance == Spec => []Inv
<1>1. Init /\ TypeOK => Inv
  <2> SUFFICES ASSUME Init, TypeOK PROVE Inv
    OBVIOUS
  <2>1. MarkersSound /\ TokensSound /\ SettledSound
    BY DEF Init, MarkersSound, TokensSound, SettledSound, NoMarker
  <2>2. RequestsSound
    BY FreshSound DEF Init, RequestsSound
  <2> QED BY <2>1, <2>2 DEF Inv
<1>2. Inv /\ TypeOK' /\ [Next]_vars => Inv'
  <2> SUFFICES ASSUME Inv, TypeOK', [Next]_vars PROVE Inv'
    OBVIOUS
  <2>1. CASE EnableTenant \/ UNCHANGED vars
    <3>1. UNCHANGED << clock, marker, tokens, accounts, changes, request, revokedAt, settled >>
      BY <2>1 DEF EnableTenant, vars, history
    <3> QED BY <3>1 DEF Inv, MarkersSound, TokensSound, SettledSound, RequestsSound,
                        RequestSound
  <2> QED BY <2>1, TickStep, LoginStep, UserRequestStep, GrantRequestStep,
             TenantRequestStep, RevocationStep DEF Next
<1> QED BY <1>1, <1>2, TypeCorrect, PTL DEF Spec

-----------------------------------------------------------------------------
(* The theorems.                                                           *)

\* In a sound state a token covered by a completed revocation is accepted only
\* behind a marker that went back: either the key is there and older than the
\* revocation, or it expired, and then so did the token (RevocationTTL exceeds
\* TokenLifetime).
LEMMA CoveredTokens ==
    ASSUME Inv, NEW t \in tokens, t.iat <= revokedAt[t.user], Accepted(t)
    PROVE  Regressed(t.user)
<1> DEFINE u == t.user
<1>1. /\ u \in Users /\ t.iat \in Nat /\ clock \in Nat /\ clock > 0
      /\ revokedAt[u] \in Nat
      /\ marker[u].at \in Nat /\ marker[u].exp \in Nat
      /\ clock <= t.iat + TokenLifetime
  BY DEF Inv, TypeOK, Token, Accepted
<1>2. revokedAt[u] > 0 => revokedAt[u] + RevocationTTL <= marker[u].exp
  BY <1>1 DEF Inv, MarkersSound
<1>3. CASE revokedAt[u] = 0
  BY <1>1, <1>3 DEF Inv, TokensSound
<1>4. CASE revokedAt[u] > 0
  <2>1. clock < marker[u].exp
    BY <1>1, <1>2, <1>4, TimesAssumption
  <2>2. t.iat > marker[u].at
    BY <2>1 DEF Accepted, IsSessionValid, MarkerPresent
  <2> QED BY <1>1, <2>2 DEF Regressed
<1> QED BY <1>1, <1>3, <1>4

\* A completed revocation is never undone, except by a marker written late.
THEOREM RevocationFinal == Spec => []RevocationIsFinal
<1>1. Inv => RevocationIsFinal
  BY CoveredTokens DEF RevocationIsFinal
<1> QED BY <1>1, Invariance, PTL

\* Once the revocation that follows a change has completed, the tokens signed
\* before the change are dead, with the same exception.
THEOREM ChangesFinal == Spec => []ChangesEndOlderTokens
<1>1. Inv => ChangesEndOlderTokens
  <2> SUFFICES ASSUME Inv, NEW t \in tokens, Accepted(t), t.born < settled[t.user]
               PROVE  Regressed(t.user)
    BY DEF ChangesEndOlderTokens
  <2>1. t.user \in Users
    BY DEF Inv, TypeOK, Token
  <2>2. t.iat <= revokedAt[t.user]
    BY <2>1 DEF Inv, SettledSound
  <2> QED BY <2>2, CoveredTokens
<1> QED BY <1>1, Invariance, PTL

\* A tenant is disabled or deleted only behind the revocation of everybody who
\* could still use it.
THEOREM TenantEndsSafely == Spec => TenantEndRevokesFirst
<1>1. Inv /\ [Next]_vars =>
        [ \A r \in Requests : Ending(r) =>
            \A t \in tokens :
               t.user \in accounts /\ t.iat <= request[r].since /\ Accepted(t)
                  => Regressed(t.user) ]_vars
  <2> SUFFICES ASSUME Inv, [Next]_vars, NEW r \in Requests, Ending(r),
                      NEW t \in tokens, t.user \in accounts,
                      t.iat <= request[r].since, Accepted(t)
               PROVE  Regressed(t.user)
    OBVIOUS
  <2>1. PICK q \in Requests : PersistDisabled(q) \/ PersistDeleted(q)
    <3>1. tenant' # tenant /\ tenant' # "enabled"
      BY DEF Ending
    <3>2. ~Tick /\ ~EnableTenant /\ ~(UNCHANGED vars)
      BY <3>1 DEF Tick, EnableTenant, vars, store
    <3>3. \A l \in Logins : ~LoginNext(l)
      BY <3>1 DEF LoginNext, LoginCheckTenant, LoginVerify, LoginLoad, LoginSign,
                  LoginGivesUp, store
    <3>4. \A q \in Requests, u \in Users : ~UserRequest(q, u)
      BY <3>1 DEF Commit, UserRequest, Logout, ForceLogout, ResetPassword, ChangePassword,
                  UpdateUser, RemoveUser, store
    <3>5. \A q \in Requests : ~GrantRequest(q)
      BY <3>1 DEF Commit, GrantRequest, UpdateRole, SetMenus, LookupRole, UpdateMenu, RemoveMenu,
                  LookupMenu, LookupUsers, DeleteMenu, store
    <3>6. \A q \in Requests : ~Revocation(q)
      BY <3>1 DEF Revocation, RevokeStamp, RevokeStore, Respond, Abort, store
    <3>7. \A q \in Requests :
             TenantRequest(q) => PersistDisabled(q) \/ PersistDeleted(q)
      BY <3>1 DEF TenantRequest, DisableTenant, DeleteTenant, LookupTenant, store
    <3> QED BY <3>2, <3>3, <3>4, <3>5, <3>6, <3>7 DEF Next
  <2>2. q = r
    BY <2>1 DEF PersistDisabled, PersistDeleted, Becomes, Ending, Served, Done, Fresh,
                Inv, TypeOK, RequestState
  <2>3. /\ request[r].pc = "revoking" /\ request[r].op \in TenantOps
        /\ request[r].todo = {}
    BY <2>1, <2>2 DEF PersistDisabled, PersistDeleted, At, TenantOps
  <2>4. request[r].since <= revokedAt[t.user]
    BY <2>3 DEF Inv, RequestsSound, RequestSound
  <2>5. t.iat <= revokedAt[t.user]
    BY <2>4 DEF Inv, TypeOK, RequestState, Token
  <2> QED BY <2>5, CoveredTokens
<1> QED BY <1>1, Invariance, PTL DEF Spec, TenantEndRevokesFirst

-----------------------------------------------------------------------------
(***************************************************************************)
(* What the comments promise and the code does not keep in general: each   *)
(* promise is kept as long as one thing does not happen, so that the       *)
(* counterexamples of the runs show the only way to break it.              *)
(***************************************************************************)

\* Of the steps of Next, those that write a marker are few, and a request comes to
\* revoke by its lookups, or with all to do.
Revokes(s) == s.pc \in {"users", "revoking"} /\ s.op \in {"revoke", "role", "menu"}
Listed(q) ==
    LookupRole(q) \/ LookupUsers(q) \/ request'[q].holders \subseteq request'[q].todo

LEMMA MarkerSteps ==
    ASSUME TypeOK, [Next]_vars
    PROVE  \/ \E r \in Requests : RevokeStore(r) \/ \E u \in Users : RevokeStamp(r, u)
           \/ /\ UNCHANGED << marker, revokedAt, settled >>
              /\ \A q \in Requests :
                    \/ request'[q] = request[q]
                    \/ /\ request'[q].pc # "stamped"
                       /\ Revokes(request'[q]) => Listed(q)
<1> DEFINE Calm(q) == /\ request'[q].pc # "stamped"
                      /\ Revokes(request'[q]) => Listed(q)
           Goal == /\ UNCHANGED << marker, revokedAt, settled >>
                   /\ \A q \in Requests : request'[q] = request[q] \/ Calm(q)
<1>1. ASSUME NEW r \in Requests, NEW s, Becomes(r, s), s.pc # "stamped",
             Revokes(s) => \/ LookupRole(r) \/ LookupUsers(r)
                           \/ s.holders \subseteq s.todo,
             UNCHANGED << marker, revokedAt, settled >>
      PROVE  Goal
  <2>1. request'[r] = s /\ \A q \in Requests : q # r => request'[q] = request[q]
    BY <1>1 DEF Becomes, TypeOK
  <2> QED
    BY <1>1, <2>1 DEF Listed
<1>2. \A r \in Requests : request[r] \in RequestState
  BY DEF TypeOK
<1> HIDE DEF Goal
<1>3. ASSUME UNCHANGED << marker, revokedAt, settled, request >> PROVE Goal
  BY <1>3 DEF Goal
<1>4. ASSUME NEW r \in Requests, NEW u \in Users, UserRequest(r, u) PROVE Goal
  <2>1. PICK c \in {0, changes'} : StartRevoking(r, u, c)
    BY <1>4 DEF UserRequest, Logout, ForceLogout, ResetPassword, ChangePassword, UpdateUser,
       RemoveUser
  <2>2. UNCHANGED << marker, revokedAt, settled >>
    BY <1>4 DEF UserRequest, Logout, ForceLogout, ResetPassword, ChangePassword, UpdateUser,
       RemoveUser, history
  <2> DEFINE s == [Fresh EXCEPT !.pc = "revoking", !.op = "revoke", !.todo = {u},
                                !.holders = {u}, !.target = c]
  <2>3. s.pc = "revoking" /\ s.holders \subseteq s.todo
    BY DEF Fresh
  <2>4. Becomes(r, s)
    BY <2>1 DEF StartRevoking
  <2> HIDE DEF s
  <2> QED
    BY <1>1, <2>2, <2>3, <2>4
<1>5. ASSUME NEW r \in Requests, GrantRequest(r) \/ TenantRequest(r) PROVE Goal
  <2>1. UNCHANGED << marker, revokedAt, settled >>
    BY <1>5 DEF GrantRequest, TenantRequest, UpdateRole, SetMenus, LookupRole, UpdateMenu,
       RemoveMenu, LookupMenu, LookupUsers, DeleteMenu, DisableTenant, DeleteTenant, LookupTenant,
       PersistDisabled, PersistDeleted, history
  <2>2. CASE UpdateRole(r)
    <3>1. PICK next \in {"menus", "lookup"} :
             Becomes(r, [Fresh EXCEPT !.pc = next, !.op = "role", !.target = changes'])
      BY <2>2 DEF UpdateRole
    <3>2. [Fresh EXCEPT !.pc = next, !.op = "role", !.target = changes'].pc = next
      BY DEF Fresh
    <3> QED
      BY <1>1, <2>1, <3>1, <3>2 DEF Revokes
  <2>3. CASE SetMenus(r)
    BY <1>1, <1>2, <2>1, <2>3 DEF SetMenus, RequestState, Revokes
  <2>4. CASE LookupRole(r)
    BY <1>1, <1>2, <2>1, <2>4 DEF LookupRole, RequestState
  <2>5. CASE UpdateMenu(r) \/ RemoveMenu(r) \/ DeleteMenu(r)
    BY <1>1, <2>1, <2>5 DEF UpdateMenu, RemoveMenu, DeleteMenu, Fresh, Done, Revokes
  <2>6. CASE LookupMenu(r)
    BY <1>1, <1>2, <2>1, <2>6 DEF LookupMenu, RequestState
  <2>9. CASE LookupUsers(r)
    BY <1>1, <1>2, <2>1, <2>9 DEF LookupUsers, RequestState
  <2>7. CASE LookupTenant(r)
    BY <1>1, <1>2, <2>1, <2>7 DEF LookupTenant, RequestState, TenantOps, Revokes
  <2>8. CASE DisableTenant(r) \/ DeleteTenant(r) \/ PersistDisabled(r) \/ PersistDeleted(r)
    BY <1>1, <2>1, <2>8 DEF DisableTenant, DeleteTenant, PersistDisabled, PersistDeleted,
       Fresh, Done, Revokes
  <2> QED
    BY <1>5, <2>2, <2>3, <2>4, <2>5, <2>6, <2>7, <2>8, <2>9 DEF GrantRequest, TenantRequest
<1>6. ASSUME NEW r \in Requests, Respond(r) \/ Abort(r) PROVE Goal
  BY <1>1, <1>6 DEF Respond, Abort, Done, Fresh, history, Revokes
<1>7. CASE Tick \/ EnableTenant \/ (\E l \in Logins : LoginNext(l)) \/ UNCHANGED vars
  BY <1>3, <1>7 DEF Tick, EnableTenant, LoginNext, LoginCheckTenant, LoginVerify, LoginLoad,
     LoginSign, LoginGivesUp, vars, history
<1> QED
  BY <1>4, <1>5, <1>6, <1>7 DEF Next, Revocation, Goal

\* Between reading the clock and writing the marker of a user, a request is alone.
StampsInTurn ==
    \A q, r \in Requests :
        /\ request[q].pc = "stamped" /\ request[r].pc = "stamped"
        /\ request[q].user = request[r].user
        => q = r

\* The marker is the last completed revocation, and a reading is no older than it.
MarkersExact == \A u \in Users : marker[u].at = revokedAt[u]
StampsAhead ==
    \A r \in Requests :
        request[r].pc = "stamped" => revokedAt[request[r].user] <= request[r].now

LEMMA MarkersExactStep ==
    ASSUME Inv, StampsInTurn, MarkersExact, StampsAhead, [Next]_vars
    PROVE  MarkersExact' /\ StampsAhead'
<1>1. TypeOK /\ \A r \in Requests : request[r] \in RequestState
  BY DEF Inv, TypeOK
<1>2. ASSUME NEW r \in Requests, RevokeStore(r) PROVE MarkersExact' /\ StampsAhead'
  <2> DEFINE u == request[r].user
  <2>1. /\ request[r].pc = "stamped" /\ u \in Users
        /\ request[r].now \in Nat /\ revokedAt[u] \in Nat /\ revokedAt[u] <= request[r].now
    BY <1>1, <1>2 DEF RevokeStore, Inv, RequestsSound, RequestSound, TypeOK, RequestState,
       StampsAhead
  <2>2. /\ marker' = [marker EXCEPT ![u] = [at |-> request[r].now,
                                            exp |-> clock + RevocationTTL]]
        /\ revokedAt' = [revokedAt EXCEPT ![u] = Later(@, request[r].now)]
        /\ request'[r].pc = "revoking"
        /\ \A q \in Requests : q # r => request'[q] = request[q]
    BY <1>1, <1>2 DEF RevokeStore, Becomes, TypeOK, RequestState
  <2>3. Later(revokedAt[u], request[r].now) = request[r].now
    BY <2>1 DEF Later
  <2>4. revokedAt' = [revokedAt EXCEPT ![u] = request[r].now]
    BY <2>2, <2>3
  <2>5. MarkersExact'
    BY <1>1, <2>1, <2>2, <2>4 DEF MarkersExact, TypeOK
  <2>6. ASSUME NEW q \in Requests, request'[q].pc = "stamped"
        PROVE  revokedAt'[request'[q].user] <= request'[q].now
    <3>1. q # r /\ request'[q] = request[q] /\ request[q].pc = "stamped"
      BY <2>2, <2>6
    <3>2. request[q].user # u /\ request[q].user \in Users
      BY <2>1, <3>1 DEF StampsInTurn, Inv, RequestsSound, RequestSound
    <3>3. revokedAt'[request[q].user] = revokedAt[request[q].user]
      BY <1>1, <2>4, <3>2 DEF TypeOK
    <3> QED
      BY <3>1, <3>3 DEF StampsAhead
  <2> QED
    BY <2>5, <2>6 DEF StampsAhead
<1>3. ASSUME NEW r \in Requests, NEW u \in Users, RevokeStamp(r, u)
      PROVE  MarkersExact' /\ StampsAhead'
  <2>1. UNCHANGED << marker, revokedAt >> /\ revokedAt[u] <= clock
    BY <1>3 DEF RevokeStamp, history, Inv, MarkersSound
  <2>2. /\ request'[r].user = u /\ request'[r].now = clock
        /\ \A q \in Requests : q # r => request'[q] = request[q]
    BY <1>1, <1>3 DEF RevokeStamp, Becomes, TypeOK, RequestState
  <2> QED
    BY <2>1, <2>2 DEF MarkersExact, StampsAhead
<1>4. CASE /\ UNCHANGED << marker, revokedAt >>
           /\ \A q \in Requests : request'[q] = request[q] \/ request'[q].pc # "stamped"
  BY <1>4 DEF MarkersExact, StampsAhead
<1> QED
  BY <1>1, <1>2, <1>3, <1>4, MarkerSteps

\* "any JWT issued before the revocation time is rejected" (session_guard.rs) is true
\* while no two requests are between the clock reading and the key write for one user.
THEOREM RevokedRejectedInTurn == Spec /\ []StampsInTurn => []RevokedTokensRejected
<1>1. Init => MarkersExact /\ StampsAhead
  BY DEF Init, MarkersExact, StampsAhead, NoMarker, Fresh
<1>2. Inv /\ StampsInTurn /\ MarkersExact /\ StampsAhead /\ [Next]_vars
      => MarkersExact' /\ StampsAhead'
  BY MarkersExactStep
<1>3. Inv /\ MarkersExact => RevokedTokensRejected
  <2> SUFFICES ASSUME Inv, MarkersExact, NEW t \in tokens, t.iat <= revokedAt[t.user],
                      Accepted(t)
               PROVE  FALSE
    BY DEF RevokedTokensRejected
  <2>1. t.user \in Users /\ revokedAt[t.user] \in Nat
    BY DEF Inv, TypeOK, Token
  <2>2. marker[t.user].at < revokedAt[t.user]
    BY CoveredTokens DEF Regressed
  <2> QED
    BY <2>1, <2>2 DEF MarkersExact
<1> QED
  BY <1>1, <1>2, <1>3, Invariance, PTL DEF Spec

\* What a login has read of roles and menus is what there is until it signs.
LoginsCurrent == \A l \in Logins : login[l].pc = "loaded" => login[l].seen = changes

TokensCurrent == \A t \in tokens : t.seen = t.born

\* "no user keeps the permissions of before a role change" (users.rs) is true while no
\* change is committed between the moment a login reads its permissions and its signature.
THEOREM GrantsCurrentInTurn == Spec /\ []LoginsCurrent => []NoStaleGrants
<1>1. Init => TokensCurrent
  BY DEF Init, TokensCurrent
<1>2. TokensCurrent /\ LoginsCurrent /\ [Next]_vars => TokensCurrent'
  <2> SUFFICES ASSUME TokensCurrent, LoginsCurrent, [Next]_vars PROVE TokensCurrent'
    OBVIOUS
  <2>1. ASSUME NEW l \in Logins, LoginSign(l) PROVE TokensCurrent'
    BY <2>1 DEF LoginSign, TokensCurrent, LoginsCurrent
  <2>2. CASE UNCHANGED tokens
    BY <2>2 DEF TokensCurrent
  <2>3. (\A l \in Logins : ~LoginSign(l)) => UNCHANGED tokens
    BY DEF Next, Tick, EnableTenant, LoginNext, LoginCheckTenant, LoginVerify, LoginLoad,
       LoginGivesUp, UserRequest, Logout, ForceLogout, ResetPassword, ChangePassword,
       UpdateUser, RemoveUser, GrantRequest, UpdateRole, SetMenus, LookupRole, UpdateMenu,
       RemoveMenu, LookupMenu, LookupUsers, DeleteMenu, TenantRequest, DisableTenant, DeleteTenant,
       LookupTenant, PersistDisabled, PersistDeleted, Revocation, RevokeStamp, RevokeStore,
       Respond, Abort, vars
  <2> QED
    BY <2>1, <2>2, <2>3
<1>3. TokensCurrent /\ ChangesEndOlderTokens => NoStaleGrants
  BY DEF TokensCurrent, ChangesEndOlderTokens, NoStaleGrants
<1> QED
  BY <1>1, <1>2, <1>3, ChangesFinal, PTL DEF Spec

\* Whom the change of a request is about is to be revoked still, or was revoked after it.
HolderSound(s, done) ==
    /\ s.pc = "users" => s.holders \subseteq s.todo
    /\ s.pc \in {"revoking", "stamped"} =>
          \A u \in s.holders : u \in s.todo \/ s.target <= done[u]

HoldersSound(ops) ==
    \A r \in Requests : request[r].op \in ops => HolderSound(request[r], settled)

\* A query for the holders of a role finds all there are.
LookupSucceeds(r) ==
    /\ LookupRole(r) => request'[r].todo = members
    /\ LookupUsers(r) => request'[r].todo = request[r].todo \cap accounts

LookupsSucceed == [][\A r \in Requests : LookupSucceeds(r)]_vars

LEMMA HoldersStep ==
    ASSUME Inv, [Next]_vars, NEW ops \in SUBSET {"revoke", "role", "menu"},
           HoldersSound(ops),
           [\A r \in Requests : "role" \in ops => LookupSucceeds(r)]_vars
    PROVE  HoldersSound(ops)'
<1>1. TypeOK /\ \A r \in Requests : request[r] \in RequestState
  BY DEF Inv, TypeOK
<1> SUFFICES ASSUME NEW q \in Requests, request'[q].op \in ops
             PROVE  HolderSound(request'[q], settled')
  BY DEF HoldersSound, HolderSound
<1>2. ASSUME NEW r \in Requests, RevokeStore(r) PROVE HolderSound(request'[q], settled')
  <2> DEFINE u == request[r].user
  <2>1. /\ request[r].pc = "stamped" /\ u \in Users
        /\ request[r].target \in Nat
        /\ settled' = [settled EXCEPT ![u] = Later(@, request[r].target)]
    BY <1>1, <1>2 DEF RevokeStore, Inv, RequestsSound, RequestSound, RequestState
  <2> DEFINE later == Later(settled[u], request[r].target)
  <2>a. settled \in [Users -> Nat]
    BY <1>1 DEF TypeOK
  <2>b. later \in Nat /\ settled[u] <= later /\ request[r].target <= later
    BY <2>1, <2>a, LaterType
  <2>c. settled' = [settled EXCEPT ![u] = later]
    BY <2>1
  <2> HIDE DEF later
  <2>2. /\ \A v \in Users : settled[v] <= settled'[v] /\ settled[v] \in Nat
                            /\ settled'[v] \in Nat
        /\ request[r].target <= settled'[u]
    BY <2>1, <2>a, <2>b, <2>c
  <2>3. /\ q # r => request'[q] = request[q]
        /\ q = r => /\ request'[q].op = request[r].op
                    /\ request'[q].holders = request[r].holders
                    /\ request'[q].target = request[r].target
                    /\ request'[q].todo = request[r].todo \ {u}
                    /\ request'[q].pc = "revoking"
    BY <1>1, <1>2 DEF RevokeStore, Becomes, TypeOK, RequestState
  <2>4. request[q].holders \subseteq Users /\ request[q].target \in Nat
    BY <1>1 DEF RequestState
  <2>5. HolderSound(request[q], settled)
    BY <2>3 DEF HoldersSound
  <2> QED
    BY <2>1, <2>2, <2>3, <2>4, <2>5 DEF HolderSound
<1>3. ASSUME NEW r \in Requests, NEW u \in Users, RevokeStamp(r, u)
      PROVE  HolderSound(request'[q], settled')
  <2>1. settled' = settled /\ request[r].pc = "revoking"
    BY <1>3 DEF RevokeStamp, history
  <2>2. /\ q # r => request'[q] = request[q]
        /\ q = r => /\ request'[q].op = request[r].op
                    /\ request'[q].holders = request[r].holders
                    /\ request'[q].target = request[r].target
                    /\ request'[q].todo = request[r].todo
                    /\ request'[q].pc = "stamped"
    BY <1>1, <1>3 DEF RevokeStamp, Becomes, TypeOK, RequestState
  <2>3. HolderSound(request[q], settled)
    BY <2>2 DEF HoldersSound
  <2> QED
    BY <2>1, <2>2, <2>3 DEF HolderSound
<1>4. CASE /\ settled' = settled
           /\ \/ request'[q] = request[q]
              \/ /\ request'[q].pc # "stamped"
                 /\ Revokes(request'[q]) => Listed(q)
  <2>1. CASE request'[q] = request[q]
    BY <1>4, <2>1 DEF HoldersSound
  <2>2. CASE request'[q] # request[q] /\ LookupRole(q)
    <3>1. /\ request'[q].holders = members
          /\ request'[q].op = "role"
      BY <1>1, <2>2 DEF LookupRole, At, Becomes, TypeOK, RequestState
    <3>2. request'[q].todo = members
      BY <2>2, <3>1 DEF vars, LookupSucceeds
    <3> QED
      BY <1>4, <2>2, <3>1, <3>2 DEF HolderSound
  <2>3. CASE request'[q] # request[q] /\ LookupUsers(q)
    <3>1. /\ request'[q].holders = request[q].holders \cap accounts
          /\ request'[q].op = request[q].op /\ request[q].pc = "users"
          /\ request'[q].pc = "revoking"
      BY <1>1, <2>3 DEF LookupUsers, Becomes, TypeOK, RequestState
    <3>2. request[q].holders \subseteq request[q].todo
      BY <3>1 DEF HoldersSound, HolderSound
    <3>3. request'[q].todo = request[q].todo \cap accounts
      <4>1. CASE request[q].op = "role"
        BY <2>3, <3>1, <4>1 DEF vars, LookupSucceeds
      <4>2. CASE request[q].op # "role"
        BY <1>1, <2>3, <4>2 DEF LookupUsers, Becomes, TypeOK, RequestState
      <4> QED
        BY <4>1, <4>2
    <3> QED
      BY <3>1, <3>2, <3>3 DEF HolderSound
  <2>4. CASE request'[q].pc # "stamped" /\ request'[q].holders \subseteq request'[q].todo
    BY <2>4 DEF HolderSound
  <2>5. CASE request'[q].pc # "stamped" /\ ~Revokes(request'[q])
    BY <2>5 DEF HolderSound, Revokes
  <2> QED
    BY <1>4, <2>1, <2>2, <2>3, <2>4, <2>5 DEF Listed
<1> QED
  BY <1>1, <1>2, <1>3, <1>4, MarkerSteps

LEMMA HoldersInit ==
    ASSUME Init, NEW ops
    PROVE  HoldersSound(ops)
BY DEF Init, HoldersSound, HolderSound, Fresh

LEMMA OldTokensDead ==
    ASSUME Inv, NEW ops, HoldersSound(ops), ChangesEndOlderTokens,
           NEW r \in Requests, request[r].op \in ops
    PROVE  OldTokensEnded(r)
<1> SUFFICES ASSUME request[r].pc = "revoking", request[r].todo = {}, NEW t \in tokens,
                    t.user \in request[r].holders, Accepted(t), t.born < request[r].target
             PROVE  Regressed(t.user)
  BY DEF OldTokensEnded
<1>1. request[r].target <= settled[t.user]
  BY DEF HoldersSound, HolderSound
<1>2. t.born \in Nat /\ request[r].target \in Nat /\ settled[t.user] \in Nat
  BY DEF Inv, TypeOK, Token, RequestState
<1> QED
  BY <1>1, <1>2 DEF ChangesEndOlderTokens

\* A request whose change could not be followed by its revocations does not succeed.
THEOREM SuccessMeansRevoked == Spec => []SuccessEndsTokens
<1> DEFINE ops == {"revoke", "menu"}
<1> DEFINE H == HoldersSound(ops)
<1>1. Init => H
  BY HoldersInit
<1>2. Inv /\ H /\ [Next]_vars => H'
  <2>1. "role" \notin ops /\ ops \in SUBSET {"revoke", "role", "menu"}
    OBVIOUS
  <2>2. [\A r \in Requests : "role" \in ops => LookupSucceeds(r)]_vars
    BY <2>1
  <2> HIDE DEF ops
  <2> QED
    BY <2>1, <2>2, HoldersStep
<1>3. Inv /\ H /\ ChangesEndOlderTokens => SuccessEndsTokens
  BY OldTokensDead DEF SuccessEndsTokens
<1> HIDE DEF H
<1> QED
  BY <1>1, <1>2, <1>3, Invariance, ChangesFinal, PTL DEF Spec

\* "a role change forces every holder of the role to log in again" (roles.rs) is true as
\* long as the queries for the holders, whose errors are dropped, do not fail.
THEOREM RoleChangesWhenLookupsSucceed ==
    Spec /\ LookupsSucceed => []RoleChangeForcesLogin
<1> DEFINE ops == {"role"}
<1> DEFINE H == HoldersSound(ops)
<1>1. Init => H
  BY HoldersInit
<1>2. Inv /\ H /\ [Next]_vars /\ [\A r \in Requests : LookupSucceeds(r)]_vars => H'
  <2>1. ops \in SUBSET {"revoke", "role", "menu"}
    OBVIOUS
  <2>2. [\A r \in Requests : LookupSucceeds(r)]_vars
          => [\A r \in Requests : "role" \in ops => LookupSucceeds(r)]_vars
    OBVIOUS
  <2> HIDE DEF ops
  <2> QED
    BY <2>1, <2>2, HoldersStep
<1>3. Inv /\ H /\ ChangesEndOlderTokens => RoleChangeForcesLogin
  BY OldTokensDead DEF RoleChangeForcesLogin
<1> HIDE DEF H
<1> QED
  BY <1>1, <1>2, <1>3, Invariance, ChangesFinal, PTL DEF Spec, LookupsSucceed

=============================================================================
