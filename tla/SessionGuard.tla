---------------------------- MODULE SessionGuard ----------------------------
(***************************************************************************)
(* Signed sessions and their revocation.  The server signs a JWT at login  *)
(* and keeps no record of it that decides anything: what ends a session    *)
(* early is one Redis key per user, the revocation marker, holding the     *)
(* second of the last revocation.  A token is accepted while it has not    *)
(* expired and was issued strictly after the marker                        *)
(* (src/src/middleware/session_guard.rs).  Every handler that changes what *)
(* a token stands for (password, roles, menus, the account, the tenant)    *)
(* commits its change in Postgres and calls revoke_user, and nothing makes *)
(* the two atomic: handlers, logins and the clock interleave at every      *)
(* await, and a handler may fail between any two of them.                  *)
(*                                                                         *)
(* One tenant, one role in it, one clock shared by the application servers *)
(* and Redis.  The operators of the tenant are not among Users.            *)
(***************************************************************************)
EXTENDS Integers, FiniteSets

CONSTANTS
    Users,          \* accounts of the tenant
    Logins,         \* login requests, each served once
    Requests,       \* requests that revoke sessions, each served once
    NoUser,         \* no user
    TokenLifetime,  \* jwt.expiration, the decoder's leeway included, in ticks
    RevocationTTL,  \* REVOCATION_TTL_SECS, in ticks
    MaxClock,       \* bound on the clock
    MaxChanges      \* bound on the number of changes

ASSUME TimesAssumption ==
    /\ TokenLifetime \in Nat
    /\ RevocationTTL \in Nat
    /\ RevocationTTL > TokenLifetime

ASSUME UsersAssumption == NoUser \notin Users

ASSUME BoundsAssumption == MaxClock \in Nat /\ MaxChanges \in Nat

VARIABLES
    clock,      \* the current second
    marker,     \* Redis: user -> second of the revocation, second the key expires
    tokens,     \* every JWT signed so far
    accounts,   \* rows of the users table
    members,    \* rows of users_roles: the accounts that hold the role
    tenant,     \* status of the tenant row
    changes,    \* number of committed changes of passwords, accounts, grants
    login,      \* local state of each login request
    request,    \* local state of each revoking request
    revokedAt,  \* history: latest second whose revocation of the user completed
    settled     \* history: latest change a completed revocation of the user followed

vars == << clock, marker, tokens, accounts, members, tenant, changes, login,
           request, revokedAt, settled >>

store == << accounts, members, tenant, changes >>
history == << revokedAt, settled >>

Later(a, b) == IF a < b THEN b ELSE a

-----------------------------------------------------------------------------
(* The guard: what the middleware decides from a token and the marker.     *)

\* The marker a user has before the first revocation: no key at all.
NoMarker == [at |-> 0, exp |-> 0]

MarkerPresent(u) == clock < marker[u].exp

\* `born` and `seen` are histories: the changes committed when the token was
\* signed, and when the login had read the roles and menus it carries.
Token == [user : Users, iat : Nat, born : Nat, seen : Nat]

\* is_session_valid: no marker, or issued strictly after it.
IsSessionValid(t) ==
    ~MarkerPresent(t.user) \/ t.iat > marker[t.user].at

\* The extractor checks the expiry, the middleware the marker.
Accepted(t) == clock <= t.iat + TokenLifetime /\ IsSessionValid(t)

\* A completed revocation left the marker behind a later completed one.
Regressed(u) == marker[u].at < revokedAt[u]

-----------------------------------------------------------------------------
(* Local states of the requests.                                           *)

Stages == {"idle", "menus", "lookup", "users", "revoking", "stamped", "done"}
Operations == {"none", "revoke", "role", "menu", "menuRemove", "disable", "delete"}
TenantOps == {"disable", "delete"}

LoginState ==
    [ pc : {"idle", "checked", "verified", "loaded", "done"},
      user : Users \cup {NoUser}, seen : Nat ]

NoLogin == [pc |-> "idle", user |-> NoUser, seen |-> 0]
LoginDone == [NoLogin EXCEPT !.pc = "done"]

\* todo: users whose sessions are still to be revoked; holders: the users the
\* change is about; user, now: revoke_user in progress; since: when a
\* tenant request read the tenant as enabled (0: it did not); target: the
\* change the revocation follows (0: none was committed before it).
RequestState ==
    [ pc : Stages, op : Operations, todo : SUBSET Users, holders : SUBSET Users,
      user : Users \cup {NoUser}, now : Nat, since : Nat, target : Nat ]

Fresh ==
    [ pc |-> "idle", op |-> "none", todo |-> {}, holders |-> {}, user |-> NoUser,
      now |-> 0, since |-> 0, target |-> 0 ]

Done == [Fresh EXCEPT !.pc = "done"]

Idle(r) == request[r].pc = "idle"
Served(r) == request[r].pc \notin {"idle", "done"}
Becomes(r, state) == request' = [request EXCEPT ![r] = state]
Commit == changes < MaxChanges /\ changes' = changes + 1
At(r, stage, op) == request[r].pc = stage /\ request[r].op = op

TypeOK ==
    /\ clock \in Nat \ {0}
    /\ marker \in [Users -> [at : Nat, exp : Nat]]
    /\ tokens \subseteq Token
    /\ accounts \subseteq Users
    /\ members \subseteq Users
    /\ tenant \in {"enabled", "disabled", "deleted"}
    /\ changes \in Nat
    /\ login \in [Logins -> LoginState]
    /\ \A l \in Logins : login[l].pc \in {"verified", "loaded"} => login[l].user \in Users
    /\ request \in [Requests -> RequestState]
    /\ revokedAt \in [Users -> Nat]
    /\ settled \in [Users -> Nat]

Init ==
    /\ clock = 1
    /\ marker = [u \in Users |-> NoMarker]
    /\ tokens = {}
    /\ accounts = Users
    /\ members \in SUBSET Users
    /\ tenant = "enabled"
    /\ changes = 0
    /\ login = [l \in Logins |-> NoLogin]
    /\ request = [r \in Requests |-> Fresh]
    /\ revokedAt = [u \in Users |-> 0]
    /\ settled = [u \in Users |-> 0]

-----------------------------------------------------------------------------
(* Time, and a login (auth.rs): tenant check, user row and password, roles *)
(* and menus, signature.  Each read is a query of its own.                 *)

Tick ==
    /\ clock < MaxClock
    /\ clock' = clock + 1
    /\ UNCHANGED << marker, tokens, login, request, store, history >>

\* A tenant that is disabled is refused (LoginGivesUp), unless the query for it fails:
\* `if let Ok` takes that for an enabled one.  So the check guards nothing for sure.
LoginCheckTenant(l) ==
    /\ login[l].pc = "idle"
    /\ login' = [login EXCEPT ![l] = [@ EXCEPT !.pc = "checked"]]
    /\ UNCHANGED << clock, marker, tokens, request, store, history >>

LoginVerify(l, u) ==
    /\ login[l].pc = "checked"
    /\ u \in accounts
    /\ login' = [login EXCEPT ![l] = [@ EXCEPT !.pc = "verified", !.user = u]]
    /\ UNCHANGED << clock, marker, tokens, request, store, history >>

\* get_roles: the first of the queries for what the token carries.  Those of
\* get_menu_permissions follow before the signature and find what is at least as new.
LoginLoad(l) ==
    /\ login[l].pc = "verified"
    /\ login' = [login EXCEPT ![l] = [@ EXCEPT !.pc = "loaded", !.seen = changes]]
    /\ UNCHANGED << clock, marker, tokens, request, store, history >>

\* The claims are stamped with the second of the signature, not of the reads.
LoginSign(l) ==
    /\ login[l].pc = "loaded"
    /\ tokens' = tokens \cup
          {[ user |-> login[l].user, iat |-> clock,
             born |-> changes, seen |-> login[l].seen ]}
    /\ login' = [login EXCEPT ![l] = LoginDone]
    /\ UNCHANGED << clock, marker, request, store, history >>

\* Refused (wrong password, tenant disabled), failed, or dropped by the client.
LoginGivesUp(l) ==
    /\ login[l].pc \notin {"idle", "done"}
    /\ login' = [login EXCEPT ![l] = LoginDone]
    /\ UNCHANGED << clock, marker, tokens, request, store, history >>

-----------------------------------------------------------------------------
(* revoke_user, and the loops around it: read the clock, write the marker. *)

\* Mutant: spares a login of the same second by backdating the revocation.
RevokeStamp_Backdated(r, u) ==
    /\ request[r].pc = "revoking"
    /\ u \in request[r].todo
    /\ Becomes(r, [request[r] EXCEPT !.pc = "stamped", !.user = u, !.now = clock - 1])
    /\ UNCHANGED << clock, marker, tokens, login, store, history >>

\* The users come from a query without ORDER BY: any order.
RevokeStamp(r, u) ==
    /\ request[r].pc = "revoking"
    /\ u \in request[r].todo
    /\ Becomes(r, [request[r] EXCEPT !.pc = "stamped", !.user = u, !.now = clock])
    /\ UNCHANGED << clock, marker, tokens, login, store, history >>

\* Mutant: the second key write keeps the expiry of the first.
RevokeStore_KeepExpiry(r) ==
    LET u == request[r].user IN
    /\ request[r].pc = "stamped"
    /\ marker' = [marker EXCEPT ![u] =
                     [ at |-> request[r].now,
                       exp |-> IF MarkerPresent(u) THEN @.exp ELSE clock + RevocationTTL ]]
    /\ revokedAt' = [revokedAt EXCEPT ![u] = Later(@, request[r].now)]
    /\ settled' = [settled EXCEPT ![u] = Later(@, request[r].target)]
    /\ Becomes(r, [request[r] EXCEPT !.pc = "revoking", !.user = NoUser, !.now = 0,
                                     !.todo = @ \ {u}])
    /\ UNCHANGED << clock, tokens, login, store >>

\* Mutant: the error of the key write is dropped.
RevokeStore_DropsError(r) ==
    LET u == request[r].user IN
    /\ request[r].pc = "stamped"
    /\ \/ /\ marker' = [marker EXCEPT ![u] =
                            [at |-> request[r].now, exp |-> clock + RevocationTTL]]
          /\ revokedAt' = [revokedAt EXCEPT ![u] = Later(@, request[r].now)]
          /\ settled' = [settled EXCEPT ![u] = Later(@, request[r].target)]
       \/ UNCHANGED << marker, revokedAt, settled >>
    /\ Becomes(r, [request[r] EXCEPT !.pc = "revoking", !.user = NoUser, !.now = 0,
                                     !.todo = @ \ {u}])
    /\ UNCHANGED << clock, tokens, login, store >>

\* SET_EX: whatever marker was there is replaced, and so is its expiry.
RevokeStore(r) ==
    LET u == request[r].user IN
    /\ request[r].pc = "stamped"
    /\ marker' = [marker EXCEPT ![u] =
                     [at |-> request[r].now, exp |-> clock + RevocationTTL]]
    /\ revokedAt' = [revokedAt EXCEPT ![u] = Later(@, request[r].now)]
    /\ settled' = [settled EXCEPT ![u] = Later(@, request[r].target)]
    /\ Becomes(r, [request[r] EXCEPT !.pc = "revoking", !.user = NoUser, !.now = 0,
                                     !.todo = @ \ {u}])
    /\ UNCHANGED << clock, tokens, login, store >>

\* The handler returns once its loop is over.
Respond(r) ==
    /\ request[r].pc = "revoking"
    /\ request[r].todo = {}
    /\ request[r].op \in {"revoke", "role", "menu"}
    /\ Becomes(r, Done)
    /\ UNCHANGED << clock, marker, tokens, login, store, history >>

\* A query or Redis fails and `?` returns the error, the client drops the
\* connection, or the server stops: what was committed stays committed.
Abort(r) ==
    /\ Served(r)
    /\ Becomes(r, Done)
    /\ UNCHANGED << clock, marker, tokens, login, store, history >>

-----------------------------------------------------------------------------
(* Handlers that revoke one user.                                          *)

StartRevoking(r, u, change) ==
    Becomes(r, [Fresh EXCEPT !.pc = "revoking", !.op = "revoke",
                             !.todo = {u}, !.holders = {u}, !.target = change])

\* The caller's own token passed the middleware, maybe before it was revoked.
Logout(r, u) ==
    /\ Idle(r)
    /\ \E t \in tokens : t.user = u
    /\ StartRevoking(r, u, 0)
    /\ UNCHANGED << clock, marker, tokens, login, store, history >>

\* The session row that names the user was written by a login.
ForceLogout(r, u) ==
    /\ Idle(r)
    /\ \E t \in tokens : t.user = u
    /\ StartRevoking(r, u, 0)
    /\ UNCHANGED << clock, marker, tokens, login, store, history >>

\* A reset by mail: the hash is committed, then revoke_user.  The tenant was not
\* disabled when the request asked, earlier than it commits: no guard is left.
ResetPassword(r, u) ==
    /\ Idle(r)
    /\ u \in accounts
    /\ Commit
    /\ StartRevoking(r, u, changes')
    /\ UNCHANGED << clock, marker, tokens, accounts, members, tenant, login, history >>

\* The user's own change of password, with a token that passed the middleware.
ChangePassword(r, u) ==
    /\ Idle(r)
    /\ u \in accounts
    /\ \E t \in tokens : t.user = u
    /\ Commit
    /\ StartRevoking(r, u, changes')
    /\ UNCHANGED << clock, marker, tokens, accounts, members, tenant, login, history >>

\* An edit of password or roles by an administrator of the tenant.
UpdateUser(r, u) ==
    /\ Idle(r)
    /\ u \in accounts
    /\ Commit
    /\ members' \in {members, members \cup {u}, members \ {u}}
    /\ StartRevoking(r, u, changes')
    /\ UNCHANGED << clock, marker, tokens, accounts, tenant, login, history >>

\* The row goes with its role assignments, in one transaction.
RemoveUser(r, u) ==
    /\ Idle(r)
    /\ u \in accounts
    /\ Commit
    /\ accounts' = accounts \ {u}
    /\ members' = members \ {u}
    /\ StartRevoking(r, u, changes')
    /\ UNCHANGED << clock, marker, tokens, tenant, login, history >>

-----------------------------------------------------------------------------
(* Handlers that revoke the users behind a role or a menu.                 *)

\* The role row and its menus are two transactions, the second optional.  Only
\* the edits that revoke: a data scope is in no token.
UpdateRole(r) ==
    /\ Idle(r)
    /\ tenant # "deleted"
    /\ Commit
    /\ \E next \in {"menus", "lookup"} :
          Becomes(r, [Fresh EXCEPT !.pc = next, !.op = "role", !.target = changes'])
    /\ UNCHANGED << clock, marker, tokens, accounts, members, tenant, login, history >>

SetMenus(r) ==
    /\ request[r].pc = "menus"
    /\ Commit
    /\ Becomes(r, [request[r] EXCEPT !.pc = "lookup", !.target = changes'])
    /\ UNCHANGED << clock, marker, tokens, accounts, members, tenant, login, history >>

\* The ids of the holders.  unwrap_or_default turns a failed query into "nobody holds
\* the role", and there is nobody to look up.
LookupRole(r) ==
    /\ At(r, "lookup", "role")
    /\ \E found \in {members, {}} :
          Becomes(r, [request[r] EXCEPT !.pc = IF found = {} THEN "revoking" ELSE "users",
                                        !.todo = found, !.holders = members])
    /\ UNCHANGED << clock, marker, tokens, login, store, history >>

\* The menu's row is committed before the lookup of those who reference it.
\* Only the edits of the columns that permissions are made from: others revoke
\* nobody.
UpdateMenu(r) ==
    /\ Idle(r)
    /\ tenant # "deleted"
    /\ Commit
    /\ Becomes(r, [Fresh EXCEPT !.pc = "lookup", !.op = "menu", !.target = changes'])
    /\ UNCHANGED << clock, marker, tokens, accounts, members, tenant, login, history >>

RemoveMenu(r) ==
    /\ Idle(r)
    /\ tenant # "deleted"
    /\ Becomes(r, [Fresh EXCEPT !.pc = "lookup", !.op = "menuRemove"])
    /\ UNCHANGED << clock, marker, tokens, login, store, history >>

\* The ids of those who hold the role, which references the menu.  A failed query is an
\* error here: see Abort.
LookupMenu(r) ==
    /\ request[r].pc = "lookup"
    /\ request[r].op \in {"menu", "menuRemove"}
    /\ Becomes(r, [request[r] EXCEPT !.pc = "users", !.todo = members,
                                     !.holders = members])
    /\ UNCHANGED << clock, marker, tokens, login, store, history >>

\* A second query finds the rows of these ids, or what is left of them.  The role's drops
\* its error like the first, the menu's does not.
LookupUsers(r) ==
    /\ request[r].pc = "users"
    /\ request[r].op \notin TenantOps
    /\ \E found \in {request[r].todo \cap accounts, {}} :
          /\ request[r].op # "role" => found = request[r].todo \cap accounts
          /\ Becomes(r, [request[r] EXCEPT !.pc = "revoking", !.todo = found,
                                           !.holders = @ \cap accounts])
    /\ UNCHANGED << clock, marker, tokens, login, store, history >>

\* The row is deleted after its users have been revoked.
DeleteMenu(r) ==
    /\ At(r, "revoking", "menuRemove")
    /\ request[r].todo = {}
    /\ Commit
    /\ Becomes(r, Done)
    /\ UNCHANGED << clock, marker, tokens, accounts, members, tenant, login, history >>

-----------------------------------------------------------------------------
(* Handlers that end a tenant: revoke everybody first, then persist.       *)

\* The revocation loop runs only if the row read was enabled.
DisableTenant(r) ==
    /\ Idle(r)
    /\ tenant # "deleted"
    /\ Becomes(r, IF tenant = "enabled"
                  THEN [Fresh EXCEPT !.pc = "lookup", !.op = "disable", !.since = clock]
                  ELSE [Fresh EXCEPT !.pc = "revoking", !.op = "disable"])
    /\ UNCHANGED << clock, marker, tokens, login, store, history >>

DeleteTenant(r) ==
    /\ Idle(r)
    /\ tenant # "deleted"
    /\ Becomes(r, [Fresh EXCEPT !.pc = "lookup", !.op = "delete", !.since = clock])
    /\ UNCHANGED << clock, marker, tokens, login, store, history >>

\* revoke_users_in_tenant reads all users of the tenant.
LookupTenant(r) ==
    /\ request[r].pc = "lookup"
    /\ request[r].op \in TenantOps
    /\ Becomes(r, [request[r] EXCEPT !.pc = "revoking", !.todo = accounts])
    /\ UNCHANGED << clock, marker, tokens, login, store, history >>

\* Mutant: the status is saved while users are still to be revoked.
PersistDisabled_TooEarly(r) ==
    /\ At(r, "revoking", "disable")
    /\ tenant # "deleted"
    /\ tenant' = "disabled"
    /\ Becomes(r, Done)
    /\ UNCHANGED << clock, marker, tokens, accounts, members, changes, login, history >>

\* An update of a row that has gone is an error: see Abort.
PersistDisabled(r) ==
    /\ At(r, "revoking", "disable")
    /\ request[r].todo = {}
    /\ tenant # "deleted"
    /\ tenant' = "disabled"
    /\ Becomes(r, Done)
    /\ UNCHANGED << clock, marker, tokens, accounts, members, changes, login, history >>

\* Every row that carries the tenant's code, in one transaction.
PersistDeleted(r) ==
    /\ At(r, "revoking", "delete")
    /\ request[r].todo = {}
    /\ tenant # "deleted"
    /\ tenant' = "deleted"
    /\ accounts' = {}
    /\ members' = {}
    /\ Becomes(r, Done)
    /\ UNCHANGED << clock, marker, tokens, changes, login, history >>

\* Mutant: the status is not validated.
EnableTenant_AnyStatus ==
    /\ tenant = "disabled"
    /\ tenant' \in {"enabled", "suspended"}
    /\ UNCHANGED << clock, marker, tokens, accounts, members, changes, login, request,
                    history >>

EnableTenant ==
    /\ tenant = "disabled"
    /\ tenant' = "enabled"
    /\ UNCHANGED << clock, marker, tokens, accounts, members, changes, login, request,
                    history >>

-----------------------------------------------------------------------------
LoginNext(l) ==
    \/ LoginCheckTenant(l)
    \/ \E u \in Users : LoginVerify(l, u)
    \/ LoginLoad(l)
    \/ LoginSign(l)
    \/ LoginGivesUp(l)

UserRequest(r, u) ==
    \/ Logout(r, u)
    \/ ForceLogout(r, u)
    \/ ResetPassword(r, u)
    \/ ChangePassword(r, u)
    \/ UpdateUser(r, u)
    \/ RemoveUser(r, u)

GrantRequest(r) ==
    \/ UpdateRole(r)
    \/ SetMenus(r)
    \/ LookupRole(r)
    \/ UpdateMenu(r)
    \/ RemoveMenu(r)
    \/ LookupMenu(r)
    \/ LookupUsers(r)
    \/ DeleteMenu(r)

TenantRequest(r) ==
    \/ DisableTenant(r)
    \/ DeleteTenant(r)
    \/ LookupTenant(r)
    \/ PersistDisabled(r)
    \/ PersistDeleted(r)

Revocation(r) ==
    \/ \E u \in Users : RevokeStamp(r, u)
    \/ RevokeStore(r)
    \/ Respond(r)
    \/ Abort(r)

Next ==
    \/ Tick
    \/ EnableTenant
    \/ \E l \in Logins : LoginNext(l)
    \/ \E r \in Requests :
          \/ \E u \in Users : UserRequest(r, u)
          \/ GrantRequest(r)
          \/ TenantRequest(r)
          \/ Revocation(r)

Spec == Init /\ [][Next]_vars

-----------------------------------------------------------------------------
(* What must hold.                                                         *)

\* A revocation is final: once a revocation of a user has completed, no token
\* of theirs issued up to that second is ever accepted again, neither because
\* the marker expired before the token nor because of a later revocation,
\* unless an earlier clock reading was written over a later one.
RevocationIsFinal ==
    \A t \in tokens :
        Accepted(t) /\ t.iat <= revokedAt[t.user] => Regressed(t.user)

\* Commit first, revoke second: once the revocation that follows a change of a
\* user's password, roles or account has completed, no token signed before
\* that change was committed is accepted (same exception).
ChangesEndOlderTokens ==
    \A t \in tokens :
        Accepted(t) /\ t.born < settled[t.user] => Regressed(t.user)

\* A request with nobody left to revoke is about to report success: no token signed
\* before its change, of the users the change is about, is accepted (same exception).
OldTokensEnded(r) ==
    request[r].pc = "revoking" /\ request[r].todo = {} =>
        \A t \in tokens :
            t.user \in request[r].holders /\ Accepted(t) /\ t.born < request[r].target
                => Regressed(t.user)

\* A change of a user, a password or a menu that could not be followed by its revocation
\* is not reported as a success: each `revoke_user(..).await?` after a commit returns the
\* error (auth.rs:210, profile.rs:119, users.rs:420 and 445, menus.rs:159).
SuccessEndsTokens ==
    \A r \in Requests : request[r].op \in {"revoke", "menu"} => OldTokensEnded(r)

\* Revoke first, persist second: at the step that disables or deletes a tenant
\* whose row was read as enabled, the tokens issued before that reading to
\* accounts that are still there are rejected (same exception).
Ending(r) == Served(r) /\ request'[r] = Done /\ tenant' # tenant /\ tenant' # "enabled"

TenantEndRevokesFirst ==
    [][ \A r \in Requests : Ending(r) =>
          \A t \in tokens :
             t.user \in accounts /\ t.iat <= request[r].since /\ Accepted(t)
                => Regressed(t.user) ]_vars

-----------------------------------------------------------------------------
(* What the comments of the code promise and the code does not keep.       *)

\* session_guard.rs: any JWT issued before the revocation time is rejected.
RevokedTokensRejected ==
    \A t \in tokens : t.iat <= revokedAt[t.user] => ~Accepted(t)

\* users.rs: no user keeps the permissions of before a role change.
NoStaleGrants ==
    \A t \in tokens :
        Accepted(t) /\ t.seen < settled[t.user] => Regressed(t.user)

\* roles.rs: a role change forces every holder of the role to log in again, who is
\* found to have an account still.
RoleChangeForcesLogin == \A r \in Requests : request[r].op = "role" => OldTokensEnded(r)

=============================================================================
