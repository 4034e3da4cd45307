----------------------------- MODULE SessionRows -----------------------------
(***************************************************************************)
(* The rows of user_sessions beside the tokens they stand for.  A login    *)
(* signs a token and then inserts a row, whose failure is ignored; a       *)
(* logout deletes the user's rows and then revokes the user, a forced one  *)
(* finds a row, deletes it and revokes its user; a task deletes old rows.  *)
(* The rows are all an administrator sees of who is logged in.             *)
(*                                                                         *)
(* One user of one tenant.  A revocation reads the clock and then replaces *)
(* the marker, as in SessionGuard; that the key outlives every token is    *)
(* SessionGuard's subject, so that here it does not expire.                *)
(***************************************************************************)
EXTENDS Integers, FiniteSets

CONSTANTS
    Sessions,     \* logins of the user, each with its token and its row
    Enders,       \* requests that revoke the user's sessions
    RowLife,      \* ticks until expires_at: 24 hours
    TokenLife,    \* ticks a token lives
    MaxClock      \* bound on the clock

ASSUME LivesAssumption == RowLife \in Nat /\ TokenLife \in Nat

VARIABLES
    sessionClock,  \* time
    signed,        \* iat of each session's token
    expiresAt,     \* rows of user_sessions with their expires_at
    stage,         \* how far each login is
    revokedTo,     \* the second in the user's marker
    ender,         \* local state of each request that revokes
    dropped,       \* history: sessions whose row a logout deleted before it failed
    undone         \* history: sessions that a marker covered, and one of an earlier
                   \* second that replaced it did not

sessionVars ==
    << sessionClock, signed, expiresAt, stage, revokedTo, ender, dropped, undone >>

Never == -1

\* deleted: the rows this request has deleted; now: the second it has read.
EnderState == [ pc : {"idle", "delete", "revoke", "stamped", "done"},
                row : SUBSET Sessions, deleted : SUBSET Sessions, now : Nat ]
IdleEnder == [pc |-> "idle", row |-> {}, deleted |-> {}, now |-> 0]
EnderDone == [IdleEnder EXCEPT !.pc = "done"]

SessionTypeOK ==
    /\ sessionClock \in Nat
    /\ signed \in [Sessions -> Nat \cup {Never}]
    /\ expiresAt \in [Sessions -> Nat \cup {Never}]
    /\ stage \in [Sessions -> {"new", "signed", "done", "unlisted"}]
    /\ revokedTo \in Nat \cup {Never}
    /\ ender \in [Enders -> EnderState]
    /\ dropped \subseteq Sessions
    /\ undone \subseteq Sessions

SessionInit ==
    /\ sessionClock = 0
    /\ signed = [s \in Sessions |-> Never]
    /\ expiresAt = [s \in Sessions |-> Never]
    /\ stage = [s \in Sessions |-> "new"]
    /\ revokedTo = Never
    /\ ender = [e \in Enders |-> IdleEnder]
    /\ dropped = {}
    /\ undone = {}

Rows == {s \in Sessions : expiresAt[s] # Never}
Accepts(s) ==
    signed[s] # Never /\ sessionClock <= signed[s] + TokenLife /\ signed[s] > revokedTo
Covered(second) == {s \in Sessions : signed[s] # Never /\ signed[s] <= second}

-----------------------------------------------------------------------------

SignIn(s) ==
    /\ stage[s] = "new"
    /\ signed' = [signed EXCEPT ![s] = sessionClock]
    /\ stage' = [stage EXCEPT ![s] = "signed"]
    /\ UNCHANGED << sessionClock, expiresAt, revokedTo, ender, dropped, undone >>

\* create_session; the login goes on when the insert fails.
InsertRow(s) ==
    /\ stage[s] = "signed"
    /\ \/ /\ expiresAt' = [expiresAt EXCEPT ![s] = sessionClock + RowLife]
          /\ stage' = [stage EXCEPT ![s] = "done"]
       \/ stage' = [stage EXCEPT ![s] = "unlisted"] /\ UNCHANGED expiresAt
    /\ UNCHANGED << sessionClock, signed, revokedTo, ender, dropped, undone >>

DeleteRows(rows) == expiresAt' = [s \in Sessions |-> IF s \in rows THEN Never ELSE expiresAt[s]]
EnderBecomes(e, state) == ender' = [ender EXCEPT ![e] = state]

\* logout: one statement for all rows of the user.  The token was checked before.
LogoutDeletes(e) ==
    /\ ender[e].pc = "idle"
    /\ \E s \in Sessions : signed[s] # Never
    /\ DeleteRows(Rows)
    /\ EnderBecomes(e, [IdleEnder EXCEPT !.pc = "revoke", !.deleted = Rows])
    /\ UNCHANGED << sessionClock, signed, stage, revokedTo, dropped, undone >>

\* force_logout_in_tenant: the row is found, and deleted by its id.
FindSession(e, s) ==
    /\ ender[e].pc = "idle"
    /\ s \in Rows
    /\ EnderBecomes(e, [IdleEnder EXCEPT !.pc = "delete", !.row = {s}])
    /\ UNCHANGED << sessionClock, signed, expiresAt, stage, revokedTo, dropped, undone >>

DeleteSession(e) ==
    /\ ender[e].pc = "delete"
    /\ DeleteRows(ender[e].row)
    /\ EnderBecomes(e, [IdleEnder EXCEPT !.pc = "revoke", !.deleted = ender[e].row \cap Rows])
    /\ UNCHANGED << sessionClock, signed, stage, revokedTo, dropped, undone >>

\* A change of the account, its roles or its tenant revokes, and leaves the rows.
RevokeOnly(e) ==
    /\ ender[e].pc = "idle"
    /\ EnderBecomes(e, [IdleEnder EXCEPT !.pc = "revoke"])
    /\ UNCHANGED << sessionClock, signed, expiresAt, stage, revokedTo, dropped, undone >>

\* revoke_user: the clock is read, then the marker is replaced.
RevokeStamp(e) ==
    /\ ender[e].pc = "revoke"
    /\ EnderBecomes(e, [ender[e] EXCEPT !.pc = "stamped", !.now = sessionClock])
    /\ UNCHANGED << sessionClock, signed, expiresAt, stage, revokedTo, dropped, undone >>

\* Mutant: an error of Redis is dropped.
RevokeStore_DropsError(e) ==
    /\ ender[e].pc = "stamped"
    /\ \/ /\ revokedTo' = ender[e].now
          /\ undone' = undone \cup (Covered(revokedTo) \ Covered(ender[e].now))
       \/ UNCHANGED << revokedTo, undone >>
    /\ EnderBecomes(e, EnderDone)
    /\ UNCHANGED << sessionClock, signed, expiresAt, stage, dropped >>

RevokeStore(e) ==
    /\ ender[e].pc = "stamped"
    /\ revokedTo' = ender[e].now
    /\ undone' = undone \cup (Covered(revokedTo) \ Covered(ender[e].now))
    /\ EnderBecomes(e, EnderDone)
    /\ UNCHANGED << sessionClock, signed, expiresAt, stage, dropped >>

EnderFails(e) ==
    /\ ender[e].pc \in {"delete", "revoke", "stamped"}
    /\ dropped' = dropped \cup ender[e].deleted
    /\ EnderBecomes(e, EnderDone)
    /\ UNCHANGED << sessionClock, signed, expiresAt, stage, revokedTo, undone >>

\* cleanup_expired: rows whose expires_at, not their login, is a day ago.
Cleanup ==
    /\ DeleteRows({s \in Rows : expiresAt[s] < sessionClock - RowLife})
    /\ UNCHANGED << sessionClock, signed, stage, revokedTo, ender, dropped, undone >>

SessionTick ==
    /\ sessionClock < MaxClock
    /\ sessionClock' = sessionClock + 1
    /\ UNCHANGED << signed, expiresAt, stage, revokedTo, ender, dropped, undone >>

EnderStep(e) ==
    \/ LogoutDeletes(e)
    \/ \E s \in Sessions : FindSession(e, s)
    \/ DeleteSession(e)
    \/ RevokeOnly(e)
    \/ RevokeStamp(e)
    \/ RevokeStore(e)
    \/ EnderFails(e)

SessionNext ==
    \/ \E s \in Sessions : SignIn(s) \/ InsertRow(s)
    \/ \E e \in Enders : EnderStep(e)
    \/ Cleanup
    \/ SessionTick

SessionSpec == SessionInit /\ [][SessionNext]_sessionVars

-----------------------------------------------------------------------------

\* Who is logged in can be found and logged out (controllers/online_users.rs:53,
\* controllers/auth.rs:360): within the 24 hours that rows are kept
\* (tasks/cleanup_sessions.rs:18) an accepted token has its row, unless the login has not
\* inserted it or could not, a logout that deleted it has not revoked yet, or never did, or
\* a revocation that covered the token was replaced by one that had read an earlier second.
AcceptedAreListed ==
    \A s \in Sessions : Accepts(s) =>
        \/ s \in Rows
        \/ stage[s] # "done"
        \/ sessionClock > signed[s] + RowLife
        \/ s \in dropped
        \/ s \in undone
        \/ \E e \in Enders : s \in ender[e].deleted
=============================================================================
