---------------------------- MODULE OneTimeLinks ----------------------------
(***************************************************************************)
(* The links an account is sent by mail: to verify its address, to reset   *)
(* its password, to log in without one.  Each kind has a token column and  *)
(* a time; an issue overwrites both, a redemption finds the account by the *)
(* token and clears the column by the account's id in a later statement.   *)
(* Only one account and one kind are looked at: kinds write other columns, *)
(* and an update writes only the columns that were set.                    *)
(***************************************************************************)
EXTENDS Integers, FiniteSets

CONSTANTS
    LinkKinds,    \* subset of {"verify", "reset", "magic"}
    Mailers,      \* requests that issue a link
    Visitors,     \* requests that redeem one
    LinkLife,     \* ticks a link is valid: 24 hours, 30 or 5 minutes
    MaxTicks      \* bound on the clock

ASSUME KindsAssumption == LinkKinds \subseteq {"verify", "reset", "magic"}
ASSUME LifeAssumption == LinkLife \in Nat
ASSUME TicksAssumption == MaxTicks \in Nat

VARIABLES
    kind,       \* the kind of link this is about
    token,      \* the column: the link in force, or 0
    validTo,    \* until when it is valid
    verified,   \* email_verified_at is set
    linkClock,  \* time
    mailer,     \* local state of each issuing request
    visitor,    \* local state of each redeeming request
    issued,     \* history: how many links were stored, which numbers them
    mailed,     \* history: links that were sent
    spent,      \* history: links that a redemption has used
    outrun      \* history: links cleared by a redemption that had found an older one
                \* before they were stored

linkVars == << kind, token, validTo, verified, linkClock, mailer, visitor, issued, mailed,
               spent, outrun >>

\* There is no link 0; the column is NULL.
NoLink == 0

\* seen: email_verified_at in the row that was loaded; after: links stored by then.
VisitorState == [pc : {"idle", "found", "done"}, link : Nat, seen : BOOLEAN, after : Nat]
NewVisitor == [pc |-> "idle", link |-> NoLink, seen |-> FALSE, after |-> 0]
MailerState == [pc : {"idle", "found", "stored", "done"}, link : Nat]
NewMailer == [pc |-> "idle", link |-> NoLink]

LinkTypeOK ==
    /\ kind \in LinkKinds
    /\ issued \in Nat
    /\ token \in 0 .. issued
    /\ validTo \in Nat
    /\ verified \in BOOLEAN
    /\ linkClock \in Nat
    /\ mailer \in [Mailers -> MailerState]
    /\ visitor \in [Visitors -> VisitorState]
    /\ mailed \subseteq 1 .. issued
    /\ spent \subseteq 1 .. issued
    /\ outrun \subseteq 1 .. issued

LinkInit ==
    /\ kind \in LinkKinds
    /\ token = NoLink
    /\ validTo = 0
    /\ verified = FALSE
    /\ linkClock = 0
    /\ mailer = [m \in Mailers |-> NewMailer]
    /\ visitor = [v \in Visitors |-> NewVisitor]
    /\ issued = 0
    /\ mailed = {}
    /\ spent = {}
    /\ outrun = {}

-----------------------------------------------------------------------------
(* Issuing.                                                                *)

MailerBecomes(m, state) == mailer' = [mailer EXCEPT ![m] = state]
ColumnsUnchanged == UNCHANGED << token, validTo, verified >>

\* forgot, magic_link, resend_verification_email: the account is found by its
\* address; a verified one is sent no verification again.
FindAccount(m) ==
    /\ mailer[m].pc = "idle"
    /\ kind = "verify" => ~verified
    /\ MailerBecomes(m, [NewMailer EXCEPT !.pc = "found"])
    /\ ColumnsUnchanged
    /\ UNCHANGED << kind, linkClock, visitor, issued, mailed, spent, outrun >>

\* Mutant: a new token is mailed, and the one in the column stays.
StoreLink_KeepsOld(m) ==
    /\ mailer[m].pc = "found"
    /\ issued' = issued + 1
    /\ token' = IF token = NoLink THEN issued + 1 ELSE token
    /\ validTo' = linkClock + LinkLife
    /\ MailerBecomes(m, [pc |-> "stored", link |-> issued + 1])
    /\ UNCHANGED << kind, verified, linkClock, visitor, mailed, spent, outrun >>

\* set_forgot_password_sent, create_magic_link, set_email_verification_sent: a new
\* token takes the place of whatever is in the column.
StoreLink(m) ==
    /\ mailer[m].pc = "found"
    /\ issued' = issued + 1
    /\ token' = issued + 1
    /\ validTo' = linkClock + LinkLife
    /\ MailerBecomes(m, [pc |-> "stored", link |-> issued + 1])
    /\ UNCHANGED << kind, verified, linkClock, visitor, mailed, spent, outrun >>

MailLink(m) ==
    /\ mailer[m].pc = "stored"
    /\ mailed' = mailed \cup {mailer[m].link}
    /\ MailerBecomes(m, [mailer[m] EXCEPT !.pc = "done"])
    /\ ColumnsUnchanged
    /\ UNCHANGED << kind, linkClock, visitor, issued, spent, outrun >>

-----------------------------------------------------------------------------
(* Redeeming.                                                              *)

VisitorBecomes(v, state) == visitor' = [visitor EXCEPT ![v] = state]

\* find_by_reset_token and its like: the row with this token, if it has not expired.
Finds(link) == token = link /\ linkClock <= validTo

FindByToken(v, link) ==
    /\ visitor[v].pc = "idle"
    /\ Finds(link)
    /\ VisitorBecomes(v, [pc |-> "found", link |-> link, seen |-> verified, after |-> issued])
    /\ ColumnsUnchanged
    /\ UNCHANGED << kind, linkClock, mailer, issued, mailed, spent, outrun >>

NotFound(v, link) ==
    /\ visitor[v].pc = "idle"
    /\ ~Finds(link)
    /\ VisitorBecomes(v, [NewVisitor EXCEPT !.pc = "done"])
    /\ ColumnsUnchanged
    /\ UNCHANGED << kind, linkClock, mailer, issued, mailed, spent, outrun >>

\* Mutant: the token stays in the column.
Redeem_KeepsToken(v) ==
    /\ visitor[v].pc = "found"
    /\ spent' = spent \cup {visitor[v].link}
    /\ verified' = (verified \/ kind = "verify")
    /\ VisitorBecomes(v, [NewVisitor EXCEPT !.pc = "done"])
    /\ UNCHANGED << kind, token, validTo, linkClock, mailer, issued, mailed, outrun >>

\* reset_password, clear_magic_link, verified: one update by the id of the account, so
\* that the link in the column is cleared, whichever it is.  An address that was
\* verified when the account was found is left alone.
Redeem(v) ==
    LET s == visitor[v] IN
    /\ s.pc = "found"
    /\ IF kind = "verify" /\ s.seen
       THEN UNCHANGED << token, verified, spent, outrun >>
       ELSE /\ token' = NoLink
            /\ spent' = spent \cup {s.link}
            /\ verified' = (verified \/ kind = "verify")
            /\ outrun' = IF token > s.after THEN outrun \cup {token} ELSE outrun
    /\ VisitorBecomes(v, [NewVisitor EXCEPT !.pc = "done"])
    /\ UNCHANGED << kind, validTo, linkClock, mailer, issued, mailed >>

-----------------------------------------------------------------------------

\* A disabled tenant, a weak password, a query or a mail that fails, a process that stops.
LinkRequestFails ==
    /\ \/ \E m \in Mailers : mailer[m].pc \in {"found", "stored"}
             /\ MailerBecomes(m, [mailer[m] EXCEPT !.pc = "done"]) /\ UNCHANGED visitor
       \/ \E v \in Visitors : visitor[v].pc = "found"
             /\ VisitorBecomes(v, [NewVisitor EXCEPT !.pc = "done"]) /\ UNCHANGED mailer
    /\ ColumnsUnchanged
    /\ UNCHANGED << kind, linkClock, issued, mailed, spent, outrun >>

LinkTick ==
    /\ linkClock < MaxTicks
    /\ linkClock' = linkClock + 1
    /\ ColumnsUnchanged
    /\ UNCHANGED << kind, mailer, visitor, issued, mailed, spent, outrun >>

LinkNext ==
    \/ \E m \in Mailers : FindAccount(m) \/ StoreLink(m) \/ MailLink(m)
    \/ \E v \in Visitors :
          \/ \E link \in mailed : FindByToken(v, link) \/ NotFound(v, link)
          \/ Redeem(v)
    \/ LinkRequestFails
    \/ LinkTick

LinkSpec == LinkInit /\ [][LinkNext]_linkVars

-----------------------------------------------------------------------------
(* Properties.                                                             *)

\* Once a redemption has used a link, no request finds the account by it again:
\* two uses of one link must have overlapped (controllers/auth.rs:448-461).
SpentLinksAreDead == \A link \in spent : ~Finds(link)

\* A link that was mailed is in force (until it expires) unless a newer one was stored,
\* it was used, or an older link's redemption that found the account before it was stored
\* cleared the column after (controllers/auth.rs:461).
MailedLinksWork ==
    \A link \in mailed \ (spent \cup outrun) :
        token = link \/ link < issued
=============================================================================
