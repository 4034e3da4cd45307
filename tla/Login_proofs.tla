---------------------------- MODULE Login_proofs ----------------------------
(***************************************************************************)
(* What is around a login: one-time links, for any number of requests, of  *)
(* any kind and for any lifetime; the rows of user_sessions, for any       *)
(* number of logins and logouts; and the counters that limit how often     *)
(* something is tried, for any budget and window.  They share nothing.     *)
(***************************************************************************)
EXTENDS OneTimeLinks, SessionRows, Throttle, FiniteSetTheorems, TLAPS

-----------------------------------------------------------------------------
(* Links.                                                                  *)

\* Whoever found the account by a link found it in the column; what is in the column
\* since then was stored since then.
FoundSound ==
    \A v \in Visitors : visitor[v].pc = "found" =>
        /\ visitor[v].link \in 1 .. visitor[v].after
        /\ visitor[v].after <= issued
        /\ token \in {NoLink, visitor[v].link} \/ token > visitor[v].after

\* The newest link is in the column, used, or cleared by a redemption it did not know.
NewestKept == issued \in {0, token} \cup spent \cup outrun

StoredSound ==
    /\ \A m \in Mailers : mailer[m].link \in 0 .. issued
    /\ \A m \in Mailers : mailer[m].pc = "stored" => mailer[m].link # NoLink
    /\ token \notin spent

LinkInv == LinkTypeOK /\ StoredSound /\ FoundSound /\ NewestKept

LEMMA LinkInvInit == LinkInit => LinkInv
<1> SUFFICES ASSUME LinkInit PROVE LinkInv
  OBVIOUS
<1>1. NewMailer \in MailerState /\ NewVisitor \in VisitorState
  BY DEF NewMailer, NewVisitor, MailerState, VisitorState, NoLink
<1>2. LinkTypeOK
  <2>1. mailer \in [Mailers -> MailerState] /\ visitor \in [Visitors -> VisitorState]
    BY <1>1 DEF LinkInit
  <2>2. token \in 0 .. issued /\ issued \in Nat /\ validTo \in Nat /\ linkClock \in Nat
    BY DEF LinkInit, NoLink
  <2> QED
    BY <2>1, <2>2 DEF LinkInit, LinkTypeOK
<1>3. StoredSound /\ FoundSound /\ NewestKept
  BY DEF LinkInit, StoredSound, FoundSound, NewestKept, NewMailer, NewVisitor, NoLink
<1> QED
  BY <1>2, <1>3 DEF LinkInv

LEMMA LinkInvStep ==
    ASSUME LinkInv, [LinkNext]_linkVars
    PROVE  LinkInv'
<1> USE DEF LinkInv, NoLink
<1>1. CASE UNCHANGED linkVars
  BY <1>1 DEF linkVars, LinkTypeOK, StoredSound, FoundSound, NewestKept
<1>2. ASSUME NEW m \in Mailers, FindAccount(m) PROVE LinkInv'
  BY <1>2 DEF FindAccount, MailerBecomes, NewMailer, MailerState, ColumnsUnchanged,
     LinkTypeOK, StoredSound, FoundSound, NewestKept
<1>3. ASSUME NEW m \in Mailers, StoreLink(m) PROVE LinkInv'
  <2>1. LinkTypeOK'
    BY <1>3, LifeAssumption DEF StoreLink, MailerBecomes, MailerState, LinkTypeOK
  <2>2. StoredSound'
    BY <1>3 DEF StoreLink, MailerBecomes, LinkTypeOK, StoredSound
  <2>3. FoundSound'
    <3>1. \A v \in Visitors : visitor[v] \in VisitorState
      BY DEF LinkTypeOK
    <3> QED
      BY <1>3, <3>1 DEF StoreLink, LinkTypeOK, FoundSound, VisitorState
  <2>4. NewestKept'
    BY <1>3 DEF StoreLink, NewestKept
  <2> QED
    BY <2>1, <2>2, <2>3, <2>4
<1>4. ASSUME NEW m \in Mailers, MailLink(m) PROVE LinkInv'
  <2>1. mailer[m] \in MailerState /\ mailer[m].link \in 1 .. issued
    BY <1>4 DEF MailLink, LinkTypeOK, StoredSound
  <2>2. [mailer[m] EXCEPT !.pc = "done"] \in MailerState
    BY <2>1 DEF MailerState
  <2>3. LinkTypeOK'
    BY <1>4, <2>1, <2>2 DEF MailLink, MailerBecomes, ColumnsUnchanged, LinkTypeOK
  <2> QED
    BY <1>4, <2>3 DEF MailLink, MailerBecomes, ColumnsUnchanged, LinkTypeOK, MailerState,
       StoredSound, FoundSound, NewestKept
<1>5. ASSUME NEW v \in Visitors, NEW link \in mailed, FindByToken(v, link) PROVE LinkInv'
  <2> DEFINE t == [pc |-> "found", link |-> link, seen |-> verified, after |-> issued]
  <2>1. t \in VisitorState /\ link \in 1 .. issued /\ token = link
    BY <1>5 DEF FindByToken, Finds, LinkTypeOK, VisitorState
  <2>2. LinkTypeOK'
    BY <1>5, <2>1 DEF FindByToken, VisitorBecomes, ColumnsUnchanged, LinkTypeOK
  <2>3. FoundSound'
    BY <1>5, <2>1 DEF FindByToken, VisitorBecomes, ColumnsUnchanged, LinkTypeOK, FoundSound
  <2> QED
    BY <1>5, <2>2, <2>3 DEF FindByToken, ColumnsUnchanged, StoredSound, NewestKept
<1>6. ASSUME NEW v \in Visitors, NEW link \in mailed, NotFound(v, link) PROVE LinkInv'
  <2>1. [NewVisitor EXCEPT !.pc = "done"] \in VisitorState
    BY DEF NewVisitor, VisitorState
  <2>2. [NewVisitor EXCEPT !.pc = "done"].pc # "found"
    BY DEF NewVisitor
  <2> QED
    BY <1>6, <2>1, <2>2 DEF NotFound, VisitorBecomes, ColumnsUnchanged, LinkTypeOK,
       StoredSound, FoundSound, NewestKept
<1>7. ASSUME NEW v \in Visitors, Redeem(v) PROVE LinkInv'
  <2> DEFINE s == visitor[v]
  <2>1. [NewVisitor EXCEPT !.pc = "done"] \in VisitorState
        /\ [NewVisitor EXCEPT !.pc = "done"].pc # "found"
    BY DEF NewVisitor, VisitorState
  <2>2. /\ s \in VisitorState /\ s.link \in 1 .. issued
        /\ token \in {0, s.link} \/ token > s.after
    BY <1>7 DEF Redeem, LinkTypeOK, FoundSound, VisitorState
  <2>3. \/ UNCHANGED << token, verified, spent, outrun >>
        \/ /\ token' = 0 /\ spent' = spent \cup {s.link}
           /\ verified' = (verified \/ kind = "verify")
           /\ outrun' = IF token > s.after THEN outrun \cup {token} ELSE outrun
    BY <1>7 DEF Redeem
  <2>4. verified' \in BOOLEAN
    BY <2>3 DEF LinkTypeOK
  <2>5. LinkTypeOK'
    <3>1. /\ token' \in 0 .. issued /\ spent' \subseteq 1 .. issued
          /\ outrun' \subseteq 1 .. issued
      <4>1. s.after \in Nat /\ token \in 0 .. issued /\ issued \in Nat
        BY <2>2 DEF LinkTypeOK, VisitorState
      <4>2. token > s.after => token \in 1 .. issued
        BY <4>1
      <4>3. token' \in 0 .. issued
        BY <2>3, <4>1
      <4>4. spent' \subseteq 1 .. issued
        BY <2>2, <2>3 DEF LinkTypeOK
      <4>5. outrun' \subseteq 1 .. issued
        BY <2>3, <4>2 DEF LinkTypeOK
      <4> QED
        BY <4>3, <4>4, <4>5
    <3>2. visitor' \in [Visitors -> VisitorState]
      BY <1>7, <2>1 DEF Redeem, VisitorBecomes, LinkTypeOK
    <3> QED
      BY <1>7, <2>4, <3>1, <3>2 DEF Redeem, LinkTypeOK
  <2>6. StoredSound'
    <3>1. token' \notin spent'
      BY <2>2, <2>3 DEF LinkTypeOK, StoredSound
    <3> QED
      BY <1>7, <3>1 DEF Redeem, StoredSound
  <2>7. FoundSound'
    BY <1>7, <2>1, <2>3 DEF Redeem, VisitorBecomes, LinkTypeOK, FoundSound
  <2>8. NewestKept'
    BY <1>7, <2>2, <2>3 DEF Redeem, LinkTypeOK, NewestKept
  <2> QED
    BY <2>5, <2>6, <2>7, <2>8
<1>8. CASE LinkRequestFails
  <2>1. [NewVisitor EXCEPT !.pc = "done"] \in VisitorState
        /\ [NewVisitor EXCEPT !.pc = "done"].pc # "found"
    BY DEF NewVisitor, VisitorState
  <2>2. ASSUME NEW m \in Mailers, MailerBecomes(m, [mailer[m] EXCEPT !.pc = "done"]),
               UNCHANGED visitor
        PROVE  LinkInv'
    <3>1. [mailer[m] EXCEPT !.pc = "done"] \in MailerState
      BY DEF LinkTypeOK, MailerState
    <3>2. LinkTypeOK'
      BY <1>8, <2>2, <3>1 DEF LinkRequestFails, MailerBecomes, ColumnsUnchanged, LinkTypeOK
    <3>3. StoredSound'
      BY <1>8, <2>2 DEF LinkRequestFails, MailerBecomes, ColumnsUnchanged, LinkTypeOK,
         MailerState, StoredSound
    <3> QED
      BY <1>8, <2>2, <3>2, <3>3 DEF LinkRequestFails, ColumnsUnchanged, FoundSound, NewestKept
  <2>3. ASSUME NEW v \in Visitors, VisitorBecomes(v, [NewVisitor EXCEPT !.pc = "done"]),
               UNCHANGED mailer
        PROVE  LinkInv'
    BY <1>8, <2>1, <2>3 DEF LinkRequestFails, VisitorBecomes, ColumnsUnchanged, LinkTypeOK,
       StoredSound, FoundSound, NewestKept
  <2> QED
    BY <1>8, <2>2, <2>3 DEF LinkRequestFails
<1>9. CASE LinkTick
  BY <1>9 DEF LinkTick, ColumnsUnchanged, LinkTypeOK, StoredSound, FoundSound, NewestKept
<1> QED
  BY <1>1, <1>2, <1>3, <1>4, <1>5, <1>6, <1>7, <1>8, <1>9 DEF LinkNext

LEMMA LinkInvariant == LinkSpec => []LinkInv
BY LinkInvInit, LinkInvStep, PTL DEF LinkSpec

\* A link that was used is not found again, however many requests there are.
THEOREM LinksAreSpentOnce == LinkSpec => []SpentLinksAreDead
<1>1. LinkInv => SpentLinksAreDead
  BY DEF LinkInv, StoredSound, SpentLinksAreDead, Finds
<1> QED
  BY <1>1, LinkInvariant, PTL

\* The newest mailed link is in force unless it was used, or cleared by the redemption
\* of an older one that it crossed.
THEOREM LinksWork == LinkSpec => []MailedLinksWork
<1>1. LinkInv => MailedLinksWork
  <2> SUFFICES ASSUME LinkInv, NEW link \in mailed \ (spent \cup outrun), ~(link < issued)
               PROVE  token = link
    BY DEF MailedLinksWork
  <2>1. link = issued /\ issued # 0
    BY DEF LinkInv, LinkTypeOK
  <2> QED
    BY <2>1 DEF LinkInv, NewestKept
<1> QED
  BY <1>1, LinkInvariant, PTL

-----------------------------------------------------------------------------
(* Session rows.                                                           *)

\* A row is that of a login that went through, was inserted after the token was signed,
\* and no token is from the future.
RowSound(s) ==
    /\ signed[s] <= sessionClock
    /\ stage[s] # "new" => signed[s] # Never
    /\ s \in Rows => stage[s] = "done" /\ signed[s] + RowLife <= expiresAt[s]

ListedSound == \A s \in Sessions : RowSound(s)

\* Only a logout between its two statements has deleted rows in mind; they are of tokens
\* that were signed by the second it reads.
EnderSound(e) ==
    /\ ender[e].pc \notin {"revoke", "stamped"} => ender[e].deleted = {}
    /\ \A s \in ender[e].deleted :
         stage[s] # "new" /\ (ender[e].pc = "stamped" => signed[s] <= ender[e].now)

EndersSound == \A e \in Enders : EnderSound(e)

SessionInv == SessionTypeOK /\ ListedSound /\ EndersSound /\ AcceptedAreListed

LEMMA SessionInvInit == SessionInit => SessionInv
<1> SUFFICES ASSUME SessionInit PROVE SessionInv
  OBVIOUS
<1>1. SessionTypeOK
  BY DEF SessionInit, SessionTypeOK, IdleEnder, EnderState, Never
<1>2. ListedSound /\ EndersSound /\ AcceptedAreListed
  BY DEF SessionInit, ListedSound, RowSound, Rows, EndersSound, EnderSound, AcceptedAreListed,
     Accepts, IdleEnder, Never
<1> QED
  BY <1>1, <1>2 DEF SessionInv

LEMMA SessionTypeStep ==
    ASSUME SessionTypeOK, [SessionNext]_sessionVars
    PROVE  SessionTypeOK'
<1> USE LivesAssumption DEF SessionTypeOK, Never
<1>1. CASE UNCHANGED sessionVars
  BY <1>1 DEF sessionVars
<1>2. ASSUME NEW s \in Sessions, SignIn(s) PROVE SessionTypeOK'
  BY <1>2 DEF SignIn
<1>3. ASSUME NEW s \in Sessions, InsertRow(s) PROVE SessionTypeOK'
  BY <1>3 DEF InsertRow
<1>4. ASSUME NEW e \in Enders, EnderStep(e) PROVE SessionTypeOK'
  <2>1. ender[e] \in EnderState /\ IdleEnder \in EnderState /\ Rows \in SUBSET Sessions
    BY DEF EnderState, IdleEnder, Rows
  <2>2. ASSUME NEW state \in EnderState, EnderBecomes(e, state)
        PROVE  ender' \in [Enders -> EnderState]
    BY <2>2 DEF EnderBecomes
  <2>3. EnderDone \in EnderState
    BY DEF EnderDone, IdleEnder, EnderState
  <2>4. CASE LogoutDeletes(e)
    <3>1. [IdleEnder EXCEPT !.pc = "revoke", !.deleted = Rows] \in EnderState
      BY <2>1 DEF IdleEnder, EnderState
    <3> QED
      BY <2>2, <2>4, <3>1 DEF LogoutDeletes, DeleteRows
  <2>5. ASSUME NEW s \in Sessions, FindSession(e, s) PROVE SessionTypeOK'
    <3>1. [IdleEnder EXCEPT !.pc = "delete", !.row = {s}] \in EnderState
      BY DEF EnderState, IdleEnder
    <3> QED
      BY <2>2, <2>5, <3>1 DEF FindSession
  <2>6. CASE DeleteSession(e)
    <3>1. [IdleEnder EXCEPT !.pc = "revoke", !.deleted = ender[e].row \cap Rows] \in EnderState
      BY <2>1 DEF IdleEnder, EnderState
    <3> QED
      BY <2>2, <2>6, <3>1 DEF DeleteSession, DeleteRows
  <2>7. CASE RevokeOnly(e)
    <3>1. [IdleEnder EXCEPT !.pc = "revoke"] \in EnderState
      BY DEF EnderState, IdleEnder
    <3> QED
      BY <2>2, <2>7, <3>1 DEF RevokeOnly
  <2>8. CASE RevokeStamp(e)
    <3>1. [ender[e] EXCEPT !.pc = "stamped", !.now = sessionClock] \in EnderState
      BY <2>1 DEF EnderState
    <3> QED
      BY <2>2, <2>8, <3>1 DEF RevokeStamp
  <2>9. CASE RevokeStore(e)
    <3>1. ender[e].now \in Nat /\ Covered(revokedTo) \subseteq Sessions
      BY <2>1 DEF EnderState, Covered
    <3> QED
      BY <2>2, <2>3, <2>9, <3>1 DEF RevokeStore
  <2>10. CASE EnderFails(e)
    <3>1. ender[e].deleted \subseteq Sessions
      BY <2>1 DEF EnderState
    <3> QED
      BY <2>2, <2>3, <2>10, <3>1 DEF EnderFails
  <2> QED
    BY <1>4, <2>4, <2>5, <2>6, <2>7, <2>8, <2>9, <2>10 DEF EnderStep
<1>5. CASE Cleanup
  BY <1>5 DEF Cleanup, DeleteRows
<1>6. CASE SessionTick
  BY <1>6 DEF SessionTick
<1> QED
  BY <1>1, <1>2, <1>3, <1>4, <1>5, <1>6 DEF SessionNext

LEMMA SessionInvStep ==
    ASSUME SessionInv, [SessionNext]_sessionVars
    PROVE  SessionInv'
<1>0. SessionTypeOK'
  BY SessionTypeStep DEF SessionInv
<1> USE LivesAssumption DEF SessionInv, SessionTypeOK, Never
\* A logout deletes rows: it has them in mind, or nothing lists them but its failure.
<1>d. ASSUME NEW e \in Enders, NEW rows \in SUBSET Rows, DeleteRows(rows),
             EnderBecomes(e, [IdleEnder EXCEPT !.pc = "revoke", !.deleted = rows]),
             ender[e].deleted = {},
             UNCHANGED << sessionClock, signed, stage, revokedTo, dropped, undone >>
      PROVE  ListedSound' /\ EndersSound' /\ AcceptedAreListed'
  <2>1. /\ ender'[e].pc = "revoke" /\ ender'[e].deleted = rows
        /\ \A f \in Enders \ {e} : ender'[f] = ender[f]
    BY <1>d DEF EnderBecomes, IdleEnder
  <2>2. ListedSound'
    BY <1>d DEF DeleteRows, ListedSound, RowSound, Rows
  <2>3. EndersSound'
    <3>1. \A s \in rows : stage'[s] # "new"
      BY <1>d DEF ListedSound, RowSound, Rows
    <3>2. EnderSound(e)'
      BY <2>1, <3>1 DEF EnderSound
    <3>3. \A f \in Enders \ {e} : EnderSound(f)'
      BY <1>d, <2>1 DEF EndersSound, EnderSound
    <3> QED
      BY <3>2, <3>3 DEF EndersSound
  <2>4. AcceptedAreListed'
    BY <1>d, <2>1 DEF DeleteRows, Rows, AcceptedAreListed, Accepts
  <2> QED
    BY <2>2, <2>3, <2>4
\* The step of a request that leaves the rows, the marker and what it has deleted alone.
<1>k. ASSUME NEW e \in Enders, NEW state \in EnderState, EnderBecomes(e, state), EnderSound(e)',
             state.deleted = ender[e].deleted,
             UNCHANGED << sessionClock, signed, expiresAt, stage, revokedTo, dropped, undone >>
      PROVE  ListedSound' /\ EndersSound' /\ AcceptedAreListed'
  <2>1. \A f \in Enders : ender'[f].deleted = ender[f].deleted
    BY <1>k DEF EnderBecomes
  <2>2. \A f \in Enders \ {e} : ender'[f] = ender[f]
    BY <1>k DEF EnderBecomes
  <2>3. EndersSound'
    BY <1>k, <2>2 DEF EndersSound, EnderSound
  <2> QED
    BY <1>k, <2>1, <2>3 DEF ListedSound, RowSound, Rows, AcceptedAreListed, Accepts
<1>1. CASE UNCHANGED sessionVars
  BY <1>0, <1>1 DEF sessionVars, ListedSound, RowSound, Rows, EndersSound, EnderSound,
     AcceptedAreListed, Accepts
<1>2. ASSUME NEW s \in Sessions, SignIn(s) PROVE SessionInv'
  <2>1. EndersSound'
    BY <1>2 DEF SignIn, EndersSound, EnderSound, EnderState
  <2> QED
    BY <1>0, <1>2, <2>1 DEF SignIn, ListedSound, RowSound, Rows, AcceptedAreListed, Accepts
<1>3. ASSUME NEW s \in Sessions, InsertRow(s) PROVE SessionInv'
  <2>1. EndersSound'
    BY <1>3 DEF InsertRow, EndersSound, EnderSound, EnderState
  <2> QED
    BY <1>0, <1>3, <2>1 DEF InsertRow, ListedSound, RowSound, Rows, AcceptedAreListed, Accepts
<1>4. ASSUME NEW e \in Enders, EnderStep(e) PROVE SessionInv'
  <2>1. CASE LogoutDeletes(e)
    BY <1>0, <1>d, <2>1 DEF LogoutDeletes, EndersSound, EnderSound
  <2>2. ASSUME NEW s \in Sessions, FindSession(e, s) PROVE SessionInv'
    <3> DEFINE state == [IdleEnder EXCEPT !.pc = "delete", !.row = {s}]
    <3>1. state \in EnderState /\ state.deleted = {} /\ state.pc = "delete"
      BY DEF EnderState, IdleEnder
    <3>2. EnderBecomes(e, state) /\ ender[e].deleted = {}
      BY <2>2 DEF FindSession, EndersSound, EnderSound
    <3> HIDE DEF state
    <3>3. EnderSound(e)'
      BY <3>1, <3>2 DEF EnderBecomes, EnderSound
    <3> QED
      BY <1>0, <1>k, <2>2, <3>1, <3>2, <3>3 DEF FindSession
  <2>3. CASE DeleteSession(e)
    <3>1. ender[e].deleted = {}
      BY <2>3 DEF DeleteSession, EndersSound, EnderSound
    <3>2. DeleteRows(ender[e].row \cap Rows) /\ ender[e].row \cap Rows \in SUBSET Rows
      BY <2>3 DEF DeleteSession, DeleteRows, Rows
    <3> QED
      BY <1>0, <1>d, <2>3, <3>1, <3>2 DEF DeleteSession
  <2>4. CASE RevokeOnly(e)
    <3> DEFINE state == [IdleEnder EXCEPT !.pc = "revoke"]
    <3>1. state \in EnderState /\ state.deleted = {} /\ state.pc = "revoke"
      BY DEF EnderState, IdleEnder
    <3>2. EnderBecomes(e, state) /\ ender[e].deleted = {}
      BY <2>4 DEF RevokeOnly, EndersSound, EnderSound
    <3> HIDE DEF state
    <3>3. EnderSound(e)'
      BY <3>1, <3>2 DEF EnderBecomes, EnderSound
    <3> QED
      BY <1>0, <1>k, <2>4, <3>1, <3>2, <3>3 DEF RevokeOnly
  <2>5. CASE RevokeStamp(e)
    <3> DEFINE state == [ender[e] EXCEPT !.pc = "stamped", !.now = sessionClock]
    <3>1. /\ state \in EnderState /\ state.deleted = ender[e].deleted
          /\ state.pc = "stamped" /\ state.now = sessionClock
      BY DEF EnderState
    <3>2. EnderBecomes(e, state)
      BY <2>5 DEF RevokeStamp
    <3> HIDE DEF state
    <3>3. EnderSound(e)'
      <4>1. ender'[e] = state
        BY <3>2 DEF EnderBecomes
      <4> QED
        BY <2>5, <3>1, <4>1 DEF RevokeStamp, EndersSound, EnderSound, ListedSound, RowSound,
           EnderState
    <3> QED
      BY <1>0, <1>k, <2>5, <3>1, <3>2, <3>3 DEF RevokeStamp
  <2>6. CASE RevokeStore(e)
    <3>1. /\ ender'[e].deleted = {} /\ ender'[e].pc = "done"
          /\ \A f \in Enders \ {e} : ender'[f] = ender[f]
      BY <2>6 DEF RevokeStore, EnderBecomes, EnderDone, IdleEnder
    <3>2. ListedSound' /\ EndersSound'
      BY <2>6, <3>1 DEF RevokeStore, ListedSound, RowSound, Rows, EndersSound, EnderSound
    <3>3. ASSUME NEW s \in Sessions, Accepts(s)'
          PROVE  \/ s \in Rows' \/ stage'[s] # "done" \/ sessionClock' > signed'[s] + RowLife
                 \/ s \in dropped' \/ s \in undone' \/ \E d \in Enders : s \in ender'[d].deleted
      \* Its own rows are covered by the second it read.
      <4>1. s \notin ender[e].deleted
        BY <2>6, <3>3 DEF RevokeStore, Accepts, EndersSound, EnderSound, EnderState
      <4>2. CASE Accepts(s)
        BY <2>6, <3>1, <4>1, <4>2 DEF RevokeStore, AcceptedAreListed, Rows
      \* The marker it replaces covered the token.
      <4>3. CASE ~Accepts(s)
        <5>1. s \in Covered(revokedTo) \ Covered(ender[e].now)
          BY <2>6, <3>3, <4>3 DEF RevokeStore, Accepts, Covered, EnderState
        <5> QED
          BY <2>6, <5>1 DEF RevokeStore
      <4> QED
        BY <4>2, <4>3
    <3> QED
      BY <1>0, <3>2, <3>3 DEF AcceptedAreListed
  <2>7. CASE EnderFails(e)
    <3>1. /\ ender'[e].deleted = {} /\ ender'[e].pc = "done"
          /\ \A f \in Enders \ {e} : ender'[f] = ender[f]
      BY <2>7 DEF EnderFails, EnderBecomes, EnderDone, IdleEnder
    <3> QED
      BY <1>0, <2>7, <3>1 DEF EnderFails, ListedSound, RowSound, Rows, EndersSound, EnderSound,
         AcceptedAreListed, Accepts
  <2> QED
    BY <1>4, <2>1, <2>2, <2>3, <2>4, <2>5, <2>6, <2>7 DEF EnderStep
<1>5. CASE Cleanup
  <2>1. \A s \in Rows : s \in Rows' \/ sessionClock > signed[s] + RowLife
    BY <1>5 DEF Cleanup, DeleteRows, ListedSound, RowSound, Rows
  <2>2. ListedSound' /\ EndersSound'
    BY <1>5 DEF Cleanup, DeleteRows, ListedSound, RowSound, Rows, EndersSound, EnderSound
  <2>3. AcceptedAreListed'
    BY <1>5, <2>1 DEF Cleanup, AcceptedAreListed, Accepts
  <2> QED
    BY <1>0, <2>2, <2>3
<1>6. CASE SessionTick
  BY <1>0, <1>6 DEF SessionTick, ListedSound, RowSound, Rows, EndersSound, EnderSound,
     AcceptedAreListed, Accepts
<1> QED
  BY <1>1, <1>2, <1>3, <1>4, <1>5, <1>6 DEF SessionNext

\* Whoever is logged in can be found and logged out (controllers/online_users.rs), for any
\* number of logins and logouts and any lives of rows and tokens.
THEOREM LoginsAreListed == SessionSpec => []AcceptedAreListed
<1>1. SessionSpec => []SessionInv
  BY SessionInvInit, SessionInvStep, PTL DEF SessionSpec
<1>2. SessionInv => AcceptedAreListed
  BY DEF SessionInv
<1> QED
  BY <1>1, <1>2, PTL

-----------------------------------------------------------------------------
(* Counters.                                                               *)

Asked == passed \cup lost

\* A counter is of a window that has begun, and the key of a window lives for all of it.
CounterSound ==
    /\ hits = 0 => hitsUntil = 0
    /\ hits # 0 => hitsUntil - Window \in 0 .. throttleClock

\* A request fell into its window, and got a number its window has reached; windows do
\* not overlap, and one begins with its first request.
AskedSound ==
    \A r \in Asked :
        /\ r.began <= r.at /\ r.at < r.began + Window /\ r.at <= throttleClock
        /\ r.number <= Budget
        /\ r.number = 1 => r.at = r.began
        /\ \/ r.began + Window = hitsUntil /\ r.number <= hits
           \/ r.began + Window + Window <= hitsUntil

WindowsApart == \A r, q \in Asked : r.began < q.began => r.began + Window <= q.began

NumbersDiffer == \A r, q \in Asked : r.began = q.began /\ r.number = q.number => r = q

\* The requests of a window got the numbers without a gap.
NoGap ==
    \A n \in 1 .. Budget : n <= hits =>
        \E r \in Asked : r.began = hitsUntil - Window /\ r.number = n

\* Before a refusal the budget of a window that was not over had been used up.
RefusalsFollow ==
    \A t \in refusedAt : \E began \in Instants :
        /\ t - Window < began
        /\ \A n \in 1 .. Budget : \E r \in Asked : r.began = began /\ r.number = n /\ r.at <= t

ThrottleInv ==
    /\ ThrottleTypeOK
    /\ CounterSound
    /\ AskedSound
    /\ WindowsApart
    /\ NumbersDiffer
    /\ NoGap
    /\ RefusalsFollow

LEMMA ThrottleInvInit == ThrottleInit => ThrottleInv
<1> SUFFICES ASSUME ThrottleInit PROVE ThrottleInv
  OBVIOUS
<1>1. ThrottleTypeOK
  BY WindowAssumption, CountersAssumption DEF ThrottleInit, ThrottleTypeOK, Instants
<1>2. Asked = {} /\ hits = 0 /\ hitsUntil = 0 /\ refusedAt = {}
  BY DEF ThrottleInit, Asked
<1>3. CounterSound /\ AskedSound /\ WindowsApart /\ NumbersDiffer /\ RefusalsFollow
  BY <1>2 DEF CounterSound, AskedSound, WindowsApart, NumbersDiffer, RefusalsFollow
<1>4. NoGap
  BY <1>2 DEF NoGap
<1> QED
  BY <1>1, <1>3, <1>4 DEF ThrottleInv

\* One run of the script, and what it tells of the request it counted.
LEMMA ScriptRuns ==
    ASSUME ThrottleInv, IncrWithExpiry
    PROVE  /\ Counted \in Requests
           /\ Counted.began = hitsUntil' - Window /\ Counted.number = hits'
           /\ Counted.at = throttleClock
           /\ hits' \in 1 .. MaxAttempts /\ hitsUntil' \in Window .. MaxTime + Window
           /\ throttleClock < hitsUntil' /\ hitsUntil' <= throttleClock + Window
           /\ throttleClock' = throttleClock
           /\ hits' = 1 => hitsUntil' = throttleClock + Window
           /\ \/ hitsUntil' = hitsUntil /\ hits' = hits + 1
              \/ hitsUntil <= throttleClock /\ hitsUntil' = throttleClock + Window /\ hits' = 1
<1> USE WindowAssumption, CountersAssumption
<1>1. /\ throttleClock \in 0 .. MaxTime /\ hits \in 0 .. MaxAttempts
      /\ hitsUntil \in 0 .. MaxTime + Window
      /\ hits # 0 => hitsUntil - Window \in 0 .. throttleClock
      /\ hits = 0 => hitsUntil = 0
  BY DEF ThrottleInv, ThrottleTypeOK, Instants, CounterSound
<1>2. CASE KeyLives
  <2>1. hits # 0
    BY <1>1, <1>2 DEF KeyLives
  <2>2. hits' = hits + 1 /\ hitsUntil' = hitsUntil /\ throttleClock' = throttleClock
        /\ hits + 1 <= MaxAttempts
    BY <1>2 DEF IncrWithExpiry, Incremented
  <2>3. Counted = [began |-> hitsUntil' - Window, number |-> hits', at |-> throttleClock]
    BY DEF Counted
  <2>4. hitsUntil' - Window \in 0 .. MaxTime /\ hits' \in 1 .. MaxAttempts
    BY <1>1, <2>1, <2>2
  <2> QED
    BY <1>1, <1>2, <2>1, <2>2, <2>3, <2>4 DEF KeyLives, Requests, Instants
<1>3. CASE ~KeyLives
  <2>1. hits' = 1 /\ hitsUntil' = throttleClock + Window /\ throttleClock' = throttleClock
        /\ 1 <= MaxAttempts
    BY <1>3 DEF IncrWithExpiry, Incremented
  <2>2. Counted = [began |-> hitsUntil' - Window, number |-> hits', at |-> throttleClock]
    BY DEF Counted
  <2> QED
    BY <1>1, <1>3, <2>1, <2>2 DEF KeyLives, Requests, Instants
<1> QED
  BY <1>2, <1>3

\* The script counts a request, which is remembered if it is within the budget.
LEMMA AskedGrows ==
    ASSUME ThrottleInv, IncrWithExpiry,
           Asked' = IF WithinBudget THEN Asked \cup {Counted} ELSE Asked
    PROVE  CounterSound' /\ AskedSound' /\ WindowsApart' /\ NumbersDiffer' /\ NoGap'
<1> USE WindowAssumption, CountersAssumption, BudgetAssumption
<1> DEFINE c == Counted
<1>1. /\ throttleClock \in 0 .. MaxTime /\ hits \in 0 .. MaxAttempts
      /\ hitsUntil \in 0 .. MaxTime + Window
      /\ hits # 0 => hitsUntil - Window \in 0 .. throttleClock
      /\ hits = 0 => hitsUntil = 0
      /\ Asked \subseteq Requests
  BY DEF ThrottleInv, ThrottleTypeOK, Instants, CounterSound, Asked
<1>2. /\ c \in Requests
      /\ c.began = hitsUntil' - Window /\ c.number = hits' /\ c.at = throttleClock
      /\ hits' \in 1 .. MaxAttempts /\ hitsUntil' \in Window .. MaxTime + Window
      /\ throttleClock < hitsUntil' /\ hitsUntil' <= throttleClock + Window
      /\ throttleClock' = throttleClock
      /\ hits' = 1 => hitsUntil' = throttleClock + Window
      /\ \/ hitsUntil' = hitsUntil /\ hits' = hits + 1
         \/ hitsUntil <= throttleClock /\ hitsUntil' = throttleClock + Window /\ hits' = 1
  BY ScriptRuns
<1>3. WithinBudget <=> hits' <= Budget
  BY DEF IncrWithExpiry, WithinBudget
<1> HIDE DEF c
<1>4. \A r \in Asked :
        /\ r.began \in Int /\ r.number \in Int /\ r.at \in Int
        /\ r.began <= r.at /\ r.at < r.began + Window /\ r.at <= throttleClock
        /\ r.number <= Budget
        /\ r.number = 1 => r.at = r.began
        /\ \/ r.began + Window = hitsUntil /\ r.number <= hits
           \/ r.began + Window + Window <= hitsUntil
  BY <1>1 DEF ThrottleInv, AskedSound, Requests, Instants
<1>5. Asked' \subseteq Asked \cup {c}
  BY DEF c
<1>6. CounterSound'
  <2>1. hits' # 0
    BY <1>2
  <2>2. hitsUntil' - Window \in 0 .. throttleClock
    <3>1. hitsUntil' \in Int /\ Window \in Int /\ Window <= hitsUntil'
      BY <1>2
    <3>2. hitsUntil' <= throttleClock + Window /\ throttleClock \in Int
      BY <1>1, <1>2
    <3> QED
      <4>1. \A a, b, d \in Int : a <= b /\ b <= d + a => b - a \in 0 .. d
        OBVIOUS
      <4> QED
        BY <3>1, <3>2, <4>1
  <2> QED
    BY <1>2, <2>1, <2>2 DEF CounterSound
<1>7. \A r \in Asked : \/ r.began + Window = hitsUntil' /\ r.number < hits'
                       \/ r.began + Window + Window <= hitsUntil'
  BY <1>1, <1>2, <1>4
<1>8. AskedSound'
  <2>1. c \in Asked' => hits' <= Budget \/ c \in Asked
    BY <1>3 DEF c
  <2>2. ASSUME NEW r \in Asked'
        PROVE  /\ r.began <= r.at /\ r.at < r.began + Window /\ r.at <= throttleClock'
               /\ r.number <= Budget
               /\ r.number = 1 => r.at = r.began
               /\ \/ r.began + Window = hitsUntil' /\ r.number <= hits'
                  \/ r.began + Window + Window <= hitsUntil'
    <3>1. CASE r \in Asked
      BY <1>2, <1>4, <1>7, <3>1 DEF Requests
    <3>2. CASE r = c /\ r \notin Asked
      BY <1>1, <1>2, <2>1, <2>2, <3>2
    <3> QED
      BY <1>5, <2>2, <3>1, <3>2
  <2> QED
    BY <2>2 DEF AskedSound
<1>9. \A r \in Asked : r.began # c.began => r.began + Window <= c.began
  BY <1>2, <1>4, <1>7
<1>10. \A r \in Asked : r.began <= c.began
  BY <1>2, <1>4, <1>7
<1>11. WindowsApart'
  <2>1. \A r, q \in Asked : r.began < q.began => r.began + Window <= q.began
    BY DEF ThrottleInv, WindowsApart
  <2>2. ASSUME NEW r \in Asked', NEW q \in Asked', r.began < q.began
        PROVE  r.began + Window <= q.began
    <3>1. CASE q = c
      BY <1>2, <1>4, <1>5, <1>9, <2>2, <3>1 DEF Requests, Instants
    <3>2. CASE r = c /\ q \in Asked
      BY <1>2, <1>4, <1>10, <2>2, <3>2 DEF Requests, Instants
    <3> QED
      BY <1>5, <2>1, <2>2, <3>1, <3>2
  <2> QED
    BY <2>2 DEF WindowsApart
<1>12. \A r \in Asked : ~(r.began = c.began /\ r.number = c.number)
  BY <1>2, <1>4, <1>7
<1>13. NumbersDiffer'
  BY <1>5, <1>12 DEF ThrottleInv, NumbersDiffer
<1>14. NoGap'
  <2> SUFFICES ASSUME NEW n \in 1 .. Budget, n <= hits'
               PROVE  \E r \in Asked' : r.began = hitsUntil' - Window /\ r.number = n
    BY DEF NoGap
  <2>1. CASE n = hits'
    BY <1>2, <1>3, <2>1 DEF c
  <2>2. CASE n # hits'
    <3>1. hitsUntil' = hitsUntil /\ n <= hits
      BY <1>1, <1>2, <2>2
    <3> QED
      BY <3>1 DEF ThrottleInv, NoGap
  <2> QED
    BY <2>1, <2>2
<1> QED
  BY <1>6, <1>8, <1>11, <1>13, <1>14

\* A refusal stays earned while requests are added.
LEMMA RefusalsStay ==
    ASSUME ThrottleInv, Asked \subseteq Asked', NEW t \in refusedAt
    PROVE  \E began \in Instants :
             /\ t - Window < began
             /\ \A n \in 1 .. Budget :
                  \E r \in Asked' : r.began = began /\ r.number = n /\ r.at <= t
BY DEF ThrottleInv, RefusalsFollow

LEMMA ThrottleInvStep ==
    ASSUME ThrottleInv, [ThrottleNext]_throttleVars
    PROVE  ThrottleInv'
<1> USE WindowAssumption, CountersAssumption, BudgetAssumption
<1>1. CASE UNCHANGED throttleVars
  <2>1. UNCHANGED << throttleClock, hits, hitsUntil, passed, lost, refusedAt, Asked >>
    BY <1>1 DEF throttleVars, Asked
  <2> QED
    BY <2>1 DEF ThrottleInv, ThrottleTypeOK, CounterSound, AskedSound, WindowsApart,
       NumbersDiffer, NoGap, RefusalsFollow
<1>2. ASSUME IncrWithExpiry, Asked' = IF WithinBudget THEN Asked \cup {Counted} ELSE Asked,
             passed' \subseteq passed \cup {Counted}, lost' \subseteq lost \cup {Counted},
             refusedAt' = refusedAt
      PROVE  ThrottleInv'
  <2>1. CounterSound' /\ AskedSound' /\ WindowsApart' /\ NumbersDiffer' /\ NoGap'
    BY <1>2, AskedGrows
  <2>2. ThrottleTypeOK'
    BY <1>2, ScriptRuns DEF ThrottleInv, ThrottleTypeOK
  <2>3. RefusalsFollow'
    <3>1. Asked \subseteq Asked'
      BY <1>2
    <3> QED
      BY <1>2, <3>1, RefusalsStay DEF RefusalsFollow
  <2> QED
    BY <2>1, <2>2, <2>3 DEF ThrottleInv
<1>3. CASE LetThrough
  BY <1>2, <1>3 DEF LetThrough, Asked
<1>4. CASE AnswerLost
  BY <1>2, <1>4 DEF AnswerLost, Asked
<1>5. CASE TurnAway
  <2>1. IncrWithExpiry /\ ~WithinBudget /\ Asked' = Asked
        /\ refusedAt' = refusedAt \cup {throttleClock} /\ passed' = passed /\ lost' = lost
    BY <1>5 DEF TurnAway, Asked
  <2>2. CounterSound' /\ AskedSound' /\ WindowsApart' /\ NumbersDiffer' /\ NoGap'
    BY <2>1, AskedGrows
  <2>3. ThrottleTypeOK'
    BY <2>1, ScriptRuns DEF ThrottleInv, ThrottleTypeOK
  <2>4. RefusalsFollow'
    <3>1. hitsUntil' - Window \in Instants /\ throttleClock - Window < hitsUntil' - Window
          /\ throttleClock \in Int
      BY <2>1, ScriptRuns DEF Requests, ThrottleInv, ThrottleTypeOK, Instants
    <3>2. \A n \in 1 .. Budget : n <= hits'
      BY <2>1, ScriptRuns DEF IncrWithExpiry, WithinBudget
    <3>3. \A n \in 1 .. Budget :
            \E r \in Asked' : r.began = hitsUntil' - Window /\ r.number = n
                              /\ r.at <= throttleClock
      BY <2>1, <2>2, <3>2, ScriptRuns DEF NoGap, AskedSound
    <3>4. ASSUME NEW t \in refusedAt'
          PROVE  \E began \in Instants :
                   /\ t - Window < began
                   /\ \A n \in 1 .. Budget :
                        \E r \in Asked' : r.began = began /\ r.number = n /\ r.at <= t
      <4>1. CASE t = throttleClock
        BY <3>1, <3>3, <4>1
      <4>2. CASE t \in refusedAt
        BY <2>1, <4>2, RefusalsStay
      <4> QED
        BY <2>1, <3>4, <4>1, <4>2
    <3> QED
      BY <3>4 DEF RefusalsFollow
  <2> QED
    BY <2>2, <2>3, <2>4 DEF ThrottleInv
<1>6. CASE ThrottleTick
  <2>1. /\ throttleClock < MaxTime /\ throttleClock' = throttleClock + 1
        /\ UNCHANGED << hits, hitsUntil, passed, lost, refusedAt, Asked >>
    BY <1>6 DEF ThrottleTick, Asked
  <2>2. ThrottleTypeOK' /\ CounterSound'
    BY <2>1 DEF ThrottleInv, ThrottleTypeOK, CounterSound, Instants
  <2>3. AskedSound'
    <3>1. \A r \in Asked : r.at \in Int /\ throttleClock \in Int
      BY DEF ThrottleInv, ThrottleTypeOK, Asked, Requests, Instants
    <3> QED
      BY <2>1, <3>1 DEF ThrottleInv, AskedSound
  <2>4. WindowsApart' /\ NumbersDiffer' /\ NoGap' /\ RefusalsFollow'
    BY <2>1 DEF ThrottleInv, WindowsApart, NumbersDiffer, NoGap, RefusalsFollow
  <2> QED
    BY <2>2, <2>3, <2>4 DEF ThrottleInv
<1> QED
  BY <1>1, <1>3, <1>4, <1>5, <1>6 DEF ThrottleNext

LEMMA ThrottleInvariant == ThrottleSpec => []ThrottleInv
BY ThrottleInvInit, ThrottleInvStep, PTL DEF ThrottleSpec

\* Requests of different windows in a span of a window's length: the earlier window is
\* open before the span, and its first request is not in the span.
LEMMA BurstCounted ==
    ASSUME ThrottleInv, NEW t \in Instants
    PROVE  Cardinality(During(passed, t, t + Window - 1)) < 2 * Budget
<1> USE WindowAssumption, CountersAssumption, BudgetAssumption
<1> DEFINE S == During(passed, t, t + Window - 1)
           Place(r) == IF r.began < t THEN r.number - 1 ELSE r.number + (Budget - 1)
           place == [r \in S |-> Place(r)]
           T == 1 .. (Budget + Budget - 1)
<1>1. \A r \in S :
        /\ r \in Asked
        /\ r.began \in Nat /\ r.number \in 1 .. Budget /\ r.at \in Nat
        /\ r.began <= r.at /\ r.at < r.began + Window
        /\ r.number = 1 => r.at = r.began
        /\ t <= r.at /\ r.at <= t + Window - 1
  BY DEF During, ThrottleInv, ThrottleTypeOK, AskedSound, Asked, Requests, Instants
<1>2. \A r \in S : Place(r) \in T
  BY <1>1 DEF Instants
<1>3. ASSUME NEW r \in S, NEW q \in S, Place(r) = Place(q) PROVE r = q
  <2>1. r.began < t <=> q.began < t
    BY <1>1, <1>3 DEF Instants
  <2>2. r.number = q.number
    BY <1>1, <1>3, <2>1 DEF Instants
  <2>3. r.began = q.began
    <3>1. /\ r.began < q.began => r.began + Window <= q.began
          /\ q.began < r.began => q.began + Window <= r.began
      BY <1>1 DEF ThrottleInv, WindowsApart
    <3> QED
      BY <1>1, <2>1, <3>1 DEF Instants
  <2> QED
    BY <1>1, <2>2, <2>3 DEF ThrottleInv, NumbersDiffer
<1> HIDE DEF Place
<1>4. place \in [S -> T]
  BY <1>2
<1>5. \A r, q \in S : place[r] = place[q] => r = q
  BY <1>3
<1>6. place \in Injection(S, T)
  BY <1>4, <1>5 DEF Injection, IsInjective
<1>7. IsFiniteSet(T) /\ Cardinality(T) = Budget + Budget - 1
  BY FS_Interval
<1>8. Cardinality(S) <= Cardinality(T) /\ IsFiniteSet(S)
  BY <1>6, <1>7, FS_Injection
<1>9. Cardinality(S) \in Nat
  BY <1>8, FS_CardinalityType
<1> HIDE DEF S, T
<1>10. Cardinality(S) < 2 * Budget
  BY <1>7, <1>8, <1>9
<1> QED
  BY <1>10 DEF S

\* A budget of numbers given out within a window is as many requests.
LEMMA RefusalCounted ==
    ASSUME ThrottleInv, NEW t \in refusedAt
    PROVE  Cardinality(During(passed \cup lost, t - Window + 1, t)) >= Budget
<1> USE WindowAssumption, CountersAssumption, BudgetAssumption
<1> DEFINE S == During(passed \cup lost, t - Window + 1, t)
<1>1. t \in Nat
  BY DEF ThrottleInv, ThrottleTypeOK, Instants
<1>2. PICK began \in Instants :
        /\ t - Window < began
        /\ \A n \in 1 .. Budget : \E r \in Asked : r.began = began /\ r.number = n /\ r.at <= t
  BY DEF ThrottleInv, RefusalsFollow
<1>3. \A r \in Asked : r.began = began /\ r.at <= t => r \in S
  BY <1>1, <1>2 DEF ThrottleInv, ThrottleTypeOK, AskedSound, Asked, Requests, Instants, During
<1>4. \A n \in 1 .. Budget : \E r \in S : r.number = n
  BY <1>2, <1>3
<1>5. IsFiniteSet(S)
  <2> DEFINE T == Instants \X (1 .. Budget)
             key == [r \in S |-> << r.began, r.number >>]
  <2>1. \A r \in S : r \in Asked /\ r.began \in Instants /\ r.number \in 1 .. Budget
    BY DEF During, ThrottleInv, ThrottleTypeOK, AskedSound, Asked, Requests
  <2>2. \A r, q \in S : key[r] = key[q] => r = q
    BY <2>1 DEF ThrottleInv, NumbersDiffer
  <2>3. key \in [S -> T]
    BY <2>1
  <2>4. key \in Injection(S, T)
    BY <2>2, <2>3 DEF Injection, IsInjective
  <2>5. IsFiniteSet(T)
    <3>1. IsFiniteSet(Instants) /\ IsFiniteSet(1 .. Budget)
      BY FS_Interval DEF Instants
    <3> QED
      BY <3>1, FS_Product
  <2> QED
    BY <2>4, <2>5, FS_Injection
<1> DEFINE pick == [n \in 1 .. Budget |-> CHOOSE r \in S : r.number = n]
<1>6. \A n \in 1 .. Budget : pick[n] \in S /\ pick[n].number = n
  BY <1>4
<1>7. pick \in Injection(1 .. Budget, S)
  BY <1>6 DEF Injection, IsInjective
<1>8. Cardinality(1 .. Budget) <= Cardinality(S)
  BY <1>5, <1>7, FS_Injection
<1>9. Cardinality(1 .. Budget) = Budget
  BY FS_Interval
<1>10. Cardinality(S) \in Nat
  BY <1>5, FS_CardinalityType
<1> HIDE DEF S
<1>11. Cardinality(S) >= Budget
  BY <1>8, <1>9, <1>10
<1> QED
  BY <1>11 DEF S

\* No span of the length of a window lets through twice the budget, for any budget and any
\* window (middleware/rate_limiter.rs:10).
THEOREM BurstsAreBounded == ThrottleSpec => []BurstBounded
<1>1. ThrottleInv => BurstBounded
  BY BurstCounted DEF BurstBounded
<1> QED
  BY <1>1, ThrottleInvariant, PTL

\* Nobody is turned away who has not used up a budget within the last window.
THEOREM RefusalsAreEarned == ThrottleSpec => []RefusalsEarned
<1>1. ThrottleInv => RefusalsEarned
  BY RefusalCounted DEF RefusalsEarned
<1> QED
  BY <1>1, ThrottleInvariant, PTL
=============================================================================
