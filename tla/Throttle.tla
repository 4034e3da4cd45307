------------------------------ MODULE Throttle ------------------------------
(***************************************************************************)
(* The counters in Redis that bound how often something is done: logins    *)
(* per address and mails per user.  A script increments the counter and    *)
(* gives it an expiry when it is new; a request is turned away when the    *)
(* counter is past the budget.  A window begins with its first request and *)
(* is not renewed; requests that are turned away are counted too.          *)
(***************************************************************************)
EXTENDS Integers, FiniteSets

CONSTANTS
    Budget,       \* MAX_ATTEMPTS, MAIL_MAX_PER_WINDOW
    Window,       \* WINDOW_SECS, MAIL_WINDOW_SECS
    MaxTime,      \* bound on the clock
    MaxAttempts   \* bound on the requests within one window

ASSUME BudgetAssumption == Budget \in Nat \ {0}
ASSUME WindowAssumption == Window \in Nat \ {0}
ASSUME CountersAssumption == MaxTime \in Nat /\ MaxAttempts \in Nat

VARIABLES
    throttleClock,  \* time
    hits,           \* the counter
    hitsUntil,      \* when its key expires
    passed,         \* history: the requests that were let through
    lost,           \* history: those that used up budget without an answer
    refusedAt       \* history: instants at which a request was turned away

throttleVars == << throttleClock, hits, hitsUntil, passed, lost, refusedAt >>

Instants == 0 .. MaxTime

\* A request: when its window began, the value it got from the counter, and its time.
Requests == [began: Instants, number: 1 .. MaxAttempts, at: Instants]

ThrottleTypeOK ==
    /\ throttleClock \in Instants
    /\ hits \in 0 .. MaxAttempts
    /\ hitsUntil \in 0 .. MaxTime + Window
    /\ passed \subseteq Requests
    /\ lost \subseteq Requests
    /\ refusedAt \subseteq Instants

ThrottleInit ==
    /\ throttleClock = 0
    /\ hits = 0
    /\ hitsUntil = 0
    /\ passed = {}
    /\ lost = {}
    /\ refusedAt = {}

-----------------------------------------------------------------------------

KeyLives == throttleClock < hitsUntil
Incremented == IF KeyLives THEN hits + 1 ELSE 1
\* Mutant: off by one.
WithinBudget_OneMore == (IF KeyLives THEN hits ELSE 0) <= Budget

WithinBudget == Incremented <= Budget

\* Mutant: every request renews the window.
IncrWithExpiry_Sliding ==
    /\ Incremented <= MaxAttempts
    /\ hits' = Incremented
    /\ hitsUntil' = throttleClock + Window
    /\ UNCHANGED throttleClock

\* INCR, and EXPIRE when the key is new: one script.
IncrWithExpiry ==
    /\ Incremented <= MaxAttempts
    /\ hits' = Incremented
    /\ hitsUntil' = IF KeyLives THEN hitsUntil ELSE throttleClock + Window
    /\ UNCHANGED throttleClock

\* What the script has just counted.
Counted == [began |-> hitsUntil' - Window, number |-> hits', at |-> throttleClock]

LetThrough ==
    /\ WithinBudget
    /\ IncrWithExpiry
    /\ passed' = passed \cup {Counted}
    /\ UNCHANGED << lost, refusedAt >>

TurnAway ==
    /\ ~WithinBudget
    /\ IncrWithExpiry
    /\ refusedAt' = refusedAt \cup {throttleClock}
    /\ UNCHANGED << passed, lost >>

\* The script ran and its answer did not arrive: 503 for the client.
AnswerLost ==
    /\ IncrWithExpiry
    /\ lost' = IF WithinBudget THEN lost \cup {Counted} ELSE lost
    /\ UNCHANGED << passed, refusedAt >>

ThrottleTick ==
    /\ throttleClock < MaxTime
    /\ throttleClock' = throttleClock + 1
    /\ UNCHANGED << hits, hitsUntil, passed, lost, refusedAt >>

ThrottleNext == LetThrough \/ TurnAway \/ AnswerLost \/ ThrottleTick

ThrottleSpec == ThrottleInit /\ [][ThrottleNext]_throttleVars

-----------------------------------------------------------------------------
(* Properties.                                                             *)

During(requests, first, last) == {r \in requests : first <= r.at /\ r.at <= last}

\* Whatever the instances do, no span of the length of a window lets through twice the
\* budget (middleware/rate_limiter.rs:10-14): it meets two windows at most, and of the
\* earlier one it misses the request that began it.
BurstBounded ==
    \A t \in Instants : Cardinality(During(passed, t, t + Window - 1)) < 2 * Budget

\* A request is turned away only if a budget of requests was let through, or lost, within
\* the last window: whoever keeps trying is not kept out by that ("Try again in 5
\* minutes", middleware/rate_limiter.rs:109).
RefusalsEarned ==
    \A t \in refusedAt :
        Cardinality(During(passed \cup lost, t - Window + 1, t)) >= Budget
=============================================================================
