------------------------------- MODULE Queue --------------------------------
(***************************************************************************)
(* What the SQL backends of the job queue promise, whatever the tables and *)
(* transactions: a job is handed to a worker only while it waits, the      *)
(* worker reports on it once, and only an operator takes a job out of a    *)
(* worker's hands.  At least once, not at most once: a job that was        *)
(* returned may be run again, and the report of whoever had it before      *)
(* still counts.                                                           *)
(***************************************************************************)
CONSTANTS Jobs, Workers

VARIABLES
    stage,      \* where each job is
    holders,    \* job -> workers that were given it and have not let go
    released    \* jobs that were returned while a worker held them

qvars == << stage, holders, released >>

Stages == {"new", "waiting", "taken", "ended", "removed"}

QTypeOK ==
    /\ stage \in [Jobs -> Stages]
    /\ holders \in [Jobs -> SUBSET Workers]
    /\ released \subseteq Jobs

QInit ==
    /\ stage = [j \in Jobs |-> "new"]
    /\ holders = [j \in Jobs |-> {}]
    /\ released = {}

-----------------------------------------------------------------------------
Move(j, s) == stage' = [stage EXCEPT ![j] = s]

Add(j) ==
    /\ stage[j] = "new"
    /\ Move(j, "waiting")
    /\ UNCHANGED << holders, released >>

Take(w, j) ==
    /\ stage[j] = "waiting"
    /\ \A i \in Jobs : w \notin holders[i]
    /\ Move(j, "taken")
    /\ holders' = [holders EXCEPT ![j] = @ \cup {w}]
    /\ UNCHANGED released

\* The worker lets go without a word: it stopped, or its report was lost.
LetGo(w, j) ==
    /\ w \in holders[j]
    /\ holders' = [holders EXCEPT ![j] = @ \ {w}]
    /\ UNCHANGED << stage, released >>

\* The job ends, or waits for its next turn.
Report(w, j) ==
    /\ w \in holders[j]
    /\ holders' = [holders EXCEPT ![j] = @ \ {w}]
    /\ IF stage[j] = "removed" THEN UNCHANGED stage
       ELSE \E s \in {"ended", "waiting"} : Move(j, s)
    /\ UNCHANGED released

Return(S) ==
    /\ \A j \in S : stage[j] = "taken"
    /\ stage' = [j \in Jobs |-> IF j \in S THEN "waiting" ELSE stage[j]]
    /\ released' = released \cup {j \in S : holders[j] # {}}
    /\ UNCHANGED holders

Withdraw(j) ==
    /\ stage[j] = "waiting"
    /\ Move(j, "ended")
    /\ UNCHANGED << holders, released >>

Remove(S) ==
    /\ \A j \in S : stage[j] # "new"
    /\ stage' = [j \in Jobs |-> IF j \in S THEN "removed" ELSE stage[j]]
    /\ UNCHANGED << holders, released >>

QNext ==
    \/ \E j \in Jobs : Add(j) \/ Withdraw(j)
    \/ \E w \in Workers, j \in Jobs : Take(w, j) \/ LetGo(w, j) \/ Report(w, j)
    \/ \E S \in SUBSET Jobs : Return(S) \/ Remove(S)

QSpec == QInit /\ [][QNext]_qvars

=============================================================================
