----------------------------- MODULE MCSqlQueue -----------------------------
(***************************************************************************)
(* Model checking of SqlQueue: a recurring and an ordinary job; two        *)
(* workers that take both, of which the second belongs to a process that   *)
(* has no handler for the ordinary job.                                    *)
(***************************************************************************)
EXTENDS SqlQueue, TLC

CONSTANTS j1, j2, w1, w2

MCTakes == (w1 :> {j1, j2}) @@ (w2 :> {j1, j2})
MCHandles == (w1 :> {j1, j2}) @@ (w2 :> {j1})

=============================================================================
