----------------------------- MODULE MCJobQueue -----------------------------
(***************************************************************************)
(* Model checking of JobQueue: one worker takes every job, the other only  *)
(* the first, so that the second is popped and returned.                   *)
(***************************************************************************)
EXTENDS JobQueue, TLC

CONSTANTS j1, j2, w1, w2

MCTakes == (w1 :> {j1, j2}) @@ (w2 :> {j1})

=============================================================================
