--------------------------- MODULE MCSessionGuard ---------------------------
(***************************************************************************)
(* SessionGuard on a small instance: two users, one login and two requests *)
(* that revoke.  A token lives one tick past its second and a marker two,  *)
(* so that both expire within the bound on the clock; two changes are as   *)
(* many as two requests make, but for a role edited with its menus.        *)
(***************************************************************************)
EXTENDS SessionGuard, TLC

\* Both users hold the role at first; UpdateUser takes it from one or gives it.
MCInit == Init /\ members = Users
MCSpec == MCInit /\ [][Next]_vars

Symmetry == Permutations(Users) \cup Permutations(Requests)

=============================================================================
