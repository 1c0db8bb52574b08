-------------------------- MODULE MCCollateralLocker --------------------------
(***************************************************************************)
(* CollateralLocker on two users and two admins, amounts 0..2, up to two   *)
(* locks each: nonces are reused if they can be, and one user's locks can  *)
(* be unlocked together or in parts.                                       *)
(***************************************************************************)
EXTENDS CollateralLocker, TLC

CONSTANTS u1, u2, a1, a2

MCUsers == {u1, u2}
MCAdmins == {a1, a2}
MCAmounts == 0..2
MCDeadlines == {1}

Symmetry == Permutations(MCUsers) \cup Permutations(MCAdmins)

=============================================================================
