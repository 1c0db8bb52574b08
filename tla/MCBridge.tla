------------------------------- MODULE MCBridge -------------------------------
(***************************************************************************)
(* The bridge with one user who may lock twice, so that one lock can be    *)
(* minted while the other is returned, deadlines before and after the      *)
(* first tick, and amounts of one unit or two.                             *)
(***************************************************************************)
EXTENDS Bridge, TLC

CONSTANTS u1, operator, dvn, here

MCUsers == {u1}
MCAdmins == {operator}
MCAmounts == {1}
MCDeadlines == {0, 1}
MCKeys == {dvn}
MCSources == {here}
MCTwoAmounts == {1, 2}
MCLockIds == [borrower: MCUsers, amount: MCAmounts, validUntil: MCDeadlines, nonce: 0..2]
MCTwoLockIds == [borrower: MCUsers, amount: MCTwoAmounts, validUntil: MCDeadlines, nonce: 0..2]

=============================================================================
