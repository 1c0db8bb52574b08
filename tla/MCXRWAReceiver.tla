---------------------------- MODULE MCXRWAReceiver ----------------------------
(***************************************************************************)
(* XRWAReceiver with two keys, two lock ids and two amounts per id, so     *)
(* that conflicting messages for one lock exist; one borrower and one      *)
(* venue hold the tokens.                                                  *)
(***************************************************************************)
EXTENDS XRWAReceiver, TLC

CONSTANTS borrower, venue, l1, l2, dvn1, dvn2, admin1, admin2, locker

MCAccounts == {borrower, venue}
MCIds == {l1, l2}
MCKeys == {dvn1, dvn2}
MCAdmins == {admin1, admin2}
MCSources == {locker}
MCAmounts == 0..2
MCTimes == 0..1

Symmetry == Permutations(MCIds) \cup Permutations(MCAdmins)

(* The holders' approvals are kept to the unlimited one to venue;           *)
(* MCMorphoAdapter checks the others.                                       *)
FewApprovals ==
  \A a, s \in Accounts : allowance[a][s] \in
    IF s = venue THEN {0, MaxUint} ELSE {0}

=============================================================================
