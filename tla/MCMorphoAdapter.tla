--------------------------- MODULE MCMorphoAdapter ---------------------------
(***************************************************************************)
(* Two users with one AcUSDY and two USDC each.  The token's allowances    *)
(* are bounded: at most two at a time.                                     *)
(***************************************************************************)
EXTENDS MorphoAdapter, FiniteSets, TLC

CONSTANTS u1, u2, adapter, morpho

MCAccounts == {u1, u2, adapter, morpho}
MCTraders == {u1, u2}
MCTokenAmounts == {1}
MCAdapterAmounts == {0, 1, 2}

Symmetry == Permutations(MCTraders)

FewAllowances ==
  Cardinality({p \in Accounts \X Accounts : allowance[p[1]][p[2]] > 0})
    <= IF stage = "token" THEN 2 ELSE 1

=============================================================================
