--------------------------- MODULE MCBorrowerSession ---------------------------
EXTENDS BorrowerSession

MCOpening ==
  [usdy |-> 2, locked |-> 0, lockerAllowance |-> 0, acusdy |-> 1, acAllowance |-> 0,
   posted |-> 2, shares |-> Dollars, index |-> 1000, usdc |-> 2 * Dollars,
   usdcAllowance |-> 0, supplied |-> Dollars, nonce |-> 0]

MCFirstChains == {"mantle"}
MCReplaceable == {<<1, 1>>}

MCOffered ==
  <<{"lock", "repay", "supplyCollateral", "supplyBundle"},
    {"lock", "repay", "borrow", "withdrawCollateral", "supply", "withdraw"}>>

=============================================================================
