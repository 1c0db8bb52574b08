---------------------------- MODULE MCReleaseDesk ----------------------------
EXTENDS ReleaseDesk, TLC
CONSTANTS u1, operator, successor
MCUsers == {u1}
MCAdmins == {operator, successor}
MCAmounts == {1}
MCDeadlines == {1}
MCFirstChains == {"mantle"}
MCReplaceable == {<<1, 1>>}
MCPrices == {1, 2}
MCLoans == {2}
MCPayments == {2}
MCStartable == <<{"unlock", "liquidate"}, {"release", "liquidate"}>>
MCScreens == {{"queue"}, {"radar"}}
=============================================================================
