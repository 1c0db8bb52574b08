---------------------------- MODULE MCBorrowerScan ----------------------------
EXTENDS BorrowerScan, TLC
CONSTANTS b1, b2, f1, f2
MCBorrowers == {b1, b2}
MCFetches == {f1, f2}
=============================================================================
