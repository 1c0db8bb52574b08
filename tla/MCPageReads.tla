----------------------------- MODULE MCPageReads -----------------------------
EXTENDS PageReads, TLC
CONSTANTS w1, w2

MCWallets == {w1, w2}
MCPrices == {9, 11}

(* Debt 4000 against a limit of 9460; no debt; near the limit, and over it  *)
(* by interest that no read has.                                            *)
Base == [usdy |-> 12000, locked |-> 10000, acusdy |-> 0, posted |-> 10000,
         shares |-> 40000, totalAssets |-> 5000, totalShares |-> 50000, pending |-> 0,
         price |-> 11, stale |-> FALSE, lltv |-> 86, liquidity |-> 20000]
NoDebt == [Base EXCEPT !.shares = 0]
NearLimit == [Base EXCEPT !.shares = 40007, !.posted = 4229]
Overdue == [NearLimit EXCEPT !.pending = 60]

Nothing == [reads |-> {}, openings |-> {Base}, states |-> 1, market |-> {},
            clicks |-> 0, outages |-> 0, wallets |-> 0]

(* The loan and its health; a MAX borrow while interest accrues; what is    *)
(* not minted, and a withdrawal, with failing reads; the oracle with more   *)
(* failures than retries; the peg; the wallet.                              *)
MCScenarios ==
  { [Nothing EXCEPT !.reads = {"position", "debt", "market", "oracle"},
                    !.openings = {Base, NoDebt}, !.states = 2,
                    !.market = {"interest", "price", "age"}, !.clicks = 1],
    [Nothing EXCEPT !.reads = {"position", "debt", "market", "oracle"},
                    !.openings = {NearLimit, Overdue}, !.states = 2,
                    !.market = {"interest", "price", "age"}],
    [Nothing EXCEPT !.reads = {"position", "debt", "market", "oracle"},
                    !.states = 3, !.market = {"interest"}, !.clicks = 1],
    [Nothing EXCEPT !.reads = {"position", "acusdy", "locked"},
                    !.openings = {[NoDebt EXCEPT !.locked = 12000, !.acusdy = 1000]},
                    !.states = 3, !.clicks = 1, !.outages = 1],
    [Nothing EXCEPT !.reads = {"position", "acusdy", "debt"},
                    !.openings = {[NoDebt EXCEPT !.locked = 12000, !.acusdy = 1000]},
                    !.states = 3, !.clicks = 1, !.outages = 1],
    [Nothing EXCEPT !.reads = {"oracle", "haircut"}, !.states = 2,
                    !.market = {"price", "age"}, !.outages = 5],
    [Nothing EXCEPT !.reads = {"tvl", "locked", "usdyBalance"},
                    !.openings = {[Base EXCEPT !.usdy = 12006]}, !.states = 3, !.clicks = 1],
    [Nothing EXCEPT !.wallets = 4] }
=============================================================================
