--------------------------------- MODULE Views ---------------------------------
(***************************************************************************)
(* What the pages read and what they compute from it.                      *)
(*                                                                         *)
(* A read hook of web/hooks is a row of a table: which SWR hook of         *)
(* web/lib/swr it is built on, whether the user's address is part of its   *)
(* cache key, whether it is polled and whether it follows the window's     *)
(* focus.  A view is an operator of p, the results of the page's reads:    *)
(* p[k].known says whether read k has data, p[k].x is the state the data   *)
(* was read in (a hook uses the fields it asked for), and isLoading and    *)
(* isError are those of toReadResult.                                      *)
(*                                                                         *)
(* Amounts count in small units.  The price and the LLTV are integers over *)
(* PriceScale and LltvScale, so that a collateral c allows to owe          *)
(* c * price * lltv / (PriceScale * LltvScale).                            *)
(***************************************************************************)
EXTENDS Integers

CONSTANTS
  PriceScale,    \* the oracle's precision (10^36 in Morpho's terms)
  LltvScale,     \* 100 % (10^18)
  VirtualShares, \* Morpho's virtual shares; one virtual asset goes with them
  Cent           \* a hundredth of a token, in the units of its balances

ASSUME ViewsAssumption ==
  {PriceScale, LltvScale, VirtualShares, Cent} \subseteq Nat \ {0}

(* null and undefined. *)
None == -1

AtLeastZero(n) == IF n > 0 THEN n ELSE 0
FloorDiv(a, b) == a \div b
CeilingDiv(a, b) == (a + b - 1) \div b
RoundTo(unit, n) == unit * ((2 * n + unit) \div (2 * unit))

-----------------------------------------------------------------------------
(* The read hooks.                                                         *)

UseMultiChainRead == [kind |-> "contract", user |-> FALSE, polled |-> TRUE, onFocus |-> TRUE]
UseMultiChainBatchRead == [UseMultiChainRead EXCEPT !.kind = "batch"]
UseCrossChainRead == [UseMultiChainRead EXCEPT !.kind = "cross-chain"]
OfUser(read) == [read EXCEPT !.user = TRUE]

UseBorrowerBalance == OfUser(UseMultiChainRead)
UseLockedUSDY == OfUser(UseMultiChainRead)
UseAcUSDYBalance == OfUser(UseMultiChainRead)
UseUSDCBalance == OfUser(UseMultiChainRead)
UseMorphoCollateral == OfUser(UseMultiChainRead)

(* Position and market in one multicall.  useLenderPosition makes the same  *)
(* two calls with the same arguments and so has the same key.               *)
UseBorrowerDebt == OfUser(UseMultiChainBatchRead)
UseLenderPosition == UseBorrowerDebt

(* Market parameters and totals; price and staleness; a constant.          *)
UseSystemParams == UseMultiChainBatchRead
UseOraclePrice == UseMultiChainBatchRead
HaircutBps == [UseMultiChainRead EXCEPT !.polled = FALSE, !.onFocus = FALSE]

UseTvlPeg == UseCrossChainRead

ReadKeys == {"usdyBalance", "locked", "acusdy", "usdc", "position", "debt",
             "market", "oracle", "haircut", "tvl"}

Read ==
  [k \in ReadKeys |->
     CASE k = "usdyBalance" -> UseBorrowerBalance
       [] k = "locked"      -> UseLockedUSDY
       [] k = "acusdy"      -> UseAcUSDYBalance
       [] k = "usdc"        -> UseUSDCBalance
       [] k = "position"    -> UseMorphoCollateral
       [] k = "debt"        -> UseBorrowerDebt
       [] k = "market"      -> UseSystemParams
       [] k = "oracle"      -> UseOraclePrice
       [] k = "haircut"     -> HaircutBps
       [] k = "tvl"         -> UseTvlPeg]

-----------------------------------------------------------------------------
(* The borrow page.                                                        *)

(* debtAssetsRaw and suppliedRaw: rounded down, without Morpho's virtual    *)
(* assets and shares.                                                       *)
DebtAssets(x) ==
  IF x.shares = 0 THEN 0
  ELSE IF x.totalShares = 0 THEN None
  ELSE FloorDiv(x.shares * x.totalAssets, x.totalShares)

(* What is locked is taken off the wallet's balance; toFixed(2). *)
AvailableBalance(p) ==
  IF p["usdyBalance"].known
  THEN RoundTo(Cent, AtLeastZero(p["usdyBalance"].x.usdy -
                                 (IF p["locked"].known THEN p["locked"].x.locked ELSE 0)))
  ELSE None

(* A mutant: what is not known counts as nothing. *)
PendingOfWhatIsKnown(p) ==
  LET raw(k, n) == IF p[k].known THEN n ELSE 0
  IN AtLeastZero(raw("locked", p["locked"].x.locked)
                 - (raw("acusdy", p["acusdy"].x.acusdy) + raw("position", p["position"].x.posted)))

(* USDY that is locked and has not been minted as AcUSDY, in the wallet or  *)
(* supplied; None until all three reads are complete.                       *)
PendingAttestation(p) ==
  LET complete(k) == p[k].known /\ ~p[k].isLoading /\ ~p[k].isError
  IN IF \A k \in {"locked", "acusdy", "position"} : complete(k)
     THEN AtLeastZero(p["locked"].x.locked - (p["acusdy"].x.acusdy + p["position"].x.posted))
     ELSE None

Computable(p) ==
  /\ \A k \in {"position", "oracle", "market", "debt"} : p[k].known
  /\ DebtAssets(p["debt"].x) # None

RemainingCapacity(p) ==
  IF Computable(p)
  THEN AtLeastZero(FloorDiv(p["position"].x.posted * p["oracle"].x.price * p["market"].x.lltv,
                            PriceScale * LltvScale)
                   - DebtAssets(p["debt"].x))
  ELSE None

(* A mutant: no safety buffer. *)
UnbufferedCapacity(p) == RemainingCapacity(p)

(* 0.5 % is kept back for Morpho's rounding and the accrual of interest. *)
SafeBorrowCapacity(p) ==
  IF RemainingCapacity(p) = None THEN None ELSE FloorDiv(RemainingCapacity(p) * 995, 1000)

SystemError(p) == \E k \in {"market", "oracle", "haircut"} : p[k].isError

SafeWithdraw(p) ==
  LET c == p["position"].x.posted
      d == DebtAssets(p["debt"].x)
      perUnit == p["oracle"].x.price * p["market"].x.lltv
  IN IF p["position"].isError \/ p["debt"].isError \/ SystemError(p) THEN None
     ELSE IF ~p["position"].known \/ ~p["debt"].known \/ d = None THEN None
     ELSE IF d = 0 THEN c
     ELSE IF ~p["oracle"].known \/ ~p["market"].known \/ perUnit = 0 THEN None
     ELSE AtLeastZero(c - CeilingDiv(d * PriceScale * LltvScale, perUnit))

(* The conditions that disable a button; n is the amount in its input. *)
PageLoading(p) ==
  \E k \in {"locked", "position", "acusdy", "usdyBalance", "market", "oracle", "haircut"} :
    p[k].isLoading

LockDisabled(p) == AvailableBalance(p) \in {None, 0} \/ PageLoading(p)

SupplyDisabled(p) == ~p["acusdy"].known \/ p["acusdy"].x.acusdy = 0

BorrowDisabled(p, n) ==
  \/ n <= 0
  \/ SafeBorrowCapacity(p) \in {None, 0}
  \/ n > SafeBorrowCapacity(p)
  \/ p["position"].x.posted = 0
  \/ p["oracle"].x.stale
  \/ p["position"].isError \/ p["debt"].isError \/ SystemError(p)

WithdrawDisabled(p) == p["position"].isError

(* The amounts that the buttons beside an input put into it: MAX and, for   *)
(* the lock, 25 % and 50 %.  Empty while the button is disabled.            *)
Percentage(n, q) == (n * q) \div 100

LockOffers(p) ==
  IF LockDisabled(p) THEN {}
  ELSE {AvailableBalance(p)} \cup {Percentage(AvailableBalance(p), q) : q \in {25, 50}}

SupplyOffers(p) == IF SupplyDisabled(p) THEN {} ELSE {p["acusdy"].x.acusdy}

BorrowOffers(p) ==
  IF p["position"].isError \/ p["debt"].isError \/ SystemError(p) THEN {}
  ELSE {SafeBorrowCapacity(p)} \ {None, 0}

WithdrawOffers(p) == IF p["position"].isError THEN {} ELSE {SafeWithdraw(p)} \ {None, 0}

-----------------------------------------------------------------------------
(* useLoanHealth, with fractions multiplied out.  The LLTV is 0, not        *)
(* unknown, until the market is read.                                       *)
Lltv(p) == IF p["market"].known THEN p["market"].x.lltv ELSE 0

HealthKnown(p) == \A k \in {"position", "debt", "oracle"} : p[k].known

(* Is LTV >= tenths/10 of the LLTV?  Without collateral the LTV is 0. *)
LtvReaches(p, tenths) ==
  LET value == p["position"].x.posted * p["oracle"].x.price
  IN IF value > 0
     THEN DebtAssets(p["debt"].x) * PriceScale * LltvScale * 10 >= value * Lltv(p) * tenths
     ELSE Lltv(p) = 0

(* A mutant: the cap taken at 100 %, where other protocols liquidate. *)
RiskAtFullUse(p) ==
  IF ~HealthKnown(p) THEN "safe"
  ELSE IF DebtAssets(p["debt"].x) * PriceScale >= p["position"].x.posted * p["oracle"].x.price
  THEN "danger"
  ELSE IF LtvReaches(p, 9) THEN "warning" ELSE "safe"

RiskLevel(p) ==
  IF ~HealthKnown(p) THEN "safe"
  ELSE IF LtvReaches(p, 10) THEN "danger"
  ELSE IF LtvReaches(p, 9) THEN "warning"
  ELSE "safe"

(* isBalanced: the two sides differ by less than 0.01 % of what is locked. *)
IsBalanced(lockedRaw, supplyRaw) ==
  IF lockedRaw = 0 THEN supplyRaw = 0
  ELSE 10000 * (IF lockedRaw > supplyRaw THEN lockedRaw - supplyRaw ELSE supplyRaw - lockedRaw)
         < lockedRaw

=============================================================================
