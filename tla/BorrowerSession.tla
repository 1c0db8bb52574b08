---------------------------- MODULE BorrowerSession ----------------------------
(***************************************************************************)
(* One user at the borrow and lend pages: the pages' handlers start the    *)
(* hooks of WebTx from cached reads, and the mined transactions change the *)
(* user's tokens, the locker on Mantle and the Morpho market on Ethereum.  *)
(* Two flows of different pages go on side by side, as a page that is left *)
(* does not stop its flows.  Bound: the user does not come back to a page  *)
(* of which a flow still runs.                                             *)
(*                                                                         *)
(* USDC counts in small units, Dollars of them to the dollar.  A borrow    *)
(* share is worth index/1000 units, rounded up when owed, down when shown. *)
(***************************************************************************)
EXTENDS WebTx

CONSTANTS
  Offered,   \* bound: the hooks the user's n-th click may start
  MaxIndex,  \* bound on the accrual of interest
  Limit,     \* what one posted AcUSDY allows to owe (price times LLTV)
  Opening    \* the user's balances when the session begins

Balances == {"usdy", "locked", "lockerAllowance", "acusdy", "acAllowance", "posted",
             "shares", "index", "usdc", "usdcAllowance", "supplied", "nonce"}

ASSUME SessionAssumption ==
  /\ Offered \in [1..MaxFlows -> SUBSET HookNames]
  /\ MaxIndex \in Nat
  /\ Limit \in Nat
  /\ Opening \in [Balances -> Nat] /\ Opening.index > 0

VARIABLES
  w,     \* the user's balances and allowances on both chains
  seen,  \* what the reads of the page last returned
  isLocking, \* the borrow page's flag around handleLockAndDeposit
  nonceRead  \* per flow, the USDC nonce its permit was signed with

sessionVars == <<webVars, w, seen, isLocking, nonceRead>>

NothingRead == [read |-> FALSE, market |-> FALSE, data |-> [b \in Balances |-> 0]]

SessionTypeOK ==
  /\ WebTypeOK
  /\ w \in [Balances -> Nat]
  /\ seen \in [read: BOOLEAN, market: BOOLEAN, data: [Balances -> Nat]]
  /\ isLocking \in BOOLEAN
  /\ nonceRead \in [1..MaxFlows -> Nat]

SessionInit ==
  /\ WebInit
  /\ w = Opening
  /\ seen = NothingRead
  /\ isLocking = FALSE
  /\ nonceRead = [f \in 1..MaxFlows |-> 0]

-----------------------------------------------------------------------------
(* Arithmetic of the hooks and of Morpho.                                  *)

CeilDiv(a, b) == (a + b - 1) \div b
DebtShown(x) == (x.shares * x.index) \div 1000
DebtOwed(x) == CeilDiv(x.shares * x.index, 1000)

(* Mutants: no buffer; an approval far above the debt. *)
ApprovalWithoutBuffer(args) == IF args.full THEN args.debt ELSE args.amount
ApprovalUnlimited(args) == IF args.full THEN 2 * args.debt ELSE args.amount

(* What useRepayUSDC approves: the debt and 0.1 %, or the amount. *)
Approval(args) == IF args.full THEN (args.debt * 1001) \div 1000 ELSE args.amount

(* safeBorrowCapacity of the borrow page. *)
SafeCapacity(x) ==
  LET room == x.posted * Limit - DebtShown(x)
  IN IF room > 0 THEN (room * 995) \div 1000 ELSE 0

-----------------------------------------------------------------------------
(* What the transactions do.  A checked subtraction that underflows, or an  *)
(* unhealthy position after a borrow or a withdrawal, reverts.              *)

(* The USDC a repayment pulls, and the shares it burns. *)
Repaid(args) ==
  IF args.full
  THEN [assets |-> CeilDiv(args.shares * w.index, 1000), shares |-> args.shares]
  ELSE [assets |-> args.amount, shares |-> (args.amount * 1000) \div w.index]

After(t) ==
  LET a == ArgsOf(t)
      n == a.amount
      r == Repaid(a)
      call == CallOf(t)
  IN CASE call = "approveUSDY" -> [w EXCEPT !.lockerAllowance = n]
       [] call = "lock" ->
            [w EXCEPT !.usdy = @ - n, !.lockerAllowance = @ - n, !.locked = @ + n]
       [] call = "approveAcUSDY" -> [w EXCEPT !.acAllowance = n]
       [] call = "supplyCollateral" ->
            [w EXCEPT !.acusdy = @ - n, !.acAllowance = @ - n, !.posted = @ + n]
       [] call = "withdrawCollateral" -> [w EXCEPT !.posted = @ - n, !.acusdy = @ + n]
       [] call = "borrow" ->
            [w EXCEPT !.shares = @ + CeilDiv(n * 1000, w.index), !.usdc = @ + n]
       [] call = "approveUSDC" -> [w EXCEPT !.usdcAllowance = Approval(a)]
       [] call = "repay" ->
            [w EXCEPT !.usdc = @ - r.assets, !.usdcAllowance = @ - r.assets,
                      !.shares = @ - r.shares]
       [] call = "supply" ->
            [w EXCEPT !.usdc = @ - n, !.usdcAllowance = @ - n, !.supplied = @ + n]
       [] call = "withdraw" -> [w EXCEPT !.supplied = @ - n, !.usdc = @ + n]
       [] call = "multicall" -> [w EXCEPT !.usdc = @ - n, !.supplied = @ + n, !.nonce = @ + 1]

Executes(t) ==
  LET x == After(t) IN
    /\ \A b \in Balances : x[b] >= 0
    /\ CallOf(t) \in {"borrow", "withdrawCollateral"} => DebtOwed(x) <= x.posted * Limit
    /\ CallOf(t) = "multicall" => nonceRead[t[1]] = w.nonce

Mine(t) ==
  /\ MinedAs(t, Executes(t))
  /\ w' = IF Executes(t) THEN After(t) ELSE w
  /\ UNCHANGED <<seen, isLocking, nonceRead>>

Cancel(t) ==
  /\ Replaced(t)
  /\ UNCHANGED <<w, seen, isLocking, nonceRead>>

(* Interest accrues.  Bound: only while a repayment is in progress. *)
Accrue ==
  /\ w.index < MaxIndex
  /\ Running("repay") # {}
  /\ w' = [w EXCEPT !.index = @ + 1]
  /\ UNCHANGED <<webVars, seen, isLocking, nonceRead>>

-----------------------------------------------------------------------------
(* The pages.                                                              *)

(* The reads are refetched, on their interval or by an invalidation. *)
Poll ==
  /\ seen' = [read |-> TRUE, market |-> TRUE, data |-> w]
  /\ seen' # seen
  /\ UNCHANGED <<webVars, w, isLocking, nonceRead>>

Asset(n) == [amount |-> n, full |-> FALSE, market |-> seen.market,
             debt |-> IF seen.read THEN DebtShown(seen.data) ELSE Unknown,
             shares |-> seen.data.shares]

Click(h, args) ==
  /\ Start(h, args)
  /\ h \in Offered[Len(flows')]
  /\ isLocking' = (isLocking \/ h = "lock")
  /\ UNCHANGED <<w, seen, nonceRead>>

(* A mutant: the guard looks at the shown status, like the other buttons.   *)
LockByStatus(n) ==
  /\ seen.read
  /\ ~IsPending(status["lock"])
  /\ n > 0
  /\ n <= seen.data.usdy - seen.data.locked
  /\ Click("lock", Asset(n))

(* isLocking is set before the first await and cleared in a finally.  The   *)
(* available balance is the wallet's minus what is already locked.          *)
ClickLock(n) ==
  /\ seen.read
  /\ ~isLocking
  /\ n > 0
  /\ n <= seen.data.usdy - seen.data.locked
  /\ Click("lock", Asset(n))

(* The amount is not compared with the balance, only the balance with zero. *)
ClickSupplyCollateral(n) ==
  /\ seen.read
  /\ ~IsPending(status["supplyCollateral"])
  /\ seen.data.acusdy > 0
  /\ Click("supplyCollateral", Asset(n))

ClickBorrow(n) ==
  /\ seen.read
  /\ ~IsPending(status["borrow"])
  /\ seen.data.posted > 0
  /\ n <= SafeCapacity(seen.data)
  /\ Click("borrow", Asset(n))

(* Until the debt is known a part of it can be repaid, not all. *)
ClickRepay(n) ==
  /\ ~IsPending(status["repay"])
  /\ seen.read => n <= DebtShown(seen.data)
  /\ Click("repay", Asset(n))

ClickRepayFull ==
  /\ ~IsPending(status["repay"])
  /\ seen.read
  /\ DebtShown(seen.data) > 0
  /\ Click("repay", [Asset(0) EXCEPT !.full = TRUE])

(* Only the status is looked at. *)
ClickWithdrawCollateral(n) ==
  /\ ~IsPending(status["withdrawCollateral"])
  /\ Click("withdrawCollateral", Asset(n))

LenderIsProcessing == IsPending(status["supply"]) \/ IsPending(status["withdraw"])

ClickSupply(n) ==
  /\ seen.read
  /\ ~LenderIsProcessing
  /\ n <= seen.data.usdc
  /\ Click("supply", Asset(n))

ClickWithdraw(n) ==
  /\ seen.read
  /\ ~LenderIsProcessing
  /\ n <= seen.data.supplied
  /\ Click("withdraw", Asset(n))

(* The buttons beside the outcome of an action: reset() of its hook, also   *)
(* when another flow of that hook still runs.                               *)
Dismiss(h) ==
  /\ status[h] \in {"success", "error"}
  /\ Show(h, "idle")
  /\ UNCHANGED <<flows, network, prompts, pending, mined, reverted, replaced, reloads,
                 w, seen, isLocking, nonceRead>>

(* "Reset Form" of the lock's input appears on any error of that input,     *)
(* one typed while a lock is in progress included.                          *)
ResetLockForm ==
  /\ status["lock"] # "idle"
  /\ Show("lock", "idle")
  /\ UNCHANGED <<flows, network, prompts, pending, mined, reverted, replaced, reloads,
                 w, seen, isLocking, nonceRead>>

(* The lend page has one button for both tabs: it resets both hooks.        *)
DismissLender ==
  /\ \E h \in {"supply", "withdraw"} : status[h] \in {"success", "error"}
  /\ status' = [status EXCEPT !["supply"] = "idle", !["withdraw"] = "idle"]
  /\ UNCHANGED <<flows, network, prompts, pending, mined, reverted, replaced, reloads,
                 w, seen, isLocking, nonceRead>>

(* No page calls useSupplyUSDC; whoever does has the market parameters. *)
CallSupplyBundle(n) == seen.market /\ Click("supplyBundle", Asset(n))

-----------------------------------------------------------------------------
(* The finally of handleLockAndDeposit: its flow has ended. *)
EndsLock == \E f \in Running("lock") : flows'[f].stage \in Ended
Unlocking == isLocking' = (isLocking /\ ~EndsLock)

(* A flow's own steps, with the nonce a permit is signed over.  A flow that *)
(* succeeds clears what was read of the user (mutate with undefined data)   *)
(* and starts the reads again; what was read of the market stays.           *)
StepFlow(f) ==
  /\ Advance(f)
  /\ nonceRead' = IF AwaitsAt(f, "connecting") THEN [nonceRead EXCEPT ![f] = w.nonce]
                                               ELSE nonceRead
  /\ IF AwaitsAt(f, "refreshing")
     THEN seen' = [NothingRead EXCEPT !.market = seen.market]
     ELSE UNCHANGED seen
  /\ Unlocking
  /\ UNCHANGED w

Answer(t) ==
  /\ Sign(t) \/ SignOffChain(t) \/ Reject(t)
  /\ Unlocking
  /\ UNCHANGED <<w, seen, nonceRead>>

ReloadTab ==
  /\ Reload
  /\ seen' = NothingRead
  /\ isLocking' = FALSE
  /\ UNCHANGED <<w, nonceRead>>

(* A dollar, in units small enough for 0.1 % of it and for TLC. *)
Dollars == 100000

SessionNext ==
  \/ ClickLock(1)
  \/ ClickSupplyCollateral(1)
  \/ ClickBorrow(Dollars)
  \/ ClickRepay(Dollars)
  \/ ClickRepayFull
  \/ ClickWithdrawCollateral(1)
  \/ ClickSupply(Dollars)
  \/ ClickWithdraw(Dollars)
  \/ CallSupplyBundle(Dollars)
  \/ \E h \in {"supplyCollateral", "borrow", "repay", "withdrawCollateral"} : Dismiss(h)
  \/ ResetLockForm
  \/ DismissLender
  \/ \E f \in DOMAIN flows : StepFlow(f)
  \/ \E t \in prompts : Answer(t)
  \/ \E t \in pending : Mine(t) \/ Cancel(t)
  \/ Poll
  \/ Accrue
  \/ ReloadTab

SessionSpec == SessionInit /\ [][SessionNext]_sessionVars

(***************************************************************************)
(* Fairness: the page's timers fire (withTimeout, viem's for a receipt) and *)
(* its refetches return.  Nobody has to sign or reject a prompt or to mine  *)
(* a transaction, and the wallet need not answer a request for its client   *)
(* or its network, on which no timer is set.                                *)
(***************************************************************************)
Timed == {"signing", "mining", "refreshing"}

StepTimed(f) == f \in DOMAIN flows /\ flows[f].stage \in Timed /\ StepFlow(f)

FairSession == SessionSpec /\ \A f \in 1..MaxFlows : WF_sessionVars(StepTimed(f))

-----------------------------------------------------------------------------
(* One deposit at a time: from the click to the end of the handler, through *)
(* both writes, timeouts, late answers of the wallet and reloads, no second *)
(* lock is started, in whatever status the first one is (isLocking,         *)
(* app/borrow/page.tsx:289).                                                *)
OneLockAtATime == Cardinality(Running("lock")) <= 1

(* A full repayment clears the debt although it was read before the         *)
(* approval: while the debt grows by at most the 0.1 % that the page adds   *)
(* and nothing else touches the position, the transaction executes and      *)
(* leaves no share behind.                                                  *)
BufferCovers ==
  [][\A t \in (mined' \cup reverted') \ (mined \cup reverted) :
       LET a == ArgsOf(t) IN
         /\ CallOf(t) = "repay"
         /\ a.full
         /\ a.shares = w.shares
         /\ DebtOwed(w) * 1000 <= a.debt * 1001
         /\ <<t[1], 1>> \in mined
         /\ w.usdcAllowance = Approval(a)
         /\ w.usdc >= Approval(a)
         => t \in mined' /\ w'.shares = 0]_sessionVars

(* Approvals are exact: when every flow has succeeded, nothing reverted or  *)
(* was replaced and the wallet has no open prompt, what the locker and      *)
(* Morpho may still take is at most the interest buffer of a full repayment.*)
AllSucceeded ==
  /\ \A f \in DOMAIN flows : flows[f].stage = "succeeded"
  /\ prompts = {} /\ pending = {} /\ Settled = mined

ApprovalsAreSpent ==
  AllSucceeded =>
    /\ w.lockerAllowance = 0
    /\ w.acAllowance = 0
    /\ \/ w.usdcAllowance = 0
       \/ \E f \in DOMAIN flows :
            flows[f].args.full /\ w.usdcAllowance * 1000 <= flows[f].args.debt

(* Once a flow of the borrow page, or a supply of USDC, has asked for a     *)
(* signature, it ends however long the wallet leaves its prompts open and   *)
(* whether or not its transactions are mined: its button does not stay      *)
(* disabled for want of a signature or a receipt.  Only a deposit, between  *)
(* its two writes, asks the wallet for its network again and may be left    *)
(* waiting there.                                                           *)
TimedHooks == {"lock", "supplyCollateral", "borrow", "repay", "withdrawCollateral", "supply"}

FlowsEnd ==
  \A f \in 1..MaxFlows :
    (f \in DOMAIN flows /\ flows[f].hook \in TimedHooks /\ flows[f].stage \in Timed) ~>
      /\ f \in DOMAIN flows
      /\ \/ flows[f].stage \in Ended
         \/ HookOf(f).reconnects /\ flows[f].stage = "connecting"

=============================================================================
