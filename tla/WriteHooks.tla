------------------------------ MODULE WriteHooks ------------------------------
(***************************************************************************)
(* The write hooks of the web application (web/hooks) as a table.  Every   *)
(* hook is the same asynchronous procedure: guards, the wallet's client    *)
(* and network, one signed write after the other with a receipt awaited    *)
(* for each, a refresh of the cached reads, and a status that the page     *)
(* shows.  A row of the table records where the procedures differ; WebTx   *)
(* runs them.                                                              *)
(***************************************************************************)
EXTENDS Integers, Sequences

(* One write: the status set before it, the contract function, whether the  *)
(* wallet's answer is raced with a timeout (writeContractWithTimeout).      *)
Write(status, call) == [status |-> status, call |-> call, timed |-> TRUE]

Untimed(status, call) == [status |-> status, call |-> call, timed |-> FALSE]

(* What most hooks have in common: needs the canonical market parameters,   *)
(* rejects an amount that is not positive, is reset by its page on a click  *)
(* (resetSupply() and the like), asks for the network once, shows           *)
(* "confirming" while it waits for the last receipt, does not look at the   *)
(* status of a receipt.                                                     *)
OnMorpho(writes) ==
  [chain |-> "ethereum", market |-> TRUE, positive |-> TRUE, resets |-> TRUE,
   reconnects |-> FALSE, confirms |-> TRUE, checksReceipt |-> FALSE, writes |-> writes]

UseSupplyAcUSDY ==
  OnMorpho(<<Write("approving", "approveAcUSDY"), Write("supplying", "supplyCollateral")>>)

UseBorrowUSDC == OnMorpho(<<Write("borrowing", "borrow")>>)

(* A mutant: the repayment itself is signed without a timeout. *)
UseRepayUntimed ==
  OnMorpho(<<Write("approving", "approveUSDC"), Untimed("repaying", "repay")>>)

UseRepayUSDC ==
  OnMorpho(<<Write("approving", "approveUSDC"), Write("repaying", "repay")>>)

UseWithdrawAcUSDY == OnMorpho(<<Write("withdrawing", "withdrawCollateral")>>)

(* The lender's page does not reset a hook before it starts it again. *)
UseSupplyUSDCDirect ==
  [OnMorpho(<<Write("approving", "approveUSDC"), Write("supplying", "supply")>>)
     EXCEPT !.resets = FALSE]

UseWithdrawUSDCDirect ==
  [OnMorpho(<<Untimed("withdrawing", "withdraw")>>) EXCEPT !.resets = FALSE]

(* useSupplyUSDC (no page calls it at this commit): a permit signed off     *)
(* chain, then one multicall of permit, transferFrom and morphoSupply.      *)
UseSupplyUSDC ==
  [OnMorpho(<<Untimed("signing", "signPermit"), Untimed("submitting", "multicall")>>)
     EXCEPT !.resets = FALSE, !.positive = FALSE]

(* handleLockAndDeposit over signOnMantle: the network is asked for before  *)
(* each of the two writes.                                                  *)
LockAndDeposit ==
  [chain |-> "mantle", market |-> FALSE, positive |-> FALSE, resets |-> FALSE,
   reconnects |-> TRUE, confirms |-> FALSE, checksReceipt |-> FALSE,
   writes |-> <<Write("approving", "approveUSDY"), Write("locking", "lock")>>]

(* A mutant: the receipt's status is not looked at. *)
UseUnlockUnchecked ==
  [chain |-> "mantle", market |-> FALSE, positive |-> TRUE, resets |-> FALSE,
   reconnects |-> FALSE, confirms |-> TRUE, checksReceipt |-> FALSE,
   writes |-> <<Untimed("unlocking", "unlock")>>]

(* The only hook that fails when its transaction has reverted. *)
UseUnlockCollateral ==
  [chain |-> "mantle", market |-> FALSE, positive |-> TRUE, resets |-> FALSE,
   reconnects |-> FALSE, confirms |-> TRUE, checksReceipt |-> TRUE,
   writes |-> <<Untimed("unlocking", "unlock")>>]

(* The dashboard's instance of that hook (handleProcessRelease). *)
ReleaseHook == [UseUnlockCollateral EXCEPT !.resets = TRUE]

(* handleConfirmLiquidation of the dashboard over executeOnEthereum. *)
LiquidateHook ==
  [chain |-> "ethereum", market |-> TRUE, positive |-> FALSE, resets |-> FALSE,
   reconnects |-> TRUE, confirms |-> FALSE, checksReceipt |-> FALSE,
   writes |-> <<Write("approving", "approveMax"), Write("liquidating", "liquidate")>>]

HookNames == {"supplyCollateral", "borrow", "repay", "withdrawCollateral", "lock",
              "supply", "withdraw", "supplyBundle", "unlock", "release", "liquidate"}

Hook ==
  [h \in HookNames |->
     CASE h = "supplyCollateral"   -> UseSupplyAcUSDY
       [] h = "borrow"             -> UseBorrowUSDC
       [] h = "repay"              -> UseRepayUSDC
       [] h = "withdrawCollateral" -> UseWithdrawAcUSDY
       [] h = "lock"               -> LockAndDeposit
       [] h = "supply"             -> UseSupplyUSDCDirect
       [] h = "withdraw"           -> UseWithdrawUSDCDirect
       [] h = "supplyBundle"       -> UseSupplyUSDC
       [] h = "unlock"             -> UseUnlockCollateral
       [] h = "release"            -> ReleaseHook
       [] h = "liquidate"          -> LiquidateHook]

(* Calls that are signed off chain and never mined. *)
OffChain == {"signPermit"}

WriteStatuses == {Hook[h].writes[k].status : h \in HookNames, k \in {1}} \cup
                 {"supplying", "repaying", "submitting", "locking", "liquidating"}
Statuses == WriteStatuses \cup {"idle", "confirming", "success", "error"}

(* The statuses in which the pages disable the button of an action          *)
(* (supplyPending and the like, isProcessing).                              *)
IsPending(status) == status \notin {"idle", "success", "error"}

=============================================================================
