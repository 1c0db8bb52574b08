----------------------------- MODULE ReleaseDesk -----------------------------
(***************************************************************************)
(* The operator's pages: the release queue (useReleaseQueue, shown by      *)
(* admin/release-queue and by the dashboard), the unlock transactions      *)
(* started from it, and the liquidations started from the dashboard's      *)
(* radar.  They work on snapshots: between what a row shows and what a     *)
(* transaction finds, borrowers lock, borrow and repay, the price moves,   *)
(* and other transactions of the same operator are mined.                  *)
(*                                                                         *)
(* Mantle is CollateralLocker.  Of Ethereum only what the pages read: each *)
(* borrower's debt (a share is one unit) and posted collateral, the        *)
(* oracle's price, and the operator's USDC allowance to Morpho.            *)
(***************************************************************************)
EXTENDS WebTx, CollateralLocker, FiniteSetsExt

CONSTANTS
  Posted,      \* collateral each borrower has posted
  Loans,       \* amounts a borrower may borrow
  Payments,    \* amounts a borrower may repay
  Prices,      \* prices of the oracle, USDC per unit of collateral
  LltvPercent, \* liquidation threshold, in percent
  MaxAllowance, \* stands for maxUint256
  Screens,     \* bound: the sets of lists that may be on screen, "queue" and "radar"
  Operator,    \* the operator's wallet
  Startable    \* bound: the hooks the operator's n-th click may start

ASSUME DeskAssumption ==
  /\ Posted \in Nat /\ MaxAllowance \in Nat /\ LltvPercent \in 1..100
  /\ Loans \subseteq Nat \ {0} /\ Payments \subseteq Nat \ {0}
  /\ Prices # {} /\ Prices \subseteq Nat \ {0}
  /\ Screens \subseteq SUBSET {"queue", "radar"}
  /\ Startable \in [1..MaxFlows -> SUBSET HookNames]
  /\ Operator \in Admins

VARIABLES
  debt,      \* per borrower, borrow shares in Morpho
  posted,    \* per borrower, collateral in Morpho
  price,     \* what the oracle says
  allowance, \* the operator's USDC allowance to Morpho
  reading,   \* per borrower, the queue's fetch in progress
  rows,      \* per borrower, the row of the queue that is shown
  pendingUnlock, \* the row the confirmation modal was opened for
  isAdmin,   \* whether the operator was the locker's admin when that was read
  radar,     \* per borrower, the row of the radar that is shown
  pendingLiquidation, \* the row the radar's modal was opened for
  liquidating, \* the borrower whose button is replaced by "Liquidating"
  screen,    \* the lists on screen
  scanned,   \* the borrowers whose Locked events the scan has found
  owed       \* history: per flow, every debt its borrower had since the click

mainnetVars == <<debt, posted, price, allowance>>
queueVars == <<reading, rows>>
radarVars == <<radar, pendingLiquidation, liquidating>>
chainVars == <<lockerVars, mainnetVars>>
boundVars == <<screen, scanned>>
deskVars == <<webVars, chainVars, queueVars, pendingUnlock, isAdmin, radarVars, boundVars, owed>>

NoRow == [shown |-> FALSE]
NoFetch == [active |-> FALSE]

LocksOf(u) == {id \in lockerConsumed : id.borrower = u}

(* History: all a borrower has ever locked, and all that was released.  A    *)
(* row notes the first when the balance was read (counted) and when the     *)
(* debt was (issued).                                                       *)
EverLocked(u) == SumFunction([id \in LocksOf(u) |-> id.amount])
EverReleased(u) == EverLocked(u) - lockedBalance[u]

DeskTypeOK ==
  /\ WebTypeOK
  /\ LockerTypeOK
  /\ debt \in [Users -> Nat] /\ posted \in [Users -> Nat]
  /\ price \in Prices /\ allowance \in Nat
  /\ \A u \in Users :
       /\ reading[u].active =>
            reading[u].left \in {<<"locked", "debt">>, <<"debt">>, <<"locked">>, <<>>}
       /\ rows[u].shown => rows[u].amount \in Nat \ {0} /\ rows[u].known \in BOOLEAN
       /\ radar[u].shown => radar[u].shares \in Nat \ {0}
  /\ pendingUnlock.shown => pendingUnlock.borrower \in Users
  /\ isAdmin \in BOOLEAN
  /\ pendingLiquidation.shown => pendingLiquidation.shares \in Nat \ {0}
  /\ liquidating \subseteq Users /\ Cardinality(liquidating) <= 1

DeskInit ==
  /\ WebInit
  /\ LockerInit
  /\ lockerAdmin = Operator
  /\ debt = [u \in Users |-> 0]
  /\ posted = [u \in Users |-> Posted]
  /\ price = Max(Prices)
  /\ allowance = 0
  /\ reading = [u \in Users |-> NoFetch]
  /\ rows = [u \in Users |-> NoRow]
  /\ pendingUnlock = NoRow
  /\ isAdmin = TRUE
  /\ radar = [u \in Users |-> NoRow]
  /\ pendingLiquidation = NoRow
  /\ liquidating = {}
  /\ screen \in Screens
  /\ scanned \in SUBSET Users
  /\ owed = [f \in 1..MaxFlows |-> {}]

-----------------------------------------------------------------------------
(* The chains, apart from the operator.                                    *)

Healthy(u, owes) == owes * 100 <= posted[u] * price * LltvPercent

SetDebt(u, shares) ==
  /\ debt' = [debt EXCEPT ![u] = shares]
  /\ owed' = [f \in 1..MaxFlows |->
                IF f \in DOMAIN flows /\ flows[f].args.borrower = u
                THEN owed[f] \cup {shares} ELSE owed[f]]

BorrowerActs(u) ==
  /\ \/ \E n \in Loans : Healthy(u, debt[u] + n) /\ SetDebt(u, debt[u] + n)
     \/ \E n \in Payments : debt[u] >= n /\ SetDebt(u, debt[u] - n)
  /\ UNCHANGED <<webVars, lockerVars, posted, price, allowance, queueVars, pendingUnlock, isAdmin, radarVars, boundVars>>

(* Bound: before the operator hands the role over; no unlock of the         *)
(* operator executes after that.                                            *)
BorrowerLocks(u) ==
  /\ "queue" \in screen
  /\ lockerAdmin = Operator
  /\ \E a \in Amounts, d \in Deadlines : Lock(u, a, d)
  /\ UNCHANGED <<webVars, mainnetVars, queueVars, pendingUnlock, isAdmin, radarVars, boundVars, owed>>

(* The operator hands the role over.  Bounds: once, while a row is being    *)
(* confirmed, and after one lock.                                           *)
AdminChanges ==
  /\ "queue" \in screen
  /\ lockerAdmin = Operator
  /\ pendingUnlock.shown /\ flows = <<>> /\ Cardinality(lockerConsumed) = 1
  /\ \E a \in Admins \ {lockerAdmin} : SetAdmin(lockerAdmin, a)
  /\ UNCHANGED <<webVars, mainnetVars, queueVars, pendingUnlock, isAdmin, radarVars, boundVars, owed>>

PriceMoves ==
  /\ "radar" \in screen
  /\ price' \in Prices \ {price}
  /\ UNCHANGED <<webVars, lockerVars, debt, posted, allowance, queueVars, pendingUnlock, isAdmin, radarVars, boundVars, owed>>

-----------------------------------------------------------------------------
(* useReleaseQueue: two reads for every borrower, of two chains, all        *)
(* borrowers side by side.                                                  *)

(* A mutant: the debt is read before the locked balance. *)
ReverseOrder == <<"debt", "locked">>

Order == <<"locked", "debt">>

(* A fetch, which takes the place of one that is still running.  Borrowers  *)
(* come from the scan, and the operator's own address is added to them; the *)
(* lock id of one whose events the scan missed is the zero hash.            *)
Fetch == [active |-> TRUE, left |-> Order, amount |-> 0, debt |-> 0, counted |-> 0, issued |-> 0]

Begun == reading' = [u \in Users |-> Fetch]

BeginQueue ==
  /\ "queue" \in screen
  /\ lockerConsumed # {}
  /\ Begun
  /\ UNCHANGED <<webVars, chainVars, rows, pendingUnlock, isAdmin, radarVars, boundVars, owed>>

(* One answer; without a locked balance the second read is not made. *)
ReadBorrower(u) ==
  LET r == reading[u] IN
  /\ r.active
  /\ r.left # <<>>
  /\ reading' = [reading EXCEPT ![u] =
       IF Head(r.left) = "locked"
       THEN [r EXCEPT !.amount = lockedBalance[u], !.counted = EverLocked(u),
                      !.left = IF lockedBalance[u] = 0 THEN <<>> ELSE Tail(@)]
       ELSE [r EXCEPT !.debt = debt[u], !.issued = EverLocked(u), !.left = Tail(@)]]
  /\ UNCHANGED <<webVars, chainVars, rows, pendingUnlock, isAdmin, radarVars, boundVars, owed>>

(* A failed read drops the borrower from this result. *)
ReadFails(u) ==
  /\ reading[u].active
  /\ reading[u].left # <<>>
  /\ reading' = [reading EXCEPT ![u] = [Fetch EXCEPT !.left = <<>>]]
  /\ UNCHANGED <<webVars, chainVars, rows, pendingUnlock, isAdmin, radarVars, boundVars, owed>>

(* A borrower without a locked balance has no row. *)
RowOf(u) ==
  LET r == reading[u]
      note(n) == IF r.debt = 0 THEN n ELSE 0
  IN IF r.active /\ r.amount # 0
     THEN [shown |-> TRUE, borrower |-> u, amount |-> r.amount, ready |-> r.debt = 0,
           known |-> u \in scanned, counted |-> note(r.counted), issued |-> note(r.issued)]
     ELSE NoRow

Fetching == \E u \in Users : reading[u].active

(* All reads are done: the result replaces what is shown. *)
ShowQueue ==
  /\ Fetching
  /\ \A u \in Users : reading[u].active => reading[u].left = <<>>
  /\ rows' = [u \in Users |-> RowOf(u)]
  /\ reading' = [u \in Users |-> NoFetch]
  /\ UNCHANGED <<webVars, chainVars, pendingUnlock, isAdmin, radarVars, boundVars, owed>>

-----------------------------------------------------------------------------
(* Unlocking, from the page admin/release-queue: a row is confirmed in a    *)
(* modal; and from the dashboard, without one.                              *)

(* useCollateralLockerAdmin: the admin is polled like any read. *)
ReadAdmin ==
  /\ isAdmin' = (lockerAdmin = Operator)
  /\ isAdmin' # isAdmin
  /\ UNCHANGED <<webVars, chainVars, queueVars, pendingUnlock, radarVars, boundVars, owed>>

UnlockBusy == status["unlock"] \in {"unlocking", "confirming"}

UnlockArgs(row) ==
  [amount |-> row.amount, full |-> FALSE, market |-> TRUE, debt |-> Unknown, shares |-> 0,
   known |-> row.known /\ isAdmin, borrower |-> row.borrower,
   counted |-> row.counted, issued |-> row.issued]

Begin(h, args) == Start(h, args) /\ h \in Startable[Len(flows')]

(* Its button needs the admin, a row that is ready and a lock id. *)
UnlockOffered(u) == isAdmin /\ rows[u].shown /\ rows[u].ready /\ rows[u].known /\ ~UnlockBusy

ClickUnlock(u) ==
  /\ UnlockOffered(u)
  /\ ~pendingUnlock.shown
  /\ pendingUnlock' = rows[u]
  /\ Show("unlock", "idle")
  /\ UNCHANGED <<flows, network, prompts, pending, mined, reverted, replaced, reloads,
                 chainVars, queueVars, isAdmin, radarVars, boundVars, owed>>

(* The modal looks at the status, which is still idle while the network is  *)
(* asked for: it can be confirmed or closed again until then.               *)
ConfirmUnlock ==
  /\ pendingUnlock.shown
  /\ ~UnlockBusy
  /\ Begin("unlock", UnlockArgs(pendingUnlock))
  /\ UNCHANGED <<chainVars, queueVars, pendingUnlock, isAdmin, radarVars, boundVars, owed>>

(* Escape, the backdrop, the cross and Cancel. *)
CloseModal ==
  /\ pendingUnlock.shown
  /\ ~UnlockBusy
  /\ pendingUnlock' = NoRow
  /\ Show("unlock", "idle")
  /\ UNCHANGED <<flows, network, prompts, pending, mined, reverted, replaced, reloads,
                 chainVars, queueVars, isAdmin, radarVars, boundVars, owed>>

(* handleProcessRelease: processingId is set before the first await and     *)
(* cleared in a finally; every button is disabled meanwhile.                *)
ProcessRelease(u) ==
  /\ isAdmin /\ rows[u].shown /\ rows[u].ready
  /\ Running("release") = {}
  /\ Begin("release", UnlockArgs(rows[u]))
  /\ UNCHANGED <<chainVars, queueVars, pendingUnlock, isAdmin, radarVars, boundVars, owed>>

-----------------------------------------------------------------------------
(* useLiquidationRadar and handleConfirmLiquidation.                       *)

(* HF = collateral * price * LLTV / debt against 1.0, 1.1 and 1.25. *)
RiskLevel(u) ==
  LET value == posted[u] * price * LltvPercent
  IN IF value < 100 * debt[u] THEN "liquidatable"
     ELSE IF value * 10 < 1100 * debt[u] THEN "danger"
     ELSE IF value * 4 < 500 * debt[u] THEN "warning"
     ELSE "safe"

(* A borrower's position is read; without debt it is not listed. *)
RefreshRadar(u) ==
  /\ "radar" \in screen
  /\ radar' = [radar EXCEPT ![u] =
                 IF debt[u] = 0 THEN NoRow
                 ELSE [shown |-> TRUE, borrower |-> u, shares |-> debt[u], risk |-> RiskLevel(u)]]
  /\ radar' # radar
  /\ UNCHANGED <<webVars, chainVars, queueVars, pendingUnlock, isAdmin,
                 pendingLiquidation, liquidating, boundVars, owed>>

(* Trigger Liq: the row is kept for the modal.  The buttons of the other    *)
(* borrowers stay enabled while a liquidation runs.                         *)
LiquidationOffered(u) ==
  radar[u].shown /\ radar[u].risk = "liquidatable" /\ u \notin liquidating

ClickLiquidate(u) ==
  /\ LiquidationOffered(u)
  /\ ~pendingLiquidation.shown
  /\ pendingLiquidation' = radar[u]
  /\ UNCHANGED <<webVars, chainVars, queueVars, pendingUnlock, isAdmin, radar, liquidating,
                 boundVars, owed>>

(* Escape, the backdrop, the cross and Cancel. *)
DismissLiquidation ==
  /\ pendingLiquidation.shown
  /\ pendingLiquidation' = NoRow
  /\ UNCHANGED <<webVars, chainVars, queueVars, pendingUnlock, isAdmin, radar, liquidating,
                 boundVars, owed>>

(* Confirm: the modal closes at once. *)
ConfirmLiquidation ==
  LET row == pendingLiquidation IN
  /\ row.shown
  /\ Begin("liquidate", [borrower |-> row.borrower, amount |-> 0, full |-> FALSE,
                         market |-> TRUE, debt |-> Unknown, shares |-> row.shares])
  /\ pendingLiquidation' = NoRow
  /\ liquidating' = {row.borrower}
  /\ owed' = [owed EXCEPT ![Len(flows')] = {debt[row.borrower]}]
  /\ UNCHANGED <<chainVars, queueVars, pendingUnlock, isAdmin, radar, boundVars>>

(* The finally of handleConfirmLiquidation: the end of one liquidation      *)
(* frees every button.                                                      *)
EndsLiquidation ==
  liquidating' = IF \E f \in Running("liquidate") : flows'[f].stage \in Ended
                 THEN {} ELSE liquidating

(* A mutant: the radar's snapshot is repaid. *)
UseSnapshot(f) ==
  /\ AwaitsAt(f, "warming") /\ flows[f].hook = "liquidate"
  /\ LET shares == flows[f].args.shares
         next == IF allowance < shares THEN 1 ELSE 2
     IN /\ flows' = [flows EXCEPT ![f].stage = "connecting", ![f].step = next]
        /\ Show("liquidate", HookOf(f).writes[next].status)
  /\ EndsLiquidation
  /\ UNCHANGED <<network, prompts, pending, mined, reverted, replaced, reloads, chainVars, queueVars,
                 pendingUnlock, isAdmin, radar, pendingLiquidation, boundVars, owed>>

(* The position and the allowance are read again: nothing is sent for a     *)
(* debt that is gone, and an approval only if the allowance is too small.   *)
ReadFresh(f) ==
  /\ AwaitsAt(f, "warming") /\ flows[f].hook = "liquidate"
  /\ LET shares == debt[flows[f].args.borrower]
         next == IF allowance < shares THEN 1 ELSE 2
     IN IF shares = 0
        THEN Fail(f)
        ELSE /\ flows' = [flows EXCEPT ![f].stage = "connecting", ![f].step = next,
                                       ![f].args.shares = shares]
             /\ Show("liquidate", HookOf(f).writes[next].status)
  /\ EndsLiquidation
  /\ UNCHANGED <<network, prompts, pending, mined, reverted, replaced, reloads, chainVars, queueVars,
                 pendingUnlock, isAdmin, radar, pendingLiquidation, boundVars, owed>>

-----------------------------------------------------------------------------
(* Flows, the wallet and the mempool.                                      *)

StepDesk(f) ==
  /\ flows[f].hook = "liquidate" => ~AwaitsAt(f, "warming")
  /\ AwaitsAt(f, "refreshing") => ~Fetching
  /\ Advance(f)
  /\ IF flows[f].hook # "liquidate" /\ flows'[f].stage = "refreshing"
     THEN Begun /\ UNCHANGED rows
     ELSE UNCHANGED queueVars
  /\ pendingUnlock' = IF flows[f].hook = "unlock" /\ flows'[f].stage = "succeeded"
                      THEN NoRow ELSE pendingUnlock
  /\ EndsLiquidation
  /\ UNCHANGED <<chainVars, isAdmin, radar, pendingLiquidation, boundVars, owed>>

AnswerDesk(t) ==
  /\ Sign(t) \/ Reject(t)
  /\ EndsLiquidation
  /\ UNCHANGED <<chainVars, queueVars, pendingUnlock, isAdmin, radar, pendingLiquidation,
                 boundVars, owed>>

(* The contract does not look at the debt, nor at the lock's id. *)
MineUnlock(t) ==
  LET a == ArgsOf(t)
      executes == lockerAdmin = Operator /\ CanUnlock(a.borrower, a.amount)
  IN
  /\ CallOf(t) = "unlock"
  /\ MinedAs(t, executes)
  /\ IF executes
     THEN \E id \in LocksOf(a.borrower) : Unlock(Operator, a.borrower, a.amount, id)
     ELSE UNCHANGED lockerVars
  /\ UNCHANGED <<mainnetVars, queueVars, pendingUnlock, isAdmin, radarVars, boundVars, owed>>

(* Morpho seizes the repaid value and a bonus of 4 %; it refuses a healthy  *)
(* position, more shares than are owed, and more collateral than is posted. *)
Seized(shares) == (shares * 104) \div (100 * price)

CanLiquidate(a) ==
  /\ ~Healthy(a.borrower, debt[a.borrower])
  /\ a.shares <= debt[a.borrower]
  /\ a.shares <= allowance
  /\ Seized(a.shares) <= posted[a.borrower]

MineMorpho(t) ==
  LET a == ArgsOf(t) IN
  /\ \/ /\ CallOf(t) = "approveMax"
        /\ MinedAs(t, TRUE)
        /\ allowance' = MaxAllowance
        /\ UNCHANGED <<debt, posted, owed>>
     \/ /\ CallOf(t) = "liquidate"
        /\ MinedAs(t, CanLiquidate(a))
        /\ IF CanLiquidate(a)
           THEN /\ SetDebt(a.borrower, debt[a.borrower] - a.shares)
                /\ posted' = [posted EXCEPT ![a.borrower] = @ - Seized(a.shares)]
                /\ allowance' = allowance - a.shares
           ELSE UNCHANGED <<debt, posted, allowance, owed>>
  /\ UNCHANGED <<price, lockerVars, queueVars, pendingUnlock, isAdmin, radarVars, boundVars>>

CancelDesk(t) ==
  /\ Replaced(t)
  /\ UNCHANGED <<chainVars, queueVars, pendingUnlock, isAdmin, radarVars, boundVars, owed>>

DeskNext ==
  \/ \E u \in Users :
       \/ BorrowerActs(u)
       \/ BorrowerLocks(u)
       \/ ReadBorrower(u)
       \/ ReadFails(u)
       \/ ClickUnlock(u)
       \/ ProcessRelease(u)
       \/ RefreshRadar(u)
       \/ ClickLiquidate(u)
  \/ PriceMoves
  \/ AdminChanges
  \/ ReadAdmin
  \/ DismissLiquidation
  \/ ConfirmLiquidation
  \/ BeginQueue
  \/ ShowQueue
  \/ ConfirmUnlock
  \/ CloseModal
  \/ \E f \in DOMAIN flows : ReadFresh(f) \/ StepDesk(f)
  \/ \E t \in prompts : AnswerDesk(t)
  \/ \E t \in pending : MineUnlock(t) \/ MineMorpho(t) \/ CancelDesk(t)

DeskSpec == DeskInit /\ [][DeskNext]_deskVars

-----------------------------------------------------------------------------
(* "Unlock complete!": a release that either page calls done has left the   *)
(* locker, or the operator has replaced it in the wallet; a transaction     *)
(* that reverted is never one (useUnlockCollateral.ts:160, the only hook    *)
(* that looks at its receipt).                                              *)
SuccessMeansUnlocked ==
  \A f \in DOMAIN flows :
    flows[f].hook \in {"unlock", "release"} /\ flows[f].stage = "succeeded"
      => <<f, 1>> \in Accepted

(* A release takes out no lock made after its borrower was seen without     *)
(* debt, although the balance and the debt of its row are read from two     *)
(* chains at two times and the borrower locks and borrows on: unless        *)
(* another release has taken, since the row was read, what the row counted. *)
LaterLocksStay ==
  [][\A t \in mined' \ mined :
       LET a == ArgsOf(t)
           u == a.borrower
       IN CallOf(t) = "unlock" /\ EverReleased(u) = a.counted - a.amount
          => lockedBalance'[u] >= EverLocked(u) - a.issued]_deskVars

(* What a liquidation repays is a debt the borrower had after the operator  *)
(* confirmed it, never the debt the radar showed before.                    *)
LiquidationIsFresh ==
  \A t \in prompts \cup pending \cup mined :
    CallOf(t) = "liquidate" => ArgsOf(t).shares \in owed[t[1]] \ {0}

=============================================================================
