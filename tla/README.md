# Verification of the Mantle xRWA lending bridge

USDY is locked on Mantle, a DVN attests the lock, and the same amount of AcUSDY
is minted on Ethereum, where it is collateral in a Morpho Blue market whose
price comes from a NAV oracle. This directory holds TLA+ specifications of the
parts of that system whose state outlives a call - the contracts, the relayer,
the reconciler, the price updater, and the web application through which users
and the operator act - the TLC runs that check them on small instances, and
TLAPS proofs of every safety property the runs check. `PROJECT.json` lists every
run, every mutant, every hazard and the lines each definition stands for.

## 1. Inventory

| Part | State it keeps | Operations | Talks to |
| --- | --- | --- | --- |
| `CollateralLocker.sol` (Mantle) | admin, paused, totalLocked, lockedBalance, nonces, consumed lock ids | lock, unlock, setAdmin, pause, unpause | USDY token; events read by the relayer and the reconciler |
| `XRWAReceiver.sol` (Ethereum) | dvn, allowed lockers, consumed lock ids, admin | mintWithAttestation, setDVN, setLocker, setAdmin, setAcUSDYTransferAllowed | AcUSDY, as its only minter |
| `AcUSDY.sol` (Ethereum) | supply, balances, allowances, allowed destinations | approve, transfer, transferFrom, mint, burn, setTransferAllowed | the receiver, the market |
| `NAVOracle.sol` (Ethereum) | admin, price, lastUpdate | updatePrice, setAdmin, price (reverts when stale) | price updater, market |
| DVN relayer (`relayer/pkg/dvn`, `pkg/chain`) | processed locks in memory, subscription, polling cursor | backfill, subscribe, catch up, poll, attest, submit | both chains, the store |
| Store (`relayer/pkg/persistence`) | cursor and processed locks, in memory and in a JSON file | SetLastProcessedBlock, MarkProcessed, load, save, Flush | the relayer's two goroutines |
| Reconciler (`relayer/pkg/reconcile`) | none between runs | scan, check, unlock expired orphans | both chains, as administrator of the locker |
| Price updater (`relayer/pkg/priceupdater`) | none between runs | read Ondo, read NAVOracle, update | Ondo's oracle, NAVOracle |
| `MorphoAdapter.sol` | market parameters | initializeMarket, supplyUSDC, withdrawUSDC, supplyCollateral, borrow, repay, withdrawCollateral | Morpho Blue, AcUSDY, USDC |
| Write hooks (`web/hooks/use*USDC*.ts`, `useSupplyAcUSDY`, `useWithdrawAcUSDY`, `useUnlockCollateral`, `useChainAbstracted`) | a status per hook, React state only | guard, connect, sign, wait, refresh | wallet, contracts, the cache |
| Pages (`web/app/borrow`, `lend`, `dashboard`, `admin/release-queue`) | inputs, `isLocking`, `processingId`, an open modal | start the hooks with arguments taken from the reads | hooks, reads |
| Reads (`web/lib/swr`, the read hooks) | SWR's cache: data, error and request in progress per key | fetch, poll, focus, retry, invalidate | both chains |
| Wallet clients (`useDynamicWallet`) | a client and whose it is | fetch on change, cancel | the wallet |
| Release queue (`useReleaseQueue`) and radar (`useLiquidationRadar`) | borrowers in local storage, rows | scan events in chunks, read per borrower | both chains |
| `web/scripts/relayer.mjs` | none | watch events, sign, submit | both chains |
| Deployment scripts | none | sequential | all contracts |

What is hard, and therefore what the specifications are about:

- **Concurrency.** The relayer handles an event in two goroutines at once, with
  a check, a network call and a mark that are not atomic. The reconciler reads
  one chain, then another, then its clock, then acts, while a mint is on its way.
- **Failure.** Every call to an endpoint may fail, or succeed without its
  answer; a transaction may be dropped, delayed past the process that sent it,
  or revert although its gas estimate passed; the store's file may fail to be
  written or be unreadable at the next start.
- **Restart.** What the relayer remembers after a crash must neither swallow a
  lock nor leave a gap in the blocks it scans.
- **Asynchronous pages.** A click starts a sequence of awaits that works with
  the arguments of an old render; the wallet may answer after the page gave up;
  two flows share one status; reads are polled, cached, discarded and retried
  while transactions are mined, and come from two chains that share no block.
- **Ordering and time.** `validUntil` decides between minting and returning, and
  is compared with two clocks; price staleness depends on when a transaction is
  mined, not on when its price was read.

## 2. Modules

| Module | Models | Runs | Proofs |
| --- | --- | --- | --- |
| `CollateralLocker` | the locker with the USDY it moves | `CollateralLocker` | `CollateralLockerProofs` |
| `AcUSDY` | the receipt token | through `MorphoAdapter` and `XRWAReceiver` | `ReceiptProofs` |
| `MorphoAdapter` | extends `AcUSDY`: the adapter and the part of Morpho Blue it calls | `MorphoAdapter` | `ReceiptProofs` |
| `XRWAReceiver` | extends `AcUSDY`: attested mints and their configuration | `XRWAReceiver` | `ReceiptProofs` |
| `LockLifecycle` | abstract: a lock is issued, then minted or returned | through `Bridge` | through `BridgeProofs` |
| `Bridge` | extends both contracts: DVN, mempool, reconciler | `Bridge`, `BridgeRerun` | `BridgeProofs` |
| `Relayer` | the relayer and its store between two chains | `RelayerSafety`, `RelayerLiveness` | `RelayerProofs` |
| `NAVOracle` | the oracle contract | through `PriceUpdater` | |
| `PriceUpdater` | extends `NAVOracle`: the cron job and its transactions | `PriceUpdater` | `PriceUpdaterProofs` |
| `WriteHooks` | the web application's write hooks as a table | through `WebTx` | through `WebTxProofs` |
| `WebTx` | extends `WriteHooks`: flows, prompts, timeouts, mempool of one tab | through the next and `ReleaseDesk` | through `WebTxProofs` |
| `BorrowerSession` | extends `WebTx`: a user at the borrow and lend pages | `BorrowerSession` | `WebTxProofs` |
| `BorrowerScan` | how queue and radar find borrowers | `BorrowerScan` | `WebReadsProofs` |
| `ReleaseDesk` | extends `WebTx` and `CollateralLocker`: the operator's unlocks and liquidations | `ReleaseDesk` | `WebTxProofs` |
| `Views` | the read hooks as a table, and what pages compute | through `PageReads` | through `WebReadsProofs` |
| `WalletClients` | the viem clients of the connected wallet | through `PageReads` | through `WebReadsProofs` |
| `PageReads` | extends `Views` and `WalletClients`: the cache and what the user does by it | `PageReads` | `WebReadsProofs` |

`FiniteSums` holds the lemmas about sums over finite sets that the proofs of the
locker, the receipts and the bridge share. The modules whose names begin with
`MC` give the constants their small sets. Operators whose comment begins with "A
mutant" are plausible bugs; no specification uses them, and replacing the
definition they follow by them breaks the property that `PROJECT.json` names.

### CollateralLocker

One action per external function, with the caller as a parameter. `usdy` and
`escrow` are the USDY balances of the users and of the contract, `donated`
remembers what was sent to the contract without `lock()`, `released` the ids
`unlock()` was called with. A lock id is the tuple that is hashed (borrower,
amount, deadline, nonce); the hash is taken to be injective. Chain id, contract
address and credential hash, which are constant or free and play no role in the
accounting, are left out of the tuple.

- `FreshLockIds`: the id computed next was never issued.
- `BooksBalance`: total, balances and token agree, so no unlock can underflow.
- `UserWhole`: no administrator action moves value between users.

The equality in the comment at `CollateralLocker.sol:43` holds only while
nobody sends USDY to the contract directly; `BooksBalance` states what holds.

### AcUSDY, XRWAReceiver and MorphoAdapter

Balances are bounded by `MaxUint`, the limit of the type. In the run of
`XRWAReceiver` mints reach it: one that would pass it reverts in the checked
addition, and its message stays unconsumed. A transfer reads and writes balances
one after the other as the code does, so that self-transfers are covered. A
signature is taken to be unforgeable: calldata is a message with the key that
signed it, any account may submit any such pair any number of times, and a key
that is no DVN stands for every signature that recovers to something else.
`mintLog` is history: the messages that minted.

- `SupplyIsSum`, `SupplyIsMinted`: nothing creates or destroys receipts but an
  attested mint (and, for the token alone, `burn`).
- `NoPeerHop`: no receipt goes from one holder to another while the destination
  is not allowed.
- `SpendingIsApproved`: nobody's balance falls by more than they, or the
  allowance they gave, permitted.
- `OneMintPerLock`, `ConsumedIffMinted`: one mint per id, and no failed attempt
  uses an id up, over any change of keys, lockers and administrators.

`burn` is an action of the token's own specification; the receiver never calls
it, so it is not an action of `XRWAReceiver`.

`MorphoAdapter` has two kinds of behaviour, told apart by `stage`: the token
alone with every one of its functions near the limit of the type, and the market
with two users, the adapter and Morpho Blue. Morpho is external; it is modelled
from the calls the adapter makes and from `test/utils/Mocks.sol`: what it pulls,
whom it pays, that it refuses zero, more than is owed and an unhealthy position.
A call that pulls, approves and passes on is one action, as it is one
transaction.

- `AdapterKeepsNothing`: between two calls the adapter has no USDC, no AcUSDY
  but what was sent to it by hand, and no approval to Morpho left over, and
  Morpho has what its books say.

### Bridge and LockLifecycle

`Bridge` puts both contracts beside each other. The DVN signs the event of every
lock and nothing else, and anyone may submit what it signed at any later time,
so the relayer appears as `RelayMint`, enabled for each lock from its event on.
`Reconcile` is `Run()` one call at a time: scan, clock, a consumed flag per lock
(or an error that leaves the lock out), and a transaction per expired orphan,
which sits in `inFlight` until it is mined, before or after the process is
gone. `Interrupt` may come at any point. A mined unlock executes if the locker
still allows it and reverts otherwise.

`time.Now()` (`reconciler.go:133`) is the clock of the reconciler's host. Nothing
keeps it in step with the timestamps of Ethereum's blocks, and the comparison
with `validUntil` (`reconciler.go:156`) has no margin. `ReadClock` may read any
time up to `HostLead` ahead of Ethereum's; `HostLead` is any natural number. A
lock minted less than `HostLead` before its deadline is in `mintedLate`, which is
history.

`LockLifecycle` is what a user is promised for clocks that differ by at most
`Margin`: a lock is issued once, minted once and not after its deadline, and
returned only within the margin of its deadline or after it; one minted before
the margin is never returned, and one that was returned is minted only within
the margin. With `Margin = 0` it is minted or returned, never both.
`ImplementsLifecycle` says that `Bridge` implements it under the mapping issued =
the locker's consumed ids, minted = the receiver's consumed ids, returned = the
released ids, margin = `HostLead`. (A second release of the
same lock is a stutter there; that it costs another lock its backing is what
`BridgeRerun` shows.)

- `ReleasedNeverMinted`: a lock that is both returned and minted was minted less
  than `HostLead` before its deadline.
- `OneRunKeepsReceipts`: one run, interrupted or not, leaves the receipts of
  every user covered none of whose locks was minted that late.

### Relayer

`main` is `monitorEvents()`: `mode` names the place in `runSubscription()` or
`pollEvents()`. `consumer` is the goroutine that drains the subscription. Both
process events through the same actions: `SkipEvent` (duplicate, or consumed on
Ethereum), `AcceptEvent`, `Submit`, `SubmitAnswerLost`, `SubmitFails`, `Mark`.
The store has a memory and a file; saving may fail, the file may be unreadable
at the next start. `Start` and `Stop` are the process, with and without the
last flush. `ChannelCloses` says whether the subscription closes the `logs`
channel: go-ethereum and the repository's mock do not, a comment at
`relayer.go:271` expects it. Safety is checked with TRUE, which allows every
behaviour FALSE allows and those after it as well.

`origin` is history: the first block the relayer ever scanned.

- `CursorCovers`: the cursor never passes a lock that was not handed to
  Ethereum, in memory or in the file, whatever failed or crashed.
- `DuplicatesHandedOver`: what counts as a duplicate was handed over.
- `NoGap`: backfill, catch-up and subscription leave no event out.
- `OnlyExpiryBlocks`: in polling mode only an expired lock keeps a later one
  from being minted.

Overlap of consumer and catch-up is in the model: both may pass the check for
one lock before either marks it and submit it twice, despite the comment at
`relayer.go:572`. The receiver's consumed flag makes the second one harmless
(`OneMintPerLock`).

### NAVOracle and PriceUpdater

A run is modelled call by call. Its transaction is mined during the run, or
later and within `MaxDelay`. `quotedAt` is history: when the price now in the
oracle was read from Ondo. `UpdateByHand` is `updatePrice` called by another
administrator (`NAVOracle.sol:127`).

- `UsableIsRecent`: a price the market can use is at most `MaxAge + MaxDelay`
  old, late transactions included.
- `BoundedOutage`: the market lacks a price for at most one period per failed
  run, plus one for the price that was skipped.

### WriteHooks, WebTx and BorrowerSession

Every write hook is the same procedure, so `WriteHooks` is a table whose rows
record where they differ: chain, guards, the writes with the status shown before
each, whether the wallet's answer is raced with a timeout, whether the receipt's
status is looked at. `WebTx` runs the procedure, one action per await. A click
appends a flow to `flows`; `prompts` are the wallet's open windows and outlive
both the timeout and a reload; `pending` is the mempool. The user may cancel a
transaction in the wallet or send another in its place: viem's
`waitForTransactionReceipt` then answers with the receipt of the replacement
(`replaced`), which says success. `BorrowerSession` adds
the user's balances (`w`), the page's reads (`seen`), the buttons with their
guards, and what each transaction does. Two flows run at a time, of one page or
of two. The buttons that dismiss an outcome reset the hook even when another of
its flows still runs, which is why properties do not rest on `status`.

- `OneLockAtATime`: `isLocking` keeps a second deposit away from the click to the
  end of the handler, whatever the status shows.
- `BufferCovers`: a full repayment clears the debt if it grew by no more than the
  0.1 % added to a debt that was read before the approval.
- `ApprovalsAreSpent`: when all went well nothing may be taken any more, but for
  that buffer. A session in which an action was rejected, reverted or replaced is
  left out: its approval stays, as no hook takes one back.
- `FlowsEnd`: a flow that stands at a prompt, a receipt or the refresh ends,
  though nobody signs and nothing is mined; only a deposit may come to stand at
  the network again, before its second write. `withdraw` and `supplyBundle` have
  untimed prompts and are left out: they do hang with the wallet.

### BorrowerScan and ReleaseDesk

`BorrowerScan` is the scan of `Locked` events that the queue and the radar share,
with each one's rules (`rules`): where a scan starts, what is returned when a
chunk fails, when the store is used instead. Fetches overlap, nodes lag, local
storage may refuse. `ReleaseDesk` puts the operator's pages over
`CollateralLocker`: a fetch reads the locked balance on Mantle and then the debt
on Ethereum for each borrower, a row is confirmed in a modal or released from the
dashboard at once, and the unlock goes through `WebTx`. The radar's rows, its
modal and the fresh reads before a liquidation are in the same module, since they
share the wallet and the transactions. The lock id sent to `unlock` is one of
the borrower's; the contract does not look at it.

- `StoredIsComplete`, `LocksAreFound`: no failure, overlap or expiry leaves a gap
  in what is stored, and every reachable lock is listed in the end.
- `SuccessMeansUnlocked`: what is shown as done was executed, or replaced by the
  operator in the wallet; a reverted transaction never is.
- `LaterLocksStay`: a release takes out no lock made after its borrower was seen
  without debt, unless another release has taken what the row counted since the
  row was read. The order of the two reads is what it rests on.
- `LiquidationIsFresh`: what is repaid is a debt of after the confirmation.

### Views, WalletClients and PageReads

`Views` lists the read hooks (what is in their cache key, how they are polled)
and defines what the pages compute: available balance, borrowing capacity and its
buffer, safe withdrawal, pending attestation, the conditions that disable
buttons, the risk level, the peg. `PageReads` is the cache under them: an entry
per key with the number of the chain state its data was read in, a fetch in
progress, failures in a row. The rules of SWR that matter (a newer fetch
supersedes an older one, an invalidation discards what is on its way, a key in
error is retried and not polled, an error worded as a revert is not retried) are
part of the model. `states` is the history of both chains, so that a property can
say which state a value is of.

Morpho accrues interest lazily. `market()`, which `useBorrowerDebt.ts:57` reads,
returns the totals of its `lastUpdate`; `pending` is the interest since then,
which no read has. A borrow or a withdrawal of collateral accrues it first
(`Accrued`, then `Moved`), as a liquidation would (`Owed`), and so may anybody
else's call (`OthersAccrue`).

- `FreshAfterSuccess`: after a success nothing of the user is older than the
  receipt.
- `PendingIsReal`: what is called pending was locked and not minted at some
  moment since the oldest of its three reads.
- `BorrowBufferCovers`: a MAX borrow of up-to-date reads executes while the debt
  exceeds the debt that was read by less than the 0.5 % kept back; interest that
  was pending when it was read counts against the buffer.
- `ShownHealthIsTrue`: what is called "danger" can be liquidated, up to three
  units of rounding; what is not owes at most these units and the user's share
  of the pending interest more than its limit.
- `PegInOneCycle`: the two sides of the peg are of one fetch.
- `ReadsComeBack`: a read comes back unless it was given up, by more failures in
  a row than retries or by one worded as a revert.
- `ClientIsTheWallets`: the client shown is the connected wallet's, however late
  the answers of earlier wallets come.

## 3. Runs

| Run | Instance | Shows |
| --- | --- | --- |
| `CollateralLocker` | 2 users with 3 USDY, 2 administrators, nonces to 2 | type, freshness, books, users whole |
| `MorphoAdapter` | 2 users, adapter and Morpho; limit 3, amounts 0 to 2 | supply, restricted transfers, allowances, nothing left in the adapter |
| `XRWAReceiver` | 2 ids, 2 keys, 2 administrators, clock to 2, limit 3 | one mint per lock, atomic mints, also at the limit |
| `Bridge` | 1 user with 2 locks of one or two units, 2 runs, any interruption, a host clock 1 ahead | both only in the last second, life cycle, one run keeps receipts |
| `BridgeRerun` | the same with amounts of one and clocks that agree | violated: a second run leaves a receipt without backing |
| `RelayerSafety` | 3 blocks, 2 locks (also in one block), 2 starts, all faults | cursor, deduplication, no gap |
| `RelayerLiveness` | polling, 2 locks, a restart, failing calls, expiry | only expiry blocks |
| `PriceUpdater` | 3 quotes (one absurd), 2 administrators, of whom one updates by hand, `MaxAge` 4, period 2, delay 3 | recency, bounded outage |
| `BorrowerSession` | 2 flows, the first of 4 and the second of 6 hooks, a reload, one accrual, the first flow's first transaction may be replaced | one lock at a time, exact approvals, the repayment's buffer, no flow hangs at a timed await |
| `BorrowerScan` | 2 borrowers, 2 overlapping fetches, 3 blocks, chunk and lookback 2, lag 1 | complete store, locks found |
| `ReleaseDesk` | a borrower with 2 locks, 2 flows of the operator, of which the first's transaction may be replaced, a successor as administrator, 2 prices | done means unlocked, later locks stay, fresh liquidations |
| `PageReads` | 8 scenarios of up to 4 reads, 3 states of the chains, 1 transaction, 5 failures, 4 changes of wallet | freshness, pending amounts, buffer, health, peg, recovery, clients |

Why the bounds are enough. The hazards are about one lock against another, so
two locks (in one block, or in two) are what it takes; one restart separates
what is in memory from what is in the file; two reconciler runs separate a
transaction from the run that sent it; three blocks give ranges with a block
before, at and after each boundary. `RelayerSafety` sets `MayExpire` to FALSE:
for its invariants an expired lock is a submission that fails (which `RpcFaults`
allows) or a transaction that mints nothing (which `MayDrop` allows). In the
price runs time is bounded by `MaxTime`, past which nothing happens, and in the
relayer runs the chain ends at `MaxBlock` and the last start is not stopped:
these runs end, so they do not check deadlock. All other runs do. In
`XRWAReceiver` a constraint bounds allowances, which its properties do not read;
in `MorphoAdapter` one bounds how many allowances are positive at a time, as two
are what a transfer by a third party takes.

In the web runs a hazard is one flow against another, or one read against one
transaction, so two flows, or one flow and two or three reads, are enough; each
scenario of `MCPageReads` names the reads it is about and leaves the others out.
One of them opens with a position that only interest pending since `lastUpdate`
has taken over its limit. These runs end when the clicks, states or failures are
used up and do not check deadlock. In `ReleaseDesk` the queue and the radar are
not on screen together: they share the wallet only, and a release and a
liquidation both as flows are what `BorrowerSession` does with two hooks. There
the role of the administrator is handed over after one lock, and the borrower
locks nothing after that, when no unlock of the operator executes any more.
Amounts are small units, and prices and the LLTV integers over small scales;
USDC in `BorrowerSession` has 100000 units to the dollar, so that 0.1 % of a
debt is not rounded away.

### Fairness

`RelayerLiveness`: goroutines
are scheduled (weak fairness of each worker's next step). Retries of one
submission are finite, and a call that is repeated for ever does not fail for
ever (strong fairness of a submission, and of recognising a duplicate, for each
lock). Ethereum mines what its node accepted unless it drops it. The operator
restarts the process when it is down (`RestartedRelayerSpec`). Users' locks,
stops, faults and the clocks are never forced.

`FairSession`: the timers of the hooks fire (60 s at a prompt, viem's three
minutes for a receipt) and the refetches after a success return. Nobody has to
sign or reject, nothing has to be mined, and the wallet need not answer
`getWalletClient`, `getNetwork` or `switchNetwork`, on which no timer is set
(`useWalletWarmup.ts:47`, `useChainAbstracted.ts:100`, `useRepayUSDC.ts:191`).
`FairScan`: the page keeps fetching, its calls stop failing in the end, and days
pass. `FairPages`: a fetch ends (viem's transport times out), SWR's timers fire
while the tab is visible; nobody has to focus the window. A read that was given
up is not promised to come back, which the property says.

### Findings

1. **The reconciler is not idempotent** (`BridgeRerun`). Nothing records that an
   orphan was unlocked: `unlock()` does not look at its lock id, and the next
   run finds the same expired, unconsumed lock. If the borrower has another
   lock, its USDY is released, and its receipt on Ethereum has no backing. This
   is against "1:1 receipt" (`README.md:94`, `TvlPegDisplay.tsx:13`).

### Known limits

Behaviour met while modelling that a reader of the code should know. Each follows
from the lines named; the properties above are stated so that they hold with it.

- Relayer. With a subscription nothing moves the cursor, so a restart backfills
  nothing (`relayer.go:300`, against the comment at 293). After an error of the
  subscription the relayer waits for `logs` to be closed, which nobody does
  (`relayer.go:272`). A lock is stored as processed when its transaction is sent,
  and a dropped transaction is never sent again (`relayer.go:831`).
- Reconciler. A lock minted in the last moments before its deadline may also be
  returned, if the reconciler's host is ahead of Ethereum's block timestamps by
  more than what is left: expiry has no margin (`reconciler.go:133`, 156). A lock
  returned that early may still be minted.
- Price updater. An unchanged price is not pushed until it is stale
  (`updater.go:188`), so that `BoundedOutage`, and not the four-fold margin of
  `cmd/price-updater/main.go:39`, is what holds.
- Receipts. Every write hook but `useUnlockCollateral` takes a reverted
  transaction for a success, and every one takes the receipt of a transaction
  that replaced its own for its own: a release cancelled in the wallet is shown
  as complete.
- Wallet. A wallet that never answers a request for its client or its network
  leaves the hook waiting (`useChainAbstracted.ts:98`), for a deposit with
  `isLocking` and for a release of the dashboard with `processingId` set. Only a
  reload, or leaving the page, frees the button.
- Buttons. Until a hook sets its first status, and after its prompt timed out,
  its button can be pressed again while the first transaction may still be
  signed. Only the lock has a flag of its own, which leaving the page resets.
  "Dismiss" on the lend page (`lend/page.tsx:455`) resets the hooks of both tabs,
  also the one whose transaction is in progress.
- Release queue. A row is ready when the debt is 0, though its AcUSDY is still
  outstanding; nothing burns it (`AcUSDY.sol:21`, 162). Two releases may be
  started from one stale row, one in the modal and one on the dashboard. The
  first takes what the row counted; the second takes the same amount again if
  the borrower has locked anew meanwhile, whatever was borrowed on that.
- Radar. The end of one liquidation frees the button of every other
  (`dashboard/page.tsx:287`). When the debt fell between the fresh read and the
  transaction, Morpho reverts; the comment at `dashboard/page.tsx:265` expects it
  to succeed with the rest.
- Views. The available balance takes the locked USDY off a wallet balance that
  no longer has it (`borrow/page.tsx:93`), and `toFixed(2)` may round it up.
  While the market is loading its LLTV is 0 and "danger" is shown. Debt and
  health are of the market's `lastUpdate`: in a market nobody touches, a
  position that interest has made liquidatable may be shown as safe. Between the
  receipt of a withdrawal and its invalidation a poll may show a pending
  attestation that is none. A MAX withdrawal with a debt may revert by a unit of
  rounding.
- Reads. A read whose error message contains "revert" is not retried
  (`SWRProvider.tsx:21`), and any other only three times. Such a read stays in
  error, and is not polled, until the window gets the focus or a transaction
  invalidates it.
- `MorphoAdapter.sol` says "0 for full repayment" (172) and the like (116, 192);
  Morpho Blue reverts on zero. AcUSDY sent to the listed adapter by hand stays
  there.

## 4. Proofs

| Theorem | States |
| --- | --- |
| `LockerTypeCorrect`, `LockIdsAreFresh`, `UsersStayWhole`, `BooksAlwaysBalance` | `CollateralLocker`: type, freshness, users whole, books |
| `ReceiverTypeCorrect`, `LocksMintOnce`, `ConsumedLocksMinted`, `SupplyIsWhatWasMinted` | `XRWAReceiver`: type, one mint per lock, consumed iff minted, supply |
| `SupplyIsInBalances`, `AdapterPassesAllOn`, `ReceiptsDoNotHop`, `SpendingWasApproved` | `MorphoAdapter` and `AcUSDY`: supply, nothing left behind, no peer hop, allowances |
| `BridgeTypeCorrect`, `NeverBoth`, `BridgeImplementsLifecycle`, `OneRunLeavesReceiptsBacked` | `Bridge`: type, never both, refinement, receipts kept until a second run |
| `RelayerTypeCorrect`, `NothingBehindTheCursor`, `OnlyHandedOverIsSkipped`, `SubscriptionLeavesNoGap` | `Relayer`: type, cursor, duplicates, no gap |
| `PriceTypeCorrect`, `UsablePricesAreRecent`, `OutagesAreBounded` | `PriceUpdater`: type, recency, bounded outage |
| `OneDepositAtATime`, `SessionsLeaveNothingApproved`, `BuffersSuffice` | `BorrowerSession`: one lock at a time, approvals spent, the repayment's buffer |
| `NoLockIsSkipped` | `BorrowerScan`: the stored list is complete |
| `SuccessIsUnlocked`, `ReleasesTakeOldLocks`, `LiquidationsAreFresh` | `ReleaseDesk`: done means unlocked, later locks stay, fresh debts |
| `SuccessShowsFresh`, `PendingWasReal`, `PegIsOfOneCycle`, `ClientsAreTheWallets` | `PageReads`: freshness, pending amounts, peg, clients |
| `HealthIsTrue`, `BorrowsFit` | `PageReads`: the risk shown, the borrow's buffer |

All hold for every value of the constants that satisfies the named assumptions,
which TLC evaluates in the runs. Most only give the constants their types. Those
that say more:

- `TokenAssumption`, `LockerAssumption`, `ScanAssumption`: accounts, users and
  borrowers are finite sets, without which there are no sums over them.
- `AdapterAssumption`: adapter and Morpho are accounts that are not users, and
  what is dealt out at the start is below `MaxUint`: an allowance of `MaxUint` is
  never used up, so a supply as large would make `AdapterKeepsNothing` false.
- `SessionAssumption`: a session opens with balances that are not negative and
  with a debt index, which Morpho starts above 0.
- `MarketAssumption`: the market `PageReads` opens with is one that Morpho
  keeps: the LLTV is at most 100 %, the user's shares are among all shares, a
  debt without collateral was written off, prices are positive, and
  `VirtualShares` shares are worth at most two units until the behaviour ends,
  interest pending at the start and all that may be added included. Morpho opens
  a market at one unit for `VirtualShares` shares, so that the last is an
  interest of less than 100 % in all.

One theorem has a hypothesis of its own, `SessionsLeaveNothingApproved`
(`NothingApproved`: the session opens without allowances; what an earlier one
left over, or was given on another site, is not the hooks' doing).

### The contracts

`FreshLockIds` is not inductive: the invariant proved says that every issued id
of a user has a nonce below the user's current one. `UserWhole` needs only the
type. `OneMintPerLock` and `ConsumedIffMinted` are proved together: a mint is
appended only for an id that is not consumed, and the consumed ids are those in
the log.

The sums (`BooksBalance`, `SupplyIsSum`, `SupplyIsMinted`) are folds over
functions, which take the elements in an order that `CHOOSE` fixes. `FiniteSums`
proves what is needed of them once: the sum over a finite set is what any of its
elements contributes and the sum over the rest (`TotalTakesAny`), hence it
changes with one element by as much as the element does. The induction is on the
strict subsets of a finite set, which the library knows to be well founded. The
library's induction theorems take an operator as a parameter and cannot be used;
its statement about minimal elements takes a set, and a property of subsets can
be given as one.

`AdapterInv` strengthens `AdapterKeepsNothing` by the types, the market's types,
the sum of the balances and a supply below `MaxUint`. Each call through the
adapter pulls, approves and passes on the same amount, so its balance before and
after is what was sent to it by hand, and each allowance it gives is used up in
the call that gave it. `ReceiptsDoNotHop` and `SpendingWasApproved` are action
properties and follow from the same invariant, one function at a time; a
self-transfer, where the two writes are to one balance, is a case of its own.

### The bridge

Call a lock forfeit when its deadline is less than `HostLead` ahead of
Ethereum's clock, or past, and it is not minted unless it was minted late. No
step ends this (`ForfeitStays`): the clock only grows, and a forfeit lock that
is minted is minted within `HostLead` of its deadline, hence late. `ReturnInv`
says that every lock on its way to being returned - orphan, in flight or
released - is forfeit, and that the run's `now` is at most `HostLead` ahead. It
is inductive: a lock becomes an orphan when `now` is past its deadline and it is
not consumed. Here it counts that the clock is read before the flags: a lock
that is not consumed now, and was expired by a `now` of earlier, can only be
minted late from here on. `HostLead` is any natural number, so that nothing is
assumed of the clocks. The refinement follows from the same invariant, one
action at a time.

`OneRunKeepsReceipts` needs two more parts. Sums over locks: the locker's
balances are what its unreturned locks are worth, the receipts what the minted
ones are (`BackingInv`). And until a second run starts no lock is in two of the
reconciler's hands - unchecked, orphan, awaited, in flight, released - at a time
(`HandledOnce`), so that each is released at most once and takes no balance of
another lock. Of a user none of whose locks was minted late, no released lock is
minted (`ReleasedNeverMinted`), and so the minted ones are among those that
still back something. A second run breaks `HandledOnce` first; that is the
finding of `BridgeRerun`.

### The relayer

`RelayerTypeOK` is not inductive alone: that a restart loads locks that exist
rests on `DuplicatesHandedOver`, and that in turn on marking a lock after its
transaction was accepted (`MarkedWasSent`). The invariant (`RelayerInv`) says of
the blocks of events that they do not decrease (`InOrder`); of a scan that its
range is handed over up to what is left to do or in main's hand (`ScanCovers`);
of polling that everything before `fromBlock` is handed over (`PollingCovers`);
of the cursors that they are not ahead of the chain (`BehindHead`); and of
`origin` that it does not move while memory or file know of a scan
(`OriginStays`). The last is where restarts matter: a start that finds the file
unreadable begins anew, and the blocks between the two origins must not be
counted as covered. `CursorCovers` follows when a scan that is done moves the
cursor, since nothing is left in `todo`. `GapClosed` is what the catch-up and
the consumer share: every event since the snapshot is queued, in somebody's
hand, handed over, or is one whose error the consumer dropped. `NoGap` is a part
of it.

### The price updater

For `UsableIsRecent` the invariant says that a transaction's quote is as old as
the transaction, because a run sends the price it read and time is counted in
units longer than a run, and that no transaction outlives `MaxDelay`. For
`BoundedOutage` it relates the schedule to the failures so far: between runs the
next one is no later than one period per failure, plus one, after the price goes
stale; a run that ends with an error uses one more period, and one that ends
well leaves a price that is not stale at that moment. `Slack` names the product
of failures and period, so that the arithmetic that is not linear stays in one
lemma.

### The borrower's session

`OneLockAtATime` rests on the invariant that `isLocking` holds while a flow of
the lock runs and that only one does. Every other step leaves a flow its hook
and never revives one that has ended (`Continues`), so that the flag, cleared
when the lock's flow ends, is never cleared while one runs; a reload ends all
flows. Nothing is assumed of the arguments of the flows or of what was read.

`SessionInv` follows a write from the prompt to the chain: a flow asks for each
of its writes once, for the second when the first is no longer on its way, and
prompts, pending, mined and reverted writes are apart (`WritesInv`). A debt read
for a full repayment is not above what its shares owe now, since the index only
grows (`FullInv`). An allowance is then 0, or at most what a flow gave whose
spending is not mined, or at most the buffer of a full repayment (`AllowedInv`);
one flow's approval may replace another's, which is why it says "a flow" and not
which. When all flows have succeeded every spending is mined and only the buffer
remains. `BufferCovers` uses the same invariant: what is owed, rounded up, is
within the 0.1 %, and so is what the repayment pulls.

### The release desk and the scan

`DeskInv` has a part per thing the operator acts by. Flows and writes
(`FlowsInv`: an unlock that is shown as done has an executed write of its flow);
that what was ever locked is finite and only grows (`LocksInv`); what a read, a
row and a release then count (`ReadsInv`, `RowsInv`, `ReleasesInv`: never more
than was locked when the debt was read as 0); and the debts of the radar
(`RadarInv`, `DebtsInv`: a liquidation on its way repays a debt the borrower had
after the confirmation). The order of the two reads of a fetch is used in one
place, `ReadBorrowerInv`.

For `StoredIsComplete` the locks are ordered by block, a stored list covers the
blocks from where a lagging node could have started to its last block, and what
a running fetch has found covers those up to `next`. A chunk that fails ends a
fetch without storing; two overlapping fetches store lists that are each
complete for what they claim.

### The reads

For `ClientIsTheWallets` the invariant is that all effects but the last are
cancelled, that the last is the connected wallet's, that its arrival kept a
client of that wallet, and that the client was kept together with its wallet. A
late answer belongs to a cancelled effect and changes nothing.

`PagesInv` says, per key: its data and its fetch are read in order (`DataInv`,
`RequestInv`); after an invalidation neither is older than the receipt, and a
read of the user without data is on its way or has failed (`FreshInv`); until a
transaction is mined the user's locked USDY and collateral did not change since
either was read (`QuietInv`). And of the chains: while locked USDY and AcUSDY
are in balance nothing is locked (`PegInv`). The three properties follow at
once. That `PendingIsReal` may name a single moment, though its reads are of
three, is `QuietInv`: only the AcUSDY can have changed between them.

`LoanInv` adds to it that the debt has collateral and its share is worth what
`MarketAssumption` allows after the interest so far, shown or pending
(`MarketInv`), and that a
borrow on its way asks for at most 99.5 % of the room there was when it was asked
for (`BorrowInv`). The rest is arithmetic that is not linear, in lemmas about
natural numbers: the debt rounded down without virtual shares is at most two
units below and one above the debt rounded up with them (`DebtRoundsUp`); the
limit rounded after each factor is less than two units below the exact one
(`LimitRoundsDown`); a borrow of `n` adds at most `n + 2` to what is owed
(`BorrowAdds`); what is owed with the pending interest is at most what is owed
without it and the user's share of it (`InterestAdds`). The three units both
properties allow are two for the debt and one for the limit. A borrow accrues
first, which changes nothing of what is owed (`OwedOnceAccrued`), so that
`BorrowBufferCovers` is about the debt with the interest and `ShownHealthIsTrue`
about the difference. Without the bound on a share's worth the difference
grows with the interest, for the page leaves out the virtual shares and Morpho
does not.

## 5. What is only model-checked

Liveness is outside what the proof system supports: `OnlyExpiryBlocks`,
`FlowsEnd`, `LocksAreFound` and `ReadsComeBack` are checked by runs only. Every
invariant and every action property of a passing run is proved.

## 6. What is not modelled

- Hashing and signatures: keccak256 is injective and signatures are unforgeable.
- Reorganisations of either chain: the code has no handling of them.
- Gas, nonces of the relayer's transactions, and EIP-712 encoding. Two
  goroutines using one nonce is a transaction that is replaced:
  `DropTransaction`.
- The relayer's health flags, metrics and log lines, and its mode without a
  store.
- The dry run of the price updater and the retries inside a call.
- Deployment scripts but for the step that allows the locker.
- The web application's layout, wording and formatting, the APY estimate
  (`useSupplyAPY`), the dashboard's totals, `useFundWallet`, the environment.
- `web/scripts/relayer.mjs` appears in `PageReads` as `Mint` only. It keeps no
  cursor and no store and retries nothing, so that nothing is promised of it: a
  lock it does not see, or whose transaction fails, is left to the reconciler.
- Morpho's interest curve, bad debt and fees: interest is a step of the debt.
- A user at two tabs, but for the shared local storage of `BorrowerScan`.

## 7. Plan

The contracts, the bridge with the reconciler, the relayer, the price updater,
the adapter and the web application from the wallet to the pages are modelled,
and what must never happen in them is proved. To come:

1. Promises across modules that follow from theorems of one: that no history of
   the bridge mints more than was locked, without the assumption of one run; that
   the relayer submits a lock for `RelayMint` only after its event.
2. The safety part of `OnlyExpiryBlocks`: that a lock before the cursor that is
   neither minted nor expired has a transaction, unless one was dropped.
3. An abstract specification of the scan, a growing set of blocks with the
   borrowers in it, which `BorrowerScan` implements.
