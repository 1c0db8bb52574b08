------------------------------- MODULE PageReads -------------------------------
(***************************************************************************)
(* The pages' cache of contract reads and what the user does by it.        *)
(*                                                                         *)
(* Every read of Views has an entry in SWR's cache, filled by fetches that *)
(* take their time: on mounting, on an interval, when the window gets the  *)
(* focus, after an error, and when a transaction of the user has           *)
(* invalidated it.  The user presses MAX and the button of an action as    *)
(* the views allow; the transaction is mined in a state that may no longer *)
(* be the one that was read.                                               *)
(*                                                                         *)
(* SWR's own rules are part of the model: one fetch per key, of which a    *)
(* newer one supersedes an older; an invalidation discards what was on its *)
(* way; a key in error is not polled, but retried RetryCount times.        *)
(***************************************************************************)
EXTENDS Views, WalletClients, FiniteSets

CONSTANTS
  RetryCount,  \* errorRetryCount of SWRProvider
  Scenarios,   \* bounds: what is read, from which state, and how often
               \* things happen, one record per instance
  Prices,      \* the prices the oracle may report
  Interest     \* bound: the market's debt grows by this in one step

(* The two chains as the reads see them; what is owed is counted in shares. *)
(* Morpho's totals are those of the market's lastUpdate; pending is the     *)
(* interest since then, which no read has.                                  *)
ChainStates ==
  [usdy: Nat, locked: Nat, acusdy: Nat, posted: Nat, shares: Nat, totalAssets: Nat,
   totalShares: Nat, pending: Nat, price: Nat, stale: BOOLEAN, lltv: Nat, liquidity: Nat]

ASSUME ReadsAssumption ==
  /\ RetryCount \in Nat /\ Prices \subseteq Nat \ {0} /\ Interest \in Nat
  /\ \A s \in Scenarios : s.reads \subseteq ReadKeys /\ s.openings \subseteq ChainStates

(* Morpho's market where a behaviour opens: its LLTV is below 100 %, the    *)
(* user's shares are among all shares, a debt whose collateral is gone was  *)
(* written off, and a share of the debt is worth at most two units over     *)
(* VirtualShares, also after the interest of the whole behaviour.           *)
ASSUME MarketAssumption ==
  \A s \in Scenarios :
    /\ s.states \in Nat
    /\ \A x \in s.openings :
         /\ x.lltv <= LltvScale /\ x.price > 0
         /\ x.shares <= x.totalShares
         /\ x.shares > 0 => x.posted > 0
         /\ VirtualShares * ((x.totalAssets + x.pending + 1) + s.states * Interest)
              <= 2 * (x.totalShares + VirtualShares)

VARIABLES
  scenario,  \* the bounds of this behaviour
  states,    \* the states of the two chains so far, the last one is current
  entry,     \* the cache: where a key's data was read, and failures in a row,
             \* more than RetryCount of them when the read is given up
  fetching,  \* the fetch of a key that counts
  flow,      \* the user's transaction
  clicks,    \* number of transactions so far
  outages    \* number of failed fetches so far

cacheVars == <<states, entry, fetching, flow, clicks, outages>>
others == <<scenario, walletVars>>
pageVars == <<cacheVars, others>>

Now == Len(states)
Current == states[Now]
Reads == scenario.reads

(* Data read in state number mantle (ethereum); 0: no data. *)
NoEntry == [mantle |-> 0, ethereum |-> 0, since |-> 0, failures |-> 0]
NoFetch == [open |-> FALSE, mantle |-> 0, ethereum |-> 0, since |-> 0, attempt |-> 0]
NoFlow == [kind |-> "none", amount |-> 0, asked |-> 0, sure |-> FALSE,
           stage |-> "none", at |-> 0, waits |-> {}]  \* stages: filled, sent, mined, ...

PageInit ==
  /\ scenario \in Scenarios
  /\ states \in {<<x>> : x \in scenario.openings}
  /\ entry = [k \in ReadKeys |-> NoEntry]
  /\ fetching = [k \in ReadKeys |-> NoFetch]
  /\ flow = NoFlow
  /\ clicks = 0
  /\ outages = 0
  /\ WalletInit

-----------------------------------------------------------------------------
(* The cache.                                                              *)

HasData(k) == entry[k].mantle # 0
UpToDate(ks) == \A k \in ks : HasData(k) /\ entry[k].ethereum = Now

(* A fetch of one chain reads it; one of both chains reads each in its turn.*)
Fetch(k, attempt) ==
  [open |-> TRUE, since |-> Now, attempt |-> attempt,
   mantle |-> IF Read[k].kind = "cross-chain" THEN 0 ELSE Now,
   ethereum |-> IF Read[k].kind = "cross-chain" THEN 0 ELSE Now]

StartFetch(k, attempt) == fetching' = [fetching EXCEPT ![k] = Fetch(k, attempt)]

(* The hook is mounted and the SDK ready: the key is not null any more.     *)
Mount(k) ==
  /\ k \in Reads
  /\ ~fetching[k].open /\ ~HasData(k) /\ entry[k].failures = 0
  /\ StartFetch(k, 0)
  /\ UNCHANGED <<states, entry, flow, clicks, outages, others>>

(* Bound: what is up to date is not read again, on whatever occasion; the   *)
(* answer would be the same or be superseded.                               *)
WouldChange(k) == ~UpToDate({k}) \/ entry[k].mantle # Now \/ entry[k].failures > 0

(* refreshInterval. *)
Poll(k) ==
  /\ k \in Reads
  /\ Read[k].polled
  /\ WouldChange(k)
  /\ ~fetching[k].open /\ HasData(k) /\ entry[k].failures = 0
  /\ StartFetch(k, 0)
  /\ UNCHANGED <<states, entry, flow, clicks, outages, others>>

(* A mutant: a failed read is never tried again. *)
NoRetry(k) == FALSE /\ UNCHANGED pageVars

(* errorRetryCount. *)
Retry(k) ==
  /\ k \in Reads
  /\ ~fetching[k].open
  /\ entry[k].failures \in 1..RetryCount
  /\ StartFetch(k, entry[k].failures)
  /\ UNCHANGED <<states, entry, flow, clicks, outages, others>>

(* The window gets the focus: every key that follows it is read anew. *)
Focus ==
  /\ fetching' = [k \in ReadKeys |->
                    IF /\ k \in Reads /\ Read[k].onFocus
                       /\ ~fetching[k].open /\ WouldChange(k)
                    THEN Fetch(k, 0) ELSE fetching[k]]
  /\ UNCHANGED <<states, entry, flow, clicks, outages, others>>

(* One side of a fetch of both chains answers. *)
SideAnswers(k) ==
  /\ fetching[k].open
  /\ \E side \in {"mantle", "ethereum"} :
       /\ fetching[k][side] = 0
       /\ fetching' = [fetching EXCEPT ![k][side] = Now]
  /\ UNCHANGED <<states, entry, flow, clicks, outages, others>>

Settle(k) ==
  /\ fetching' = [fetching EXCEPT ![k] = NoFetch]
  /\ flow' = [flow EXCEPT !.waits = @ \ {k}]

(* A mutant: a side that has not answered keeps its old value. *)
ArriveInParts(k) ==
  /\ fetching[k].open
  /\ LET side(s) == IF fetching[k][s] = 0 THEN entry[k][s] ELSE fetching[k][s] IN
       /\ side("mantle") # 0 /\ side("ethereum") # 0
       /\ entry' = [entry EXCEPT ![k] = [mantle |-> side("mantle"), ethereum |-> side("ethereum"),
                                         since |-> fetching[k].since, failures |-> 0]]
  /\ Settle(k)
  /\ UNCHANGED <<states, clicks, outages, others>>

Arrive(k) ==
  /\ fetching[k].open
  /\ fetching[k].mantle # 0 /\ fetching[k].ethereum # 0
  /\ entry' = [entry EXCEPT ![k] = [mantle |-> fetching[k].mantle,
                                    ethereum |-> fetching[k].ethereum,
                                    since |-> fetching[k].since, failures |-> 0]]
  /\ Settle(k)
  /\ UNCHANGED <<states, clicks, outages, others>>

(* The node does not answer or answers with an error: the data stays, the   *)
(* error is kept beside it.  One whose message contains 'revert' is not     *)
(* retried (shouldRetryOnError): it gives the read up at once.              *)
Break(k) ==
  /\ fetching[k].open
  /\ outages < scenario.outages
  /\ outages' = outages + 1
  /\ \E n \in {fetching[k].attempt + 1, RetryCount + 1} :
       entry' = [entry EXCEPT ![k].failures = n]
  /\ Settle(k)
  /\ UNCHANGED <<states, clicks, others>>

-----------------------------------------------------------------------------
(* What the pages have: toReadResult. *)
ReadResult(k) ==
  [known |-> HasData(k),
   x |-> IF HasData(k) THEN states[entry[k].ethereum] ELSE Current,
   isLoading |-> fetching[k].open /\ ~HasData(k),
   isError |-> entry[k].failures > 0]

Page == [k \in ReadKeys |-> ReadResult(k)]

-----------------------------------------------------------------------------
(* The chains.                                                             *)

(* Morpho: debt rounded up, after the interest; the limit rounded down      *)
(* twice.                                                                   *)
Owed(x) ==
  CeilingDiv(x.shares * (x.totalAssets + x.pending + 1), x.totalShares + VirtualShares)
MaxBorrow(x) == FloorDiv(FloorDiv(x.posted * x.price, PriceScale) * x.lltv, LltvScale)
IsHealthy(x) == x.shares = 0 \/ (~x.stale /\ Owed(x) <= MaxBorrow(x))

Becomes(x) == Now < scenario.states /\ states' = Append(states, x)

(* Morpho accrues interest lazily, in the calls that need it. *)
Accrued(x) == [x EXCEPT !.totalAssets = @ + x.pending, !.pending = 0]

(* What the user's transaction makes of state x, once interest is accrued. *)
Moved(kind, n, x) ==
  CASE kind = "borrow" ->
         LET s == CeilingDiv(n * (x.totalShares + VirtualShares), x.totalAssets + 1)
         IN [x EXCEPT !.shares = @ + s, !.totalShares = @ + s, !.totalAssets = @ + n,
                      !.liquidity = @ - n]
    [] kind = "withdraw" -> [x EXCEPT !.posted = @ - n, !.acusdy = @ + n]
    [] kind = "supplyCollateral" -> [x EXCEPT !.acusdy = @ - n, !.posted = @ + n]
    [] kind = "lock" -> [x EXCEPT !.usdy = @ - n, !.locked = @ + n]

Done(kind, n, x) ==
  Moved(kind, n, IF kind \in {"borrow", "withdraw"} THEN Accrued(x) ELSE x)

Executes(kind, n, x) ==
  LET y == Done(kind, n, x) IN
    /\ y.posted >= 0 /\ y.acusdy >= 0 /\ y.usdy >= 0 /\ y.liquidity >= 0
    /\ kind \in {"borrow", "withdraw"} => IsHealthy(y)

(* Time passes; somebody else's call accrues what is pending; the oracle. *)
InterestGrows ==
  "interest" \in scenario.market /\ Becomes([Current EXCEPT !.pending = @ + Interest])
OthersAccrue == Current.pending > 0 /\ Becomes(Accrued(Current))
PriceMoves(v) ==
  "price" \in scenario.market /\ v # Current.price /\ Becomes([Current EXCEPT !.price = v])
PriceAges ==
  "age" \in scenario.market /\ ~Current.stale /\ Becomes([Current EXCEPT !.stale = TRUE])

(* scripts/relayer.mjs: a lock it has seen is signed and submitted, once and *)
(* without looking at the receipt; it need not come to pass.                *)
Mint ==
  /\ Current.locked > Current.acusdy + Current.posted
  /\ Becomes([Current EXCEPT !.acusdy = Current.locked - Current.posted])

ChainMoves ==
  /\ InterestGrows \/ OthersAccrue \/ (\E v \in Prices : PriceMoves(v)) \/ PriceAges \/ Mint
  /\ UNCHANGED <<entry, fetching, flow, clicks, outages, others>>

-----------------------------------------------------------------------------
(* The user.  One action at a time: WebTx has several.                     *)

Offers(kind) ==
  CASE kind = "borrow" -> BorrowOffers(Page)
    [] kind = "withdraw" -> WithdrawOffers(Page)
    [] kind = "supplyCollateral" -> SupplyOffers(Page)
    [] kind = "lock" -> LockOffers(Page)

Disabled(kind, n) ==
  CASE kind = "borrow" -> BorrowDisabled(Page, n)
    [] kind = "withdraw" -> WithdrawDisabled(Page)
    [] kind = "supplyCollateral" -> SupplyDisabled(Page)
    [] kind = "lock" -> LockDisabled(Page)

Kinds == {"borrow", "withdraw", "supplyCollateral", "lock"}

(* MAX or a percentage: the amount goes into the input and stays there,     *)
(* whatever the reads become.                                               *)
FillInput(kind) ==
  /\ flow.stage \in {"none", "filled", "succeeded"}
  /\ clicks < scenario.clicks
  /\ \E n \in Offers(kind) :
       flow' = [NoFlow EXCEPT !.kind = kind, !.amount = n, !.stage = "filled"]
  /\ UNCHANGED <<states, entry, fetching, clicks, outages, others>>

(* The button of the action.  Only a borrow compares the amount with what   *)
(* the page knows by now.                                                   *)
ClickAction ==
  /\ flow.stage = "filled"
  /\ clicks < scenario.clicks
  /\ ~Disabled(flow.kind, flow.amount)
  /\ flow' = [flow EXCEPT !.stage = "sent", !.asked = Now,
                          !.sure = UpToDate({"position", "debt", "market", "oracle"})]
  /\ clicks' = clicks + 1
  /\ UNCHANGED <<states, entry, fetching, outages, others>>

(* The transaction is mined; the page takes its receipt for a success. *)
MineFlow ==
  /\ flow.stage = "sent"
  /\ IF Executes(flow.kind, flow.amount, Current)
     THEN Becomes(Done(flow.kind, flow.amount, Current))
     ELSE UNCHANGED states
  /\ flow' = [flow EXCEPT !.stage = "mined", !.at = Len(states')]
  /\ UNCHANGED <<entry, fetching, clicks, outages, others>>

(* The input keeps its amount. *)
Rejected ==
  /\ flow.stage = "sent"
  /\ flow' = [NoFlow EXCEPT !.kind = flow.kind, !.amount = flow.amount, !.stage = "filled"]
  /\ UNCHANGED <<states, entry, fetching, clicks, outages, others>>

(* A mutant: only single reads are of the user.                             *)
SinglesOfUser(k) == Read[k].kind = "contract" /\ Read[k].user

(* The keys that contain the user's address. *)
OfTheUser(k) == Read[k].user

(* invalidateBatchReads and, after a lock, invalidateCrossChainReads: read  *)
(* anew, the data stays meanwhile.                                          *)
ReadAnew(k) == Read[k].kind = IF flow.kind = "lock" THEN "cross-chain" ELSE "batch"

(* invalidateUserReads: the data goes and is read anew; what was on its way *)
(* does not count any more.  The flow waits for these reads.                *)
Invalidate ==
  /\ flow.stage = "mined"
  /\ entry' = [k \in ReadKeys |-> IF OfTheUser(k) THEN NoEntry ELSE entry[k]]
  /\ fetching' = [k \in ReadKeys |->
                    IF k \in Reads /\ (OfTheUser(k) \/ ReadAnew(k)) THEN Fetch(k, 0)
                    ELSE fetching[k]]
  /\ flow' = [flow EXCEPT !.stage = "refreshing", !.waits = {k \in Reads : OfTheUser(k)}]
  /\ UNCHANGED <<states, clicks, outages, others>>

(* setStatus('success'). *)
Succeed ==
  /\ flow.stage = "refreshing"
  /\ flow.waits = {}
  /\ flow' = [flow EXCEPT !.stage = "succeeded"]
  /\ UNCHANGED <<states, entry, fetching, clicks, outages, others>>

-----------------------------------------------------------------------------
(* Bound: the number of times the wallet changes. *)
UseWallet ==
  /\ \/ Len(effects) < scenario.wallets /\ \E a \in Wallets \cup {NoWallet} : ChangeWallet(a)
     \/ \E i \in DOMAIN effects : ClientsArrive(i) \/ ClientsFail(i)
  /\ UNCHANGED <<scenario, cacheVars>>

PageNext ==
  \/ \E k \in ReadKeys :
       Mount(k) \/ Poll(k) \/ Retry(k) \/ SideAnswers(k) \/ Arrive(k) \/ Break(k)
  \/ Focus
  \/ ChainMoves
  \/ \E kind \in Kinds : FillInput(kind)
  \/ ClickAction
  \/ MineFlow
  \/ Rejected
  \/ Invalidate
  \/ Succeed
  \/ UseWallet

PageSpec == PageInit /\ [][PageNext]_pageVars

(***************************************************************************)
(* Fairness: a fetch ends (viem's transport times out), SWR's timers fire  *)
(* while the tab is visible, and the page goes on with its own flow.       *)
(* Nobody has to focus the window or to mine anything.                     *)
(***************************************************************************)
ReadGoesOn(k) == Mount(k) \/ Poll(k) \/ Retry(k) \/ SideAnswers(k) \/ Arrive(k) \/ Break(k)

FairPages ==
  /\ PageSpec
  /\ \A k \in ReadKeys : WF_pageVars(ReadGoesOn(k))
  /\ WF_pageVars(Invalidate \/ Succeed)

-----------------------------------------------------------------------------
(* When the page says that a transaction succeeded, it no longer shows      *)
(* anything of the user from before the receipt, whatever was on its way    *)
(* when the reads were invalidated: a read of the user is at least as new   *)
(* as the receipt, or is shown as failed or loading ("Invalidate all cached *)
(* reads that include the user's address", lib/swr/invalidation.ts:6).      *)
FreshAfterSuccess ==
  flow.stage = "succeeded" =>
    \A k \in Reads \cap {"usdyBalance", "locked", "acusdy", "usdc", "position", "debt"} :
      \/ entry[k].ethereum >= flow.at
      \/ ~HasData(k) /\ (entry[k].failures > 0 \/ fetching[k].open)

(* What the borrow page calls a pending attestation really was locked and   *)
(* not minted at some moment since the oldest of the three reads it is made *)
(* of ("Returns null when any read is incomplete to avoid false positives", *)
(* app/borrow/page.tsx:170), although the three are polled, fail and return *)
(* each on its own.  Between the receipt of the user's transaction and its  *)
(* invalidation they may be of both sides of it.                            *)
PendingIsReal ==
  PendingAttestation(Page) > 0 /\ flow.stage # "mined" =>
    \E i \in 1..Now :
      /\ \E k \in {"locked", "acusdy", "position"} : entry[k].ethereum <= i
      /\ PendingAttestation(Page) = states[i].locked - (states[i].acusdy + states[i].posted)

(* The 0.5 % kept back by safeBorrowCapacity does what its comment says     *)
(* ("to account for Morpho rounding and interest accrual",                  *)
(* app/borrow/page.tsx:135): a MAX borrow of up-to-date reads executes if,  *)
(* until it is mined, the price stays and the debt has grown by less than   *)
(* the buffer, up to three units of rounding, counted from the debt that    *)
(* was read: interest that was pending then is part of the growth.          *)
BorrowBufferCovers ==
  [][LET x == states[flow.asked]
         room == FloorDiv(x.posted * x.price * x.lltv, PriceScale * LltvScale) - DebtAssets(x)
         growth == Owed(Current) - DebtAssets(x)
     IN /\ flow.stage = "sent" /\ flow'.stage = "mined"
        /\ flow.kind = "borrow" /\ flow.sure
        /\ Current.price = x.price /\ ~Current.stale /\ Current.posted = x.posted
        /\ Current.liquidity >= flow.amount
        /\ 1000 * (growth + 3) <= 5 * room
        => states' # states]_pageVars

(* How far the health a page shows can be from the one Morpho would find    *)
(* ("HF < 1.0 means the position exceeds the LLTV threshold and is in the   *)
(* liquidation zone", useLoanHealth.ts:89).  With up-to-date reads a        *)
(* position called in danger can be liquidated, up to three units of        *)
(* rounding.  One that is not called so may owe more than its limit, but    *)
(* only by these units and the user's share of the interest since the       *)
(* market's lastUpdate: market() has none of it, a liquidation accrues it   *)
(* first.  The page rounds the debt down, Morpho rounds it up.              *)
Unshown(x) == CeilingDiv(x.shares * x.pending, x.totalShares + VirtualShares)
ShownHealthIsTrue ==
  UpToDate({"position", "debt", "market", "oracle"}) =>
    IF RiskLevel(Page) = "danger" THEN Owed(Current) + 3 >= MaxBorrow(Current)
    ELSE Owed(Current) <= MaxBorrow(Current) + Unshown(Current) + 3

(* The peg warning is never an artefact of reading two chains: when locked  *)
(* USDY and AcUSDY were in balance from the start of a fetch on, its two    *)
(* sides agree, in whatever order they answered and whatever was shown      *)
(* before ("ensuring values are from the same polling cycle",               *)
(* useCrossChainRead.ts:32).                                                *)
Supply(x) == x.acusdy + x.posted
PegInOneCycle ==
  LET e == entry["tvl"] IN
    /\ HasData("tvl")
    /\ \A i \in e.since..Now : states[i].locked = Supply(states[i])
    => IsBalanced(states[e.mantle].locked, Supply(states[e.ethereum]))

(* Every read comes back: when the chains come to rest, every read that is  *)
(* polled is up to date in the end, unless it was given up, by more         *)
(* failures in a row than retries or by one that is worded as a revert.     *)
(* Then it stays in error until the window gets the focus or a transaction  *)
(* invalidates it.                                                          *)
ReadsComeBack ==
  \A k \in ReadKeys :
    <>[](k \in Reads =>
           \/ HasData(k) /\ (Read[k].polled => entry[k].mantle = Now /\ entry[k].ethereum = Now)
           \/ entry[k].failures > RetryCount)

=============================================================================
