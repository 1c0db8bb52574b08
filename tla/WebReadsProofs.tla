---------------------------- MODULE WebReadsProofs ----------------------------
(***************************************************************************)
(* What the pages read: the wallet's clients, the cache of PageReads and   *)
(* the amounts computed from it, and the stored list of BorrowerScan.      *)
(***************************************************************************)
EXTENDS PageReads, BorrowerScan, SequenceTheorems, FiniteSetTheorems,
        WellFoundedInduction, TLAPS

Effects == [owner: Wallets, cancelled: BOOLEAN, end: {"waiting", "arrived", "failed"}]

(* All effects but the last are cancelled, the last is the connected        *)
(* wallet's, and a client was kept together with its wallet.                *)
WalletInv ==
  /\ wallet \in Wallets \cup {NoWallet}
  /\ effects \in Seq(Effects)
  /\ client = cached
  /\ \A i \in DOMAIN effects : ~effects[i].cancelled => i = Len(effects) /\ wallet # NoWallet
  /\ wallet # NoWallet =>
       /\ Len(effects) > 0
       /\ effects[Len(effects)].owner = wallet
       /\ ~effects[Len(effects)].cancelled
       /\ effects[Len(effects)].end = "arrived" => cached = wallet

LEMMA WalletInvShown == WalletInv => ClientIsTheWallets
BY DEF WalletInv, ClientIsTheWallets, ShownClient

LEMMA WalletInvInit == WalletInit => WalletInv
BY DEF WalletInit, WalletInv

LEMMA WalletInvStays == WalletInv /\ UNCHANGED walletVars => WalletInv'
BY DEF WalletInv, walletVars

(* The cleanup of the last effect runs before the new one starts.           *)
LEMMA WalletInvChanges ==
  ASSUME WalletInv, NEW a \in Wallets \cup {NoWallet}, ChangeWallet(a)
  PROVE  WalletInv'
<1> DEFINE stopped == [i \in DOMAIN effects |-> [effects[i] EXCEPT !.cancelled = TRUE]]
           fresh == [owner |-> a, cancelled |-> FALSE, end |-> "waiting"]
<1>1. /\ stopped \in Seq(Effects) /\ Len(stopped) = Len(effects)
      /\ \A i \in DOMAIN stopped : stopped[i].cancelled
  <2>1. DOMAIN effects = 1..Len(effects) /\ Len(effects) \in Nat
    BY DEF WalletInv
  <2>2. ASSUME NEW i \in DOMAIN effects
        PROVE  /\ [effects[i] EXCEPT !.cancelled = TRUE] \in Effects
               /\ [effects[i] EXCEPT !.cancelled = TRUE].cancelled
    <3>1. effects[i] \in Effects
      BY DEF WalletInv
    <3>2. PICK o \in Wallets, c \in BOOLEAN, e \in {"waiting", "arrived", "failed"} :
            effects[i] = [owner |-> o, cancelled |-> c, end |-> e]
      BY <3>1 DEF Effects
    <3>3. ASSUME NEW b \in BOOLEAN
          PROVE  [effects[i] EXCEPT !.cancelled = b] = [owner |-> o, cancelled |-> b, end |-> e]
      BY <3>2
    <3>4. [effects[i] EXCEPT !.cancelled = TRUE] = [owner |-> o, cancelled |-> TRUE, end |-> e]
      BY <3>3, Zenon
    <3> QED
      BY <3>4 DEF Effects
  <2>3. stopped \in [1..Len(effects) -> Effects]
    BY <2>1, <2>2
  <2>4. stopped \in Seq(Effects) /\ Len(stopped) = Len(effects)
    BY <2>1, <2>3, SeqDef, LenProperties
  <2> QED
    BY <2>2, <2>4
<1>2. CASE a = NoWallet
  <2>1. effects' = stopped
    BY <1>2 DEF ChangeWallet
  <2> HIDE DEF stopped
  <2> QED
    BY <1>1, <1>2, <2>1 DEF WalletInv, ChangeWallet
<1>3. CASE a # NoWallet
  <2>1. effects' = Append(stopped, fresh) /\ fresh \in Effects
    BY <1>3 DEF ChangeWallet, Effects
  <2> HIDE DEF stopped
  <2>2. /\ effects' \in Seq(Effects) /\ Len(effects') = Len(stopped) + 1
        /\ effects'[Len(effects')] = fresh
        /\ \A i \in DOMAIN effects' : i # Len(effects') => effects'[i] = stopped[i] /\ i \in DOMAIN stopped
    BY <1>1, <2>1 DEF Effects
  <2> QED
    BY <1>1, <1>3, <2>2 DEF WalletInv, ChangeWallet
<1> QED
  BY <1>2, <1>3

(* An answer counts only while its effect is not cancelled, that is, while  *)
(* it is the last one.                                                      *)
LEMMA WalletInvAnswers ==
  ASSUME WalletInv, NEW i \in DOMAIN effects, ClientsArrive(i) \/ ClientsFail(i)
  PROVE  WalletInv'
<1>1. PICK e \in {"arrived", "failed"} : effects' = [effects EXCEPT ![i].end = e]
  BY DEF ClientsArrive, ClientsFail
<1>2. effects' \in Seq(Effects) /\ Len(effects') = Len(effects) /\ wallet' = wallet
  <2>1. effects[i] \in Effects
    BY DEF WalletInv
  <2>2. [effects[i] EXCEPT !.end = e] \in Effects
    BY <2>1 DEF Effects
  <2>3. effects' = [effects EXCEPT ![i] = [effects[i] EXCEPT !.end = e]]
    BY <1>1
  <2> QED
    BY <2>2, <2>3 DEF WalletInv, ClientsArrive, ClientsFail
<1>3. \A j \in DOMAIN effects' :
        /\ effects'[j].owner = effects[j].owner
        /\ effects'[j].cancelled = effects[j].cancelled
        /\ j # i => effects'[j].end = effects[j].end
  BY <1>1 DEF WalletInv, Effects
<1>4. client' = cached'
  BY DEF WalletInv, ClientsArrive, ClientsFail
<1>5. ASSUME wallet # NoWallet, effects'[Len(effects')].end = "arrived"
      PROVE  cached' = wallet
  <2>1. CASE i = Len(effects)
    BY <1>1, <1>5, <2>1, <1>2, <1>3 DEF WalletInv, Effects, ClientsArrive, ClientsFail
  <2>2. CASE i # Len(effects)
    BY <1>2, <1>3, <1>5, <2>2 DEF WalletInv, Effects, ClientsArrive, ClientsFail
  <2> QED
    BY <2>1, <2>2
<1> QED
  BY <1>2, <1>3, <1>4, <1>5 DEF WalletInv

(* No other action of the page touches the wallet or its clients.           *)
LEMMA WalletInvNext == WalletInv /\ [PageNext]_pageVars => WalletInv'
<1> SUFFICES ASSUME WalletInv, [PageNext]_pageVars PROVE WalletInv'
  OBVIOUS
<1>1. CASE UseWallet
  BY <1>1, WalletInvChanges, WalletInvAnswers DEF UseWallet
<1>2. CASE \E k \in ReadKeys :
             Mount(k) \/ Poll(k) \/ Retry(k) \/ SideAnswers(k) \/ Arrive(k) \/ Break(k)
  <2>1. UNCHANGED walletVars
    BY <1>2 DEF Mount, Poll, Retry, SideAnswers, Arrive, Break, others
  <2> QED
    BY <2>1, WalletInvStays
<1>3. CASE Focus \/ ChainMoves \/ ClickAction \/ MineFlow \/ Rejected \/ Invalidate \/ Succeed
  <2>1. UNCHANGED walletVars
    BY <1>3 DEF Focus, ChainMoves, ClickAction, MineFlow, Rejected, Invalidate, Succeed, others
  <2> QED
    BY <2>1, WalletInvStays
<1>4. CASE \E kind \in Kinds : FillInput(kind)
  <2>1. UNCHANGED walletVars
    BY <1>4 DEF FillInput, others
  <2> QED
    BY <2>1, WalletInvStays
<1>5. CASE UNCHANGED pageVars
  <2>1. UNCHANGED walletVars
    BY <1>5 DEF pageVars, others
  <2> QED
    BY <2>1, WalletInvStays
<1> QED
  BY <1>1, <1>2, <1>3, <1>4, <1>5 DEF PageNext

(* The client a page writes with is never another wallet's than the         *)
(* connected one, and an earlier wallet's late answer does not replace it   *)
(* (useDynamicWallet: the cancelled flag and cacheReady).                   *)
THEOREM ClientsAreTheWallets == PageSpec => []ClientIsTheWallets
<1>1. PageInit => WalletInv
  BY WalletInvInit DEF PageInit
<1> QED
  BY <1>1, WalletInvNext, WalletInvShown, PTL DEF PageSpec

-----------------------------------------------------------------------------
(* The cache of reads.                                                      *)

Entries == [mantle: Nat, ethereum: Nat, since: Nat, failures: Nat]
Requests == [open: BOOLEAN, mantle: Nat, ethereum: Nat, since: Nat, attempt: Nat]
Actions == [kind: Kinds \cup {"none"}, amount: Nat, asked: Nat, sure: BOOLEAN,
            stage: {"none", "filled", "sent", "mined", "refreshing", "succeeded"},
            at: Nat, waits: SUBSET ReadKeys]

PagesTypeOK ==
  /\ scenario \in Scenarios
  /\ states \in Seq(ChainStates) /\ Now > 0
  /\ entry \in [ReadKeys -> Entries]
  /\ fetching \in [ReadKeys -> Requests]
  /\ flow \in Actions
  /\ flow.stage # "none" => flow.kind \in Kinds

(* Neither the locked USDY nor the collateral changed since state number n. *)
Quiet(n) == \A i \in n..Now : states[i].locked = Current.locked /\ states[i].posted = Current.posted

(* A side that has answered was read at or after the start of the fetch. *)
AnsweredSince(n, since) == n = 0 \/ n \in since..Now

(* What is known of key k: its data and its fetch are read in order; after  *)
(* an invalidation neither is older than the receipt, and a read of the     *)
(* user without data is on its way or has failed; until a transaction is    *)
(* mined nothing happened to the user's balances since they were read.      *)
DataInv(k) ==
  HasData(k) => /\ entry[k].since \in 1..Now
                /\ entry[k].mantle \in entry[k].since..Now
                /\ entry[k].ethereum \in entry[k].since..Now

RequestInv(k) ==
  fetching[k].open => /\ k \in Reads
                      /\ fetching[k].since \in 1..Now
                      /\ AnsweredSince(fetching[k].mantle, fetching[k].since)
                      /\ AnsweredSince(fetching[k].ethereum, fetching[k].since)

FreshInv(k) ==
  flow.stage \in {"refreshing", "succeeded"} /\ OfTheUser(k) /\ k \in Reads =>
    /\ HasData(k) => entry[k].since >= flow.at
    /\ fetching[k].open => fetching[k].since >= flow.at
    /\ k \in flow.waits => fetching[k].open
    /\ k \notin flow.waits => HasData(k) \/ fetching[k].open \/ entry[k].failures > 0

QuietInv(k) ==
  flow.stage # "mined" /\ OfTheUser(k) =>
    /\ HasData(k) => Quiet(entry[k].since)
    /\ fetching[k].open => Quiet(fetching[k].since)

KeyInv(k) == DataInv(k) /\ RequestInv(k) /\ FreshInv(k) /\ QuietInv(k)

(* While the two sides are in balance nothing is locked. *)
InBalance(i) == states[i].locked = Supply(states[i])
PegInv ==
  \A i, j \in 1..Now :
    i <= j /\ (\A m \in i..j : InBalance(m)) => states[i].locked = states[j].locked

PagesInv ==
  /\ PagesTypeOK
  /\ flow.at \in 0..Now
  /\ \A k \in ReadKeys : KeyInv(k)
  /\ PegInv

LEMMA Quotients ==
  ASSUME NEW a \in Nat, NEW b \in Nat, b # 0
  PROVE  a \div b \in Nat
OBVIOUS

LEMMA Differences == ASSUME NEW a \in Int PROVE AtLeastZero(a) \in Nat
BY DEF AtLeastZero

LEMMA Products == ASSUME NEW a \in Nat, NEW b \in Nat PROVE a * b \in Nat
OBVIOUS

LEMMA Scales ==
  /\ PriceScale \in Nat /\ LltvScale \in Nat /\ VirtualShares \in Nat /\ Cent \in Nat
  /\ PriceScale * LltvScale \in Nat /\ PriceScale * LltvScale # 0
  /\ VirtualShares > 0 /\ Cent > 0
<1>1. /\ PriceScale \in Nat \ {0} /\ LltvScale \in Nat \ {0}
      /\ VirtualShares \in Nat \ {0} /\ Cent \in Nat \ {0}
  BY ViewsAssumption
<1>2. PriceScale * LltvScale > 0
  BY <1>1
<1> QED
  BY <1>1, <1>2

(* What a chain state is made of.                                           *)
LEMMA StateFields ==
  ASSUME NEW x \in ChainStates
  PROVE  /\ x.usdy \in Nat /\ x.locked \in Nat /\ x.acusdy \in Nat /\ x.posted \in Nat
         /\ x.shares \in Nat /\ x.totalAssets \in Nat /\ x.totalShares \in Nat
         /\ x.pending \in Nat
         /\ x.price \in Nat /\ x.stale \in BOOLEAN /\ x.lltv \in Nat /\ x.liquidity \in Nat
BY DEF ChainStates

(* Accruing interest changes Morpho's totals only.                          *)
LEMMA AccruedState ==
  ASSUME NEW x \in ChainStates
  PROVE  LET a == Accrued(x)
         IN /\ a \in ChainStates
            /\ a.totalAssets = x.totalAssets + x.pending /\ a.pending = 0
            /\ a.usdy = x.usdy /\ a.locked = x.locked /\ a.acusdy = x.acusdy
            /\ a.posted = x.posted /\ a.shares = x.shares /\ a.totalShares = x.totalShares
            /\ a.price = x.price /\ a.stale = x.stale /\ a.lltv = x.lltv
            /\ a.liquidity = x.liquidity
<1> DEFINE a == [x EXCEPT !.totalAssets = @ + x.pending, !.pending = 0]
<1>1. x.totalAssets + x.pending \in Nat
  BY StateFields
<1>2. /\ a \in ChainStates
      /\ a.totalAssets = x.totalAssets + x.pending /\ a.pending = 0
      /\ a.usdy = x.usdy /\ a.locked = x.locked /\ a.acusdy = x.acusdy
      /\ a.posted = x.posted /\ a.shares = x.shares /\ a.totalShares = x.totalShares
      /\ a.price = x.price /\ a.stale = x.stale /\ a.lltv = x.lltv
      /\ a.liquidity = x.liquidity
  BY <1>1 DEF ChainStates
<1>3. Accrued(x) = a
  BY DEF Accrued
<1> HIDE DEF a
<1> QED
  BY <1>2, <1>3

(* Every value on a page was read in a state of the chains.                 *)
LEMMA PageStates ==
  ASSUME PagesInv, NEW k \in ReadKeys
  PROVE  Page[k].x \in ChainStates
<1>1. states \in Seq(ChainStates) /\ Now \in 1..Now /\ Now \in Nat
  BY DEF PagesInv, PagesTypeOK, Now
<1>2. HasData(k) => entry[k].ethereum \in 1..Now
  <2>1. DataInv(k)
    BY DEF PagesInv, KeyInv
  <2> QED
    BY <1>1, <2>1 DEF DataInv
<1>3. \A i \in 1..Now : states[i] \in ChainStates
  BY <1>1 DEF Now
<1>4. Page[k].x = IF HasData(k) THEN states[entry[k].ethereum] ELSE Current
  BY DEF Page, ReadResult
<1> QED
  BY <1>1, <1>2, <1>3, <1>4 DEF Current

LEMMA DebtIsAmount ==
  ASSUME NEW x \in ChainStates
  PROVE  DebtAssets(x) \in Nat \cup {None}
<1>1. x.shares \in Nat /\ x.totalAssets \in Nat /\ x.totalShares \in Nat
  BY StateFields
<1>2. x.shares * x.totalAssets \in Nat
  BY <1>1, Products
<1>3. x.totalShares # 0 => (x.shares * x.totalAssets) \div x.totalShares \in Nat
  BY <1>1, <1>2, Quotients
<1> QED
  BY <1>3 DEF DebtAssets, FloorDiv

(* The amounts offered by MAX and the percentages are amounts.              *)
LEMMA LockOffersAmounts ==
  ASSUME PagesInv, NEW n \in LockOffers(Page)
  PROVE  n \in Nat
<1> DEFINE free == AvailableBalance(Page)
<1>1. free \in Nat \cup {None}
  <2>1. Page["usdyBalance"].x \in ChainStates /\ Page["locked"].x \in ChainStates
    BY PageStates DEF ReadKeys
  <2> DEFINE taken == IF Page["locked"].known THEN Page["locked"].x.locked ELSE 0
             rest == AtLeastZero(Page["usdyBalance"].x.usdy - taken)
  <2>2. Page["usdyBalance"].x.usdy \in Nat /\ taken \in Nat
    BY <2>1, StateFields
  <2>3. rest \in Nat
    <3>1. Page["usdyBalance"].x.usdy - taken \in Int
      BY <2>2
    <3> QED
      BY <3>1, Differences
  <2> HIDE DEF taken
  <2>4. RoundTo(Cent, rest) \in Nat
    <3> HIDE DEF rest
    <3>1. Cent \in Nat /\ 2 * rest + Cent \in Nat /\ 2 * Cent \in Nat /\ 2 * Cent # 0
      BY <2>3, Scales
    <3>2. (2 * rest + Cent) \div (2 * Cent) \in Nat
      BY <3>1, Quotients
    <3>3. Cent * ((2 * rest + Cent) \div (2 * Cent)) \in Nat
      BY <3>1, <3>2, Products
    <3> QED
      BY <3>3 DEF RoundTo
  <2>5. free = IF Page["usdyBalance"].known THEN RoundTo(Cent, rest) ELSE None
    BY DEF AvailableBalance, taken
  <2> HIDE DEF rest, free
  <2> QED
    BY <2>4, <2>5
<1>2. n = free \/ \E q \in {25, 50} : n = Percentage(free, q)
  BY DEF LockOffers
<1>3. free # None
  BY DEF LockOffers, LockDisabled
<1> HIDE DEF free
<1>4. \A q \in {25, 50} : Percentage(free, q) \in Nat
  <2>1. free \in Nat
    BY <1>1, <1>3
  <2>2. free * 25 \in Nat /\ free * 50 \in Nat
    BY <2>1
  <2>3. (free * 25) \div 100 \in Nat /\ (free * 50) \div 100 \in Nat
    BY <2>2
  <2> QED
    BY <2>3 DEF Percentage
<1> QED
  BY <1>1, <1>2, <1>3, <1>4

LEMMA BorrowOffersAmounts ==
  ASSUME PagesInv, NEW n \in BorrowOffers(Page)
  PROVE  n \in Nat
<1> DEFINE room == RemainingCapacity(Page)
           limit == FloorDiv(Page["position"].x.posted * Page["oracle"].x.price
                               * Page["market"].x.lltv, PriceScale * LltvScale)
           debt == DebtAssets(Page["debt"].x)
<1>1. /\ Page["position"].x \in ChainStates /\ Page["oracle"].x \in ChainStates
      /\ Page["market"].x \in ChainStates /\ Page["debt"].x \in ChainStates
  BY PageStates DEF ReadKeys
<1>2. limit \in Nat
  <2>1. /\ Page["position"].x.posted \in Nat /\ Page["oracle"].x.price \in Nat
        /\ Page["market"].x.lltv \in Nat
    BY <1>1, StateFields
  <2>2. Page["position"].x.posted * Page["oracle"].x.price \in Nat
    BY <2>1, Products
  <2>3. Page["position"].x.posted * Page["oracle"].x.price * Page["market"].x.lltv \in Nat
    BY <2>1, <2>2, Products
  <2> QED
    BY <2>3, Scales, Quotients DEF FloorDiv
<1>3. debt \in Nat \cup {None}
  BY <1>1, DebtIsAmount
<1>4. room = IF Computable(Page) THEN AtLeastZero(limit - debt) ELSE None
  BY DEF RemainingCapacity
<1> HIDE DEF limit, debt
<1>5. room \in Nat \cup {None}
  <2>1. limit - debt \in Int
    BY <1>2, <1>3 DEF None
  <2>2. AtLeastZero(limit - debt) \in Nat
    BY <2>1, Differences
  <2> HIDE DEF room
  <2> QED
    BY <1>4, <2>2
<1>6. n # None /\ n = SafeBorrowCapacity(Page)
  BY DEF BorrowOffers
<1>7. SafeBorrowCapacity(Page) = IF room = None THEN None ELSE (room * 995) \div 1000
  BY DEF SafeBorrowCapacity, FloorDiv
<1> HIDE DEF room
<1>8. room \in Nat => (room * 995) \div 1000 \in Nat
  OBVIOUS
<1> QED
  BY <1>5, <1>6, <1>7, <1>8

LEMMA WithdrawOffersAmounts ==
  ASSUME PagesInv, NEW n \in WithdrawOffers(Page)
  PROVE  n \in Nat
<1> DEFINE c == Page["position"].x.posted
           d == DebtAssets(Page["debt"].x)
           perUnit == Page["oracle"].x.price * Page["market"].x.lltv
           needed == CeilingDiv(d * PriceScale * LltvScale, perUnit)
<1>1. /\ Page["position"].x \in ChainStates /\ Page["oracle"].x \in ChainStates
      /\ Page["market"].x \in ChainStates /\ Page["debt"].x \in ChainStates
  BY PageStates DEF ReadKeys
<1>2. c \in Nat /\ perUnit \in Nat
  <2>1. c \in Nat /\ Page["oracle"].x.price \in Nat /\ Page["market"].x.lltv \in Nat
    BY <1>1, StateFields
  <2> QED
    BY <2>1, Products
<1>3. d \in Nat \cup {None}
  BY <1>1, DebtIsAmount
<1>4. SafeWithdraw(Page) \in {None, c} \/ (SafeWithdraw(Page) = AtLeastZero(c - needed) /\ d # None /\ perUnit # 0)
  BY DEF SafeWithdraw
<1>5. n # None /\ n = SafeWithdraw(Page)
  BY DEF WithdrawOffers
<1> HIDE DEF c, d, perUnit
<1>6. d # None /\ perUnit # 0 => AtLeastZero(c - needed) \in Nat
  <2> SUFFICES ASSUME d # None, perUnit # 0
               PROVE  AtLeastZero(c - needed) \in Nat
    OBVIOUS
  <2>1. d \in Nat
    BY <1>3
  <2>2. d * PriceScale \in Nat
    BY <2>1, Scales, Products
  <2>3. d * PriceScale * LltvScale \in Nat
    BY <2>2, Scales, Products
  <2>4. d * PriceScale * LltvScale + perUnit - 1 \in Nat
    BY <1>2, <2>3
  <2>5. needed \in Nat
    BY <1>2, <2>4, Quotients DEF CeilingDiv
  <2> HIDE DEF needed
  <2> QED
    BY <1>2, <2>5, Differences
<1> HIDE DEF needed
<1> QED
  BY <1>2, <1>4, <1>5, <1>6

LEMMA OffersAreAmounts ==
  ASSUME PagesInv, NEW kind \in Kinds, NEW n \in Offers(kind)
  PROVE  n \in Nat
<1>1. CASE kind = "borrow"
  BY <1>1, BorrowOffersAmounts DEF Offers
<1>2. CASE kind = "withdraw"
  BY <1>2, WithdrawOffersAmounts DEF Offers
<1>3. CASE kind = "supplyCollateral"
  <2>1. n = Page["acusdy"].x.acusdy
    BY <1>3 DEF Offers, SupplyOffers
  <2> QED
    BY <2>1, PageStates, StateFields DEF ReadKeys
<1>4. CASE kind = "lock"
  BY <1>4, LockOffersAmounts DEF Offers
<1> QED
  BY <1>1, <1>2, <1>3, <1>4 DEF Kinds

-----------------------------------------------------------------------------
(* What a step does to the chains: the next state, if there is one, is a    *)
(* state of the chains, and a step from balance to balance locks nothing.   *)

Follows(x, y) == x.locked = Supply(x) /\ y.locked = Supply(y) => y.locked = x.locked
Still(x, y) == y.locked = x.locked /\ y.posted = x.posted

LEMMA MovedFollows ==
  ASSUME NEW x \in ChainStates, NEW kind \in Kinds, NEW n \in Nat,
         Moved(kind, n, x).posted >= 0, Moved(kind, n, x).acusdy >= 0,
         Moved(kind, n, x).usdy >= 0, Moved(kind, n, x).liquidity >= 0
  PROVE  Moved(kind, n, x) \in ChainStates /\ Follows(x, Moved(kind, n, x))
<1> DEFINE y == Moved(kind, n, x)
<1>1. /\ x.usdy \in Nat /\ x.locked \in Nat /\ x.acusdy \in Nat /\ x.posted \in Nat
      /\ x.shares \in Nat /\ x.totalAssets \in Nat /\ x.totalShares \in Nat
      /\ x.price \in Nat /\ x.stale \in BOOLEAN /\ x.lltv \in Nat /\ x.liquidity \in Nat
  BY StateFields
<1>2. y.posted >= 0 /\ y.acusdy >= 0 /\ y.usdy >= 0 /\ y.liquidity >= 0
  OBVIOUS
<1>3. CASE kind = "borrow"
  <2> DEFINE s == CeilingDiv(n * (x.totalShares + VirtualShares), x.totalAssets + 1)
  <2>1. s \in Nat
    <3>1. x.totalShares + VirtualShares \in Nat /\ x.totalAssets + 1 \in Nat /\ x.totalAssets + 1 # 0
      BY <1>1, Scales
    <3>2. n * (x.totalShares + VirtualShares) \in Nat
      BY <3>1, Products
    <3>3. n * (x.totalShares + VirtualShares) + (x.totalAssets + 1) - 1 \in Nat
      BY <1>1, <3>2
    <3> QED
      BY <3>1, <3>3, Quotients DEF CeilingDiv
  <2>2. y = [x EXCEPT !.shares = @ + s, !.totalShares = @ + s, !.totalAssets = @ + n,
                      !.liquidity = @ - n]
    BY <1>3 DEF Moved
  <2> HIDE DEF s, y
  <2>3. y.liquidity = x.liquidity - n /\ y.locked = x.locked
    BY <2>2 DEF ChainStates
  <2>4. x.liquidity - n \in Nat /\ x.shares + s \in Nat /\ x.totalShares + s \in Nat /\ x.totalAssets + n \in Nat
    BY <1>1, <1>2, <2>1, <2>3
  <2>5. y \in ChainStates
    BY <2>2, <2>4 DEF ChainStates
  <2> QED
    BY <2>3, <2>5 DEF y, Follows
<1>4. CASE kind = "withdraw"
  <2>1. y = [x EXCEPT !.posted = @ - n, !.acusdy = @ + n]
    BY <1>4 DEF Moved
  <2> HIDE DEF y
  <2>2. y.posted = x.posted - n /\ y.acusdy = x.acusdy + n /\ y.locked = x.locked
    BY <2>1 DEF ChainStates
  <2>3. x.posted - n \in Nat /\ x.acusdy + n \in Nat
    BY <1>1, <1>2, <2>2
  <2>4. y \in ChainStates
    BY <2>1, <2>3 DEF ChainStates
  <2> QED
    BY <2>2, <2>4 DEF y, Follows
<1>5. CASE kind = "supplyCollateral"
  <2>1. y = [x EXCEPT !.acusdy = @ - n, !.posted = @ + n]
    BY <1>5 DEF Moved
  <2> HIDE DEF y
  <2>2. y.posted = x.posted + n /\ y.acusdy = x.acusdy - n /\ y.locked = x.locked
    BY <2>1 DEF ChainStates
  <2>3. x.acusdy - n \in Nat /\ x.posted + n \in Nat
    BY <1>1, <1>2, <2>2
  <2>4. y \in ChainStates
    BY <2>1, <2>3 DEF ChainStates
  <2> QED
    BY <2>2, <2>4 DEF y, Follows
<1>6. CASE kind = "lock"
  <2>1. y = [x EXCEPT !.usdy = @ - n, !.locked = @ + n]
    BY <1>6 DEF Moved
  <2> HIDE DEF y
  <2>2. /\ y.usdy = x.usdy - n /\ y.locked = x.locked + n
        /\ y.acusdy = x.acusdy /\ y.posted = x.posted
    BY <2>1 DEF ChainStates
  <2>3. x.usdy - n \in Nat /\ x.locked + n \in Nat
    BY <1>1, <1>2, <2>2
  <2>4. y \in ChainStates
    BY <2>1, <2>3 DEF ChainStates
  <2>5. Follows(x, y)
    BY <1>1, <2>2 DEF Follows, Supply
  <2> QED
    BY <2>4, <2>5 DEF y
<1> QED
  BY <1>3, <1>4, <1>5, <1>6 DEF Kinds

LEMMA DoneFollows ==
  ASSUME NEW x \in ChainStates, NEW kind \in Kinds, NEW n \in Nat, Executes(kind, n, x)
  PROVE  Done(kind, n, x) \in ChainStates /\ Follows(x, Done(kind, n, x))
<1> DEFINE y == Done(kind, n, x)
           a == IF kind \in {"borrow", "withdraw"} THEN Accrued(x) ELSE x
<1>1. y = Moved(kind, n, a)
  BY DEF Done
<1>2. y.posted >= 0 /\ y.acusdy >= 0 /\ y.usdy >= 0 /\ y.liquidity >= 0
  BY DEF Executes
<1>3. a \in ChainStates /\ a.locked = x.locked /\ a.acusdy = x.acusdy /\ a.posted = x.posted
  BY AccruedState
<1> HIDE DEF a, y
<1>4. y \in ChainStates /\ Follows(a, y)
  BY <1>1, <1>2, <1>3, MovedFollows
<1>5. Follows(x, y)
  BY <1>3, <1>4 DEF Follows, Supply
<1> QED
  BY <1>4, <1>5 DEF y

LEMMA ChainFollows ==
  ASSUME PagesTypeOK, ChainMoves
  PROVE  \E x \in ChainStates :
           states' = Append(states, x) /\ Follows(Current, x) /\ Still(Current, x)
<1>1. Current \in ChainStates
  BY DEF PagesTypeOK, Current, Now
<1>2. /\ Current.locked \in Nat /\ Current.acusdy \in Nat /\ Current.posted \in Nat
      /\ Current.pending \in Nat /\ Interest \in Nat
  BY <1>1, StateFields, ReadsAssumption
<1>3. CASE InterestGrows
  <2> DEFINE x == [Current EXCEPT !.pending = @ + Interest]
  <2>1. x \in ChainStates /\ x.locked = Current.locked /\ x.posted = Current.posted
    BY <1>1, <1>2 DEF ChainStates
  <2>2. states' = Append(states, x)
    BY <1>3 DEF InterestGrows, Becomes
  <2> HIDE DEF x
  <2> QED
    BY <2>1, <2>2 DEF Follows, Still
<1>4. CASE \E v \in Prices : PriceMoves(v)
  <2>1. PICK v \in Prices : PriceMoves(v)
    BY <1>4
  <2> DEFINE x == [Current EXCEPT !.price = v]
  <2>2. v \in Nat
    BY <2>1, ReadsAssumption
  <2>3. x \in ChainStates /\ x.locked = Current.locked /\ x.posted = Current.posted
    BY <1>1, <2>2 DEF ChainStates
  <2>4. states' = Append(states, x)
    BY <2>1 DEF PriceMoves, Becomes
  <2> HIDE DEF x
  <2> QED
    BY <2>3, <2>4 DEF Follows, Still
<1>5. CASE PriceAges
  <2> DEFINE x == [Current EXCEPT !.stale = TRUE]
  <2>1. x \in ChainStates /\ x.locked = Current.locked /\ x.posted = Current.posted
    BY <1>1 DEF ChainStates
  <2>2. states' = Append(states, x)
    BY <1>5 DEF PriceAges, Becomes
  <2> HIDE DEF x
  <2> QED
    BY <2>1, <2>2 DEF Follows, Still
<1>6. CASE Mint
  <2> DEFINE x == [Current EXCEPT !.acusdy = Current.locked - Current.posted]
  <2>1. Current.locked - Current.posted \in Nat
    BY <1>2, <1>6 DEF Mint
  <2>2. x \in ChainStates /\ x.locked = Current.locked /\ x.posted = Current.posted
    BY <1>1, <2>1 DEF ChainStates
  <2>3. states' = Append(states, x)
    BY <1>6 DEF Mint, Becomes
  <2> HIDE DEF x
  <2> QED
    BY <2>2, <2>3 DEF Follows, Still
<1>7. CASE OthersAccrue
  <2>1. /\ Accrued(Current) \in ChainStates /\ Accrued(Current).locked = Current.locked
        /\ Accrued(Current).posted = Current.posted
    BY <1>1, AccruedState
  <2>2. states' = Append(states, Accrued(Current))
    BY <1>7 DEF OthersAccrue, Becomes
  <2> QED
    BY <2>1, <2>2 DEF Follows, Still
<1> QED
  BY <1>3, <1>4, <1>5, <1>6, <1>7 DEF ChainMoves

LEMMA MinedFollows ==
  ASSUME PagesTypeOK, MineFlow
  PROVE  \/ states' = states
         \/ \E x \in ChainStates : states' = Append(states, x) /\ Follows(Current, x)
<1>1. Current \in ChainStates
  BY DEF PagesTypeOK, Current, Now
<1>2. flow.kind \in Kinds /\ flow.amount \in Nat
  BY DEF PagesTypeOK, MineFlow, Actions
<1>3. CASE Executes(flow.kind, flow.amount, Current)
  <2>1. states' = Append(states, Done(flow.kind, flow.amount, Current))
    BY <1>3 DEF MineFlow, Becomes
  <2> QED
    BY <1>1, <1>2, <1>3, <2>1, DoneFollows
<1> QED
  BY <1>3 DEF MineFlow

(* The chains of a step: appended to or left alone.                         *)
LEMMA StatesGrow ==
  ASSUME PagesTypeOK, [PageNext]_pageVars
  PROVE  \/ states' = states
         \/ \E x \in ChainStates : states' = Append(states, x) /\ Follows(Current, x)
<1>1. CASE ChainMoves
  BY <1>1, ChainFollows
<1>2. CASE MineFlow
  BY <1>2, MinedFollows
<1>3. CASE ~ChainMoves /\ ~MineFlow
  <2>1. CASE \E k \in ReadKeys :
               Mount(k) \/ Poll(k) \/ Retry(k) \/ SideAnswers(k) \/ Arrive(k) \/ Break(k)
    BY <2>1 DEF Mount, Poll, Retry, SideAnswers, Arrive, Break
  <2>2. CASE Focus \/ ClickAction \/ Rejected \/ Invalidate \/ Succeed
    BY <2>2 DEF Focus, ClickAction, Rejected, Invalidate, Succeed
  <2>3. CASE \E kind \in Kinds : FillInput(kind)
    BY <2>3 DEF FillInput
  <2>4. CASE UseWallet \/ UNCHANGED pageVars
    BY <2>4 DEF UseWallet, pageVars, cacheVars
  <2> QED
    BY <1>3, <2>1, <2>2, <2>3, <2>4 DEF PageNext
<1> QED
  BY <1>1, <1>2, <1>3

LEMMA AppendedStates ==
  ASSUME NEW s \in Seq(ChainStates), NEW x \in ChainStates
  PROVE  /\ Append(s, x) \in Seq(ChainStates)
         /\ Len(Append(s, x)) = Len(s) + 1 /\ Len(s) \in Nat
         /\ \A i \in 1..Len(s) : Append(s, x)[i] = s[i]
         /\ Append(s, x)[Len(s) + 1] = x
OBVIOUS

LEMMA PegInvNext ==
  ASSUME PagesTypeOK, PegInv, [PageNext]_pageVars
  PROVE  PegInv'
<1>1. CASE states' = states
  BY <1>1 DEF PegInv, Now, InBalance
<1>2. ASSUME NEW x \in ChainStates, states' = Append(states, x), Follows(Current, x)
      PROVE  PegInv'
  <2>1. /\ Len(states) \in Nat /\ Len(states) > 0 /\ Len(states') = Len(states) + 1
        /\ states'[Len(states) + 1] = x
        /\ \A i \in 1..Len(states) : states'[i] = states[i]
    BY <1>2, AppendedStates DEF PagesTypeOK, Now
  <2> SUFFICES ASSUME NEW i \in 1..Now', NEW j \in 1..Now', i <= j,
                      \A m \in i..j : states'[m].locked = Supply(states'[m])
               PROVE  states'[i].locked = states'[j].locked
    BY DEF PegInv, InBalance
  <2>2. Now = Len(states) /\ Now' = Len(states')
    BY DEF Now
  <2>3. CASE j \in 1..Len(states)
    <3>1. \A m \in i..j : InBalance(m)
      BY <2>1, <2>2, <2>3 DEF InBalance
    <3> QED
      BY <2>1, <2>2, <2>3, <3>1 DEF PegInv
  <2>4. CASE j = Len(states) + 1 /\ i # j
    <3>1. i \in 1..Len(states) /\ Len(states) \in 1..Len(states) /\ Len(states) \in i..j /\ j \in i..j
      BY <2>1, <2>2, <2>4
    <3>2. \A m \in i..Len(states) : InBalance(m)
      <4>1. ASSUME NEW m \in i..Len(states) PROVE InBalance(m)
        <5>1. m \in i..j /\ m \in 1..Len(states)
          BY <2>1, <2>2, <2>4, <3>1
        <5> QED
          BY <2>1, <5>1 DEF InBalance
      <4> QED
        BY <4>1
    <3>3. states[i].locked = states[Len(states)].locked
      BY <2>1, <2>2, <3>1, <3>2 DEF PegInv
    <3>4. states'[j] = x /\ x.locked = Supply(x)
      BY <2>1, <2>4, <3>1
    <3>5. Current.locked = Supply(Current)
      BY <2>1, <2>2, <3>1, <3>2 DEF InBalance, Current
    <3>6. x.locked = Current.locked
      BY <1>2, <3>4, <3>5 DEF Follows
    <3> QED
      BY <2>1, <2>2, <3>1, <3>3, <3>4, <3>6 DEF Current
  <2>5. CASE i = j
    BY <2>5
  <2> QED
    BY <2>1, <2>2, <2>3, <2>4, <2>5
<1> QED
  BY <1>1, <1>2, StatesGrow

-----------------------------------------------------------------------------
(* The reads.  Most steps leave a key alone or start a fetch of it.         *)

LEMMA FetchStarts ==
  ASSUME PagesTypeOK, NEW k \in ReadKeys, NEW a \in Nat
  PROVE  /\ Fetch(k, a) \in Requests
         /\ Fetch(k, a).open /\ Fetch(k, a).since = Now
         /\ Fetch(k, a).mantle \in {0, Now} /\ Fetch(k, a).ethereum \in {0, Now}
<1>1. Now \in Nat
  BY DEF PagesTypeOK, Now
<1>2. PICK m \in {0, Now} :
        Fetch(k, a) = [open |-> TRUE, since |-> Now, attempt |-> a, mantle |-> m, ethereum |-> m]
  BY DEF Fetch
<1> QED
  BY <1>1, <1>2 DEF Requests

LEMMA KeyStays ==
  ASSUME NEW k \in ReadKeys, KeyInv(k), UNCHANGED <<states, scenario>>,
         flow'.stage = flow.stage, flow'.at = flow.at, k \in flow'.waits <=> k \in flow.waits,
         entry'[k] = entry[k], fetching'[k] = fetching[k]
  PROVE  KeyInv(k)'
<1>1. DataInv(k)' /\ RequestInv(k)'
  BY DEF KeyInv, DataInv, RequestInv, HasData, AnsweredSince, Now, Reads
<1>2. FreshInv(k)'
  BY DEF KeyInv, FreshInv, HasData, Reads, OfTheUser
<1>3. QuietInv(k)'
  BY DEF KeyInv, QuietInv, HasData, OfTheUser, Quiet, Now, Current
<1> QED
  BY <1>1, <1>2, <1>3 DEF KeyInv

LEMMA KeyFetches ==
  ASSUME PagesTypeOK, flow.at \in 0..Now, NEW k \in ReadKeys, k \in Reads, KeyInv(k),
         NEW a \in Nat, UNCHANGED <<states, scenario, flow>>,
         entry'[k] = entry[k], fetching'[k] = Fetch(k, a)
  PROVE  KeyInv(k)'
<1>1. /\ Fetch(k, a).open /\ Fetch(k, a).since = Now
      /\ Fetch(k, a).mantle \in {0, Now} /\ Fetch(k, a).ethereum \in {0, Now}
  BY FetchStarts
<1>2. Now \in Nat /\ Now > 0 /\ Now' = Now
  BY DEF PagesTypeOK, Now
<1>3. DataInv(k)' /\ RequestInv(k)'
  BY <1>1, <1>2 DEF KeyInv, DataInv, RequestInv, HasData, AnsweredSince, Reads
<1>4. FreshInv(k)'
  BY <1>1, <1>2 DEF KeyInv, FreshInv, HasData, Reads, OfTheUser, PagesTypeOK, Actions
<1>5. QuietInv(k)'
  <2>1. Quiet(Now)
    BY <1>2 DEF Quiet, Current
  <2> QED
    BY <1>1, <1>2, <2>1 DEF KeyInv, QuietInv, HasData, OfTheUser, Quiet, Current
<1> QED
  BY <1>3, <1>4, <1>5 DEF KeyInv

(* A step that only starts fetches.                                         *)
LEMMA FetchesNext ==
  ASSUME PagesInv, UNCHANGED <<states, scenario, flow, entry>>,
         fetching' \in [ReadKeys -> Requests],
         \A k \in ReadKeys : \/ fetching'[k] = fetching[k]
                             \/ k \in Reads /\ \E a \in Nat : fetching'[k] = Fetch(k, a)
  PROVE  /\ PagesTypeOK' /\ flow'.at \in 0..Now'
         /\ \A k \in ReadKeys : KeyInv(k)'
<1>1. PagesTypeOK' /\ flow'.at \in 0..Now'
  BY DEF PagesInv, PagesTypeOK, Now
<1>2. ASSUME NEW k \in ReadKeys PROVE KeyInv(k)'
  <2>1. PagesTypeOK /\ flow.at \in 0..Now /\ KeyInv(k) /\ entry'[k] = entry[k]
    BY DEF PagesInv
  <2>2. CASE fetching'[k] = fetching[k]
    BY <2>1, <2>2, KeyStays
  <2>3. CASE k \in Reads /\ \E a \in Nat : fetching'[k] = Fetch(k, a)
    BY <2>1, <2>3, KeyFetches
  <2> QED
    BY <2>2, <2>3
<1> QED
  BY <1>1, <1>2

LEMMA StartsNext ==
  ASSUME PagesInv, NEW k \in ReadKeys, Mount(k) \/ Poll(k) \/ Retry(k)
  PROVE  /\ PagesTypeOK' /\ flow'.at \in 0..Now'
         /\ \A j \in ReadKeys : KeyInv(j)'
<1>1. PICK a \in Nat : fetching' = [fetching EXCEPT ![k] = Fetch(k, a)]
  <2>1. entry[k].failures \in Nat
    BY DEF PagesInv, PagesTypeOK, Entries
  <2> QED
    BY <2>1 DEF Mount, Poll, Retry, StartFetch
<1>2. fetching \in [ReadKeys -> Requests] /\ Fetch(k, a) \in Requests
  BY FetchStarts DEF PagesInv, PagesTypeOK
<1>3. fetching' \in [ReadKeys -> Requests]
  BY <1>1, <1>2
<1>4. k \in Reads /\ UNCHANGED <<states, scenario, flow, entry>>
  BY DEF Mount, Poll, Retry, others
<1>5. \A j \in ReadKeys : fetching'[j] = fetching[j] \/ (j = k /\ fetching'[j] = Fetch(k, a))
  BY <1>1, <1>2
<1>6. \A j \in ReadKeys : \/ fetching'[j] = fetching[j]
                          \/ j \in Reads /\ \E b \in Nat : fetching'[j] = Fetch(j, b)
  BY <1>4, <1>5
<1> QED
  BY <1>3, <1>4, <1>6, FetchesNext

LEMMA FocusNext ==
  ASSUME PagesInv, Focus
  PROVE  /\ PagesTypeOK' /\ flow'.at \in 0..Now'
         /\ \A j \in ReadKeys : KeyInv(j)'
<1>1. UNCHANGED <<states, scenario, flow, entry>>
  BY DEF Focus, others
<1>2. \A k \in ReadKeys : fetching[k] \in Requests /\ Fetch(k, 0) \in Requests
  BY FetchStarts DEF PagesInv, PagesTypeOK
<1>3. fetching' \in [ReadKeys -> Requests]
  BY <1>2 DEF Focus
<1>4. \A k \in ReadKeys : \/ fetching'[k] = fetching[k]
                          \/ k \in Reads /\ \E a \in Nat : fetching'[k] = Fetch(k, a)
  BY DEF Focus
<1> QED
  BY <1>1, <1>3, <1>4, FetchesNext

(* One side of a fetch answers with the state of its chain at that moment.  *)
LEMMA SideNext ==
  ASSUME PagesInv, NEW k \in ReadKeys, SideAnswers(k)
  PROVE  /\ PagesTypeOK' /\ flow'.at \in 0..Now'
         /\ \A j \in ReadKeys : KeyInv(j)'
<1>1. PICK side \in {"mantle", "ethereum"} : fetching' = [fetching EXCEPT ![k][side] = Now]
  BY DEF SideAnswers
<1>2. /\ UNCHANGED <<states, scenario, flow, entry>> /\ fetching[k].open
      /\ fetching \in [ReadKeys -> Requests] /\ Now \in Nat /\ Now > 0 /\ Now' = Now
  BY DEF SideAnswers, others, PagesInv, PagesTypeOK, Now
<1>3. /\ fetching' \in [ReadKeys -> Requests]
      /\ fetching'[k].open /\ fetching'[k].since = fetching[k].since
      /\ fetching'[k].mantle \in {fetching[k].mantle, Now}
      /\ fetching'[k].ethereum \in {fetching[k].ethereum, Now}
      /\ \A j \in ReadKeys : j # k => fetching'[j] = fetching[j]
  BY <1>1, <1>2 DEF Requests
<1>4. PagesTypeOK' /\ flow'.at \in 0..Now'
  BY <1>2, <1>3 DEF PagesInv, PagesTypeOK
<1>5. ASSUME NEW j \in ReadKeys PROVE KeyInv(j)'
  <2>1. KeyInv(j)
    BY DEF PagesInv
  <2>2. CASE j # k
    BY <1>2, <1>3, <2>1, <2>2, KeyStays
  <2>3. CASE j = k
    <3>1. DataInv(k)' /\ RequestInv(k)'
      BY <1>2, <1>3, <2>1, <2>3 DEF KeyInv, DataInv, RequestInv, HasData, AnsweredSince, Reads
    <3>2. FreshInv(k)'
      BY <1>2, <1>3, <2>1, <2>3 DEF KeyInv, FreshInv, HasData, Reads, OfTheUser
    <3>3. QuietInv(k)'
      BY <1>2, <1>3, <2>1, <2>3 DEF KeyInv, QuietInv, HasData, OfTheUser, Quiet, Current
    <3> QED
      BY <2>3, <3>1, <3>2, <3>3 DEF KeyInv
  <2> QED
    BY <2>2, <2>3
<1> QED
  BY <1>4, <1>5

(* A fetch that ends: its key is waited for no more.                        *)
LEMMA Settled ==
  ASSUME PagesTypeOK, NEW k \in ReadKeys, Settle(k)
  PROVE  /\ fetching' \in [ReadKeys -> Requests] /\ fetching'[k] = NoFetch /\ ~NoFetch.open
         /\ \A j \in ReadKeys : j # k => fetching'[j] = fetching[j]
         /\ flow' \in Actions /\ flow'.stage = flow.stage /\ flow'.at = flow.at
         /\ flow'.kind = flow.kind /\ flow'.waits = flow.waits \ {k}
<1>1. NoFetch \in Requests /\ ~NoFetch.open
  BY DEF NoFetch, Requests
<1>2. fetching \in [ReadKeys -> Requests] /\ flow \in Actions
  BY DEF PagesTypeOK
<1>3. fetching' = [fetching EXCEPT ![k] = NoFetch] /\ flow' = [flow EXCEPT !.waits = @ \ {k}]
  BY DEF Settle
<1>4. flow.waits \ {k} \in SUBSET ReadKeys
  BY <1>2 DEF Actions
<1>5. /\ flow' \in Actions /\ flow'.stage = flow.stage /\ flow'.at = flow.at
      /\ flow'.kind = flow.kind /\ flow'.waits = flow.waits \ {k}
  BY <1>2, <1>3, <1>4 DEF Actions
<1> QED
  BY <1>1, <1>2, <1>3, <1>5

LEMMA ArriveNext ==
  ASSUME PagesInv, NEW k \in ReadKeys, Arrive(k)
  PROVE  /\ PagesTypeOK' /\ flow'.at \in 0..Now'
         /\ \A j \in ReadKeys : KeyInv(j)'
<1>1. /\ UNCHANGED <<states, scenario>> /\ Settle(k) /\ PagesTypeOK /\ KeyInv(k)
      /\ Now' = Now /\ fetching[k].open /\ fetching[k].mantle # 0 /\ fetching[k].ethereum # 0
  BY DEF Arrive, others, PagesInv, Now
<1>2. /\ fetching' \in [ReadKeys -> Requests] /\ ~fetching'[k].open
      /\ \A j \in ReadKeys : j # k => fetching'[j] = fetching[j]
      /\ flow' \in Actions /\ flow'.stage = flow.stage /\ flow'.at = flow.at
      /\ flow'.kind = flow.kind /\ flow'.waits = flow.waits \ {k}
  BY <1>1, Settled
<1>3. /\ entry' \in [ReadKeys -> Entries]
      /\ entry'[k].mantle = fetching[k].mantle /\ entry'[k].ethereum = fetching[k].ethereum
      /\ entry'[k].since = fetching[k].since
      /\ \A j \in ReadKeys : j # k => entry'[j] = entry[j]
  <2> DEFINE e == [mantle |-> fetching[k].mantle, ethereum |-> fetching[k].ethereum,
                   since |-> fetching[k].since, failures |-> 0]
  <2>1. e \in Entries /\ entry \in [ReadKeys -> Entries]
    BY <1>1 DEF PagesTypeOK, Requests, Entries
  <2>2. entry' = [entry EXCEPT ![k] = e]
    BY DEF Arrive
  <2>3. e.mantle = fetching[k].mantle /\ e.ethereum = fetching[k].ethereum /\ e.since = fetching[k].since
    OBVIOUS
  <2> HIDE DEF e
  <2> QED
    BY <2>1, <2>2, <2>3
<1>4. PagesTypeOK' /\ flow'.at \in 0..Now'
  <2>1. flow'.at \in 0..Now'
    BY <1>1, <1>2 DEF PagesInv
  <2> QED
    BY <1>1, <1>2, <1>3, <2>1 DEF PagesTypeOK
<1>5. ASSUME NEW j \in ReadKeys PROVE KeyInv(j)'
  <2>1. CASE j # k
    <3>1. KeyInv(j) /\ (j \in flow'.waits <=> j \in flow.waits)
      BY <1>2, <2>1 DEF PagesInv
    <3> QED
      BY <1>1, <1>2, <1>3, <2>1, <3>1, KeyStays
  <2>2. CASE j = k
    <3>1. DataInv(k)' /\ RequestInv(k)'
      BY <1>1, <1>2, <1>3 DEF KeyInv, DataInv, RequestInv, HasData, AnsweredSince, Reads
    <3>2. FreshInv(k)'
      BY <1>1, <1>2, <1>3 DEF KeyInv, FreshInv, HasData, Reads, OfTheUser
    <3>3. QuietInv(k)'
      BY <1>1, <1>2, <1>3 DEF KeyInv, QuietInv, HasData, OfTheUser, Quiet, Current
    <3> QED
      BY <2>2, <3>1, <3>2, <3>3 DEF KeyInv
  <2> QED
    BY <2>1, <2>2
<1> QED
  BY <1>4, <1>5

LEMMA BreakNext ==
  ASSUME PagesInv, NEW k \in ReadKeys, Break(k)
  PROVE  /\ PagesTypeOK' /\ flow'.at \in 0..Now'
         /\ \A j \in ReadKeys : KeyInv(j)'
<1>1. /\ UNCHANGED <<states, scenario>> /\ Settle(k) /\ PagesTypeOK /\ KeyInv(k) /\ Now' = Now
  BY DEF Break, others, PagesInv, Now
<1>2. /\ fetching' \in [ReadKeys -> Requests] /\ ~fetching'[k].open
      /\ \A j \in ReadKeys : j # k => fetching'[j] = fetching[j]
      /\ flow' \in Actions /\ flow'.stage = flow.stage /\ flow'.at = flow.at
      /\ flow'.kind = flow.kind /\ flow'.waits = flow.waits \ {k}
  BY <1>1, Settled
<1>3. /\ entry' \in [ReadKeys -> Entries]
      /\ entry'[k].mantle = entry[k].mantle /\ entry'[k].ethereum = entry[k].ethereum
      /\ entry'[k].since = entry[k].since /\ entry'[k].failures > 0
      /\ \A j \in ReadKeys : j # k => entry'[j] = entry[j]
  <2>1. /\ fetching[k].attempt + 1 \in Nat /\ fetching[k].attempt + 1 > 0
        /\ RetryCount + 1 \in Nat /\ RetryCount + 1 > 0
        /\ entry \in [ReadKeys -> Entries]
    BY <1>1, ReadsAssumption DEF PagesTypeOK, Requests
  <2>2. PICK n \in {fetching[k].attempt + 1, RetryCount + 1} :
          entry' = [entry EXCEPT ![k].failures = n]
    BY DEF Break
  <2>3. n \in Nat /\ n > 0
    BY <2>1
  <2> QED
    BY <2>1, <2>2, <2>3 DEF Entries
<1>4. PagesTypeOK' /\ flow'.at \in 0..Now'
  <2>1. flow'.at \in 0..Now'
    BY <1>1, <1>2 DEF PagesInv
  <2> QED
    BY <1>1, <1>2, <1>3, <2>1 DEF PagesTypeOK
<1>5. ASSUME NEW j \in ReadKeys PROVE KeyInv(j)'
  <2>1. CASE j # k
    <3>1. KeyInv(j) /\ (j \in flow'.waits <=> j \in flow.waits)
      BY <1>2, <2>1 DEF PagesInv
    <3> QED
      BY <1>1, <1>2, <1>3, <2>1, <3>1, KeyStays
  <2>2. CASE j = k
    <3>1. DataInv(k)' /\ RequestInv(k)'
      BY <1>1, <1>2, <1>3 DEF KeyInv, DataInv, RequestInv, HasData, AnsweredSince, Reads
    <3>2. FreshInv(k)'
      BY <1>1, <1>2, <1>3 DEF KeyInv, FreshInv, HasData, Reads, OfTheUser
    <3>3. QuietInv(k)'
      BY <1>1, <1>2, <1>3 DEF KeyInv, QuietInv, HasData, OfTheUser, Quiet, Current
    <3> QED
      BY <2>2, <3>1, <3>2, <3>3 DEF KeyInv
  <2> QED
    BY <2>1, <2>2
<1> QED
  BY <1>4, <1>5

-----------------------------------------------------------------------------
(* The chains and the user.                                                 *)

(* A state more: what was read stays as old as it was; it stays quiet if    *)
(* the new state is still.                                                  *)
LEMMA KeyOutlives ==
  ASSUME PagesTypeOK, NEW k \in ReadKeys, KeyInv(k), NEW x \in ChainStates,
         states' = Append(states, x), UNCHANGED <<scenario, entry, fetching>>
  PROVE  /\ DataInv(k)' /\ RequestInv(k)'
         /\ Still(Current, x) /\ flow.stage # "mined" => QuietInv(k)'
<1>1. /\ Len(states) \in Nat /\ Len(states) > 0 /\ Len(states') = Len(states) + 1
      /\ states'[Len(states) + 1] = x
      /\ \A i \in 1..Len(states) : states'[i] = states[i]
  BY AppendedStates DEF PagesTypeOK, Now
<1>2. Now = Len(states) /\ Now' = Len(states')
  BY DEF Now
<1>3. DataInv(k)' /\ RequestInv(k)'
  <2>1. entry[k] \in Entries /\ fetching[k] \in Requests
    BY DEF PagesTypeOK
  <2> QED
    BY <1>1, <1>2, <2>1 DEF KeyInv, DataInv, RequestInv, HasData, AnsweredSince, Reads, Entries, Requests
<1>4. ASSUME Still(Current, x), NEW n \in 1..Now, Quiet(n)
      PROVE  Quiet(n)'
  <2>1. Current' = x /\ Current = states[Len(states)]
    BY <1>1, <1>2 DEF Current
  <2>2. ASSUME NEW i \in n..Now'
        PROVE  states'[i].locked = x.locked /\ states'[i].posted = x.posted
    <3>1. CASE i = Len(states) + 1
      BY <1>1, <3>1
    <3>2. CASE i # Len(states) + 1
      <4>1. i \in n..Now /\ i \in 1..Len(states)
        BY <1>1, <1>2, <3>2
      <4>2. states[i].locked = Current.locked /\ states[i].posted = Current.posted
        BY <1>4, <4>1 DEF Quiet
      <4>3. states'[i] = states[i] /\ x.locked = Current.locked /\ x.posted = Current.posted
        BY <1>1, <1>4, <4>1 DEF Still
      <4> QED
        BY <4>2, <4>3
    <3> QED
      BY <3>1, <3>2
  <2> QED
    BY <2>1, <2>2 DEF Quiet
<1>5. Still(Current, x) /\ flow.stage # "mined" => QuietInv(k)'
  <2> SUFFICES ASSUME Still(Current, x), flow.stage # "mined", OfTheUser(k)
               PROVE  /\ HasData(k) => Quiet(entry[k].since)'
                      /\ fetching[k].open => Quiet(fetching[k].since)'
    BY DEF QuietInv, HasData, OfTheUser
  <2>1. HasData(k) => entry[k].since \in 1..Now /\ Quiet(entry[k].since)
    BY DEF KeyInv, DataInv, QuietInv
  <2>2. fetching[k].open => fetching[k].since \in 1..Now /\ Quiet(fetching[k].since)
    BY DEF KeyInv, RequestInv, QuietInv
  <2>3. HasData(k) => Quiet(entry[k].since)'
    <3> SUFFICES ASSUME HasData(k) PROVE Quiet(entry[k].since)'
      OBVIOUS
    <3>1. PICK n \in 1..Now : n = entry[k].since /\ Quiet(n)
      BY <2>1
    <3>2. Quiet(n)'
      BY <1>4, <3>1
    <3> QED
      BY <3>1, <3>2 DEF Quiet
  <2>4. fetching[k].open => Quiet(fetching[k].since)'
    <3> SUFFICES ASSUME fetching[k].open PROVE Quiet(fetching[k].since)'
      OBVIOUS
    <3>1. PICK n \in 1..Now : n = fetching[k].since /\ Quiet(n)
      BY <2>2
    <3>2. Quiet(n)'
      BY <1>4, <3>1
    <3> QED
      BY <3>1, <3>2 DEF Quiet
  <2> QED
    BY <2>3, <2>4
<1> QED
  BY <1>3, <1>5

LEMMA ChainMovesNext ==
  ASSUME PagesInv, ChainMoves
  PROVE  /\ PagesTypeOK' /\ flow'.at \in 0..Now'
         /\ \A j \in ReadKeys : KeyInv(j)'
<1>1. PICK x \in ChainStates : states' = Append(states, x) /\ Still(Current, x)
  BY ChainFollows DEF PagesInv
<1>2. UNCHANGED <<entry, fetching, flow, scenario>>
  BY DEF ChainMoves, others
<1>3. /\ states \in Seq(ChainStates) /\ states' \in Seq(ChainStates)
      /\ Now \in Nat /\ Now' = Now + 1
  <2>1. states \in Seq(ChainStates)
    BY DEF PagesInv, PagesTypeOK
  <2> QED
    BY <1>1, <2>1, AppendedStates DEF Now
<1>4. PagesTypeOK' /\ flow'.at \in 0..Now'
  <2>1. flow'.at \in 0..Now'
    BY <1>2, <1>3 DEF PagesInv
  <2> QED
    BY <1>2, <1>3, <2>1 DEF PagesInv, PagesTypeOK
<1>5. ASSUME NEW j \in ReadKeys PROVE KeyInv(j)'
  <2>1. PagesTypeOK /\ KeyInv(j)
    BY DEF PagesInv
  <2>2. DataInv(j)' /\ RequestInv(j)' /\ (flow.stage # "mined" => QuietInv(j)')
    BY <1>1, <1>2, <2>1, KeyOutlives
  <2>3. flow.stage = "mined" => QuietInv(j)'
    BY <1>2 DEF QuietInv
  <2>4. FreshInv(j)'
    BY <1>2, <2>1 DEF KeyInv, FreshInv, HasData, Reads, OfTheUser
  <2> QED
    BY <2>2, <2>3, <2>4 DEF KeyInv
<1> QED
  BY <1>4, <1>5

(* Steps of the flow before its transaction is mined.                       *)
LEMMA KeysBefore ==
  ASSUME PagesInv, UNCHANGED <<states, entry, fetching, scenario>>, flow' \in Actions,
         flow.stage # "mined", flow'.stage \in {"filled", "sent"}, flow'.kind \in Kinds,
         flow'.at \in {0, flow.at}
  PROVE  /\ PagesTypeOK' /\ flow'.at \in 0..Now'
         /\ \A j \in ReadKeys : KeyInv(j)'
<1>1. Now' = Now /\ Now \in Nat
  BY DEF Now, PagesInv, PagesTypeOK
<1>2. PagesTypeOK' /\ flow'.at \in 0..Now'
  BY <1>1 DEF PagesInv, PagesTypeOK
<1>3. ASSUME NEW j \in ReadKeys PROVE KeyInv(j)'
  <2>1. KeyInv(j)
    BY DEF PagesInv
  <2>2. DataInv(j)' /\ RequestInv(j)'
    BY <1>1, <2>1 DEF KeyInv, DataInv, RequestInv, HasData, AnsweredSince, Reads
  <2>3. FreshInv(j)'
    BY DEF FreshInv
  <2>4. QuietInv(j)'
    BY <1>1, <2>1 DEF KeyInv, QuietInv, HasData, OfTheUser, Quiet, Current
  <2> QED
    BY <2>2, <2>3, <2>4 DEF KeyInv
<1> QED
  BY <1>2, <1>3

LEMMA FillNext ==
  ASSUME PagesInv, NEW kind \in Kinds, FillInput(kind)
  PROVE  /\ PagesTypeOK' /\ flow'.at \in 0..Now'
         /\ \A j \in ReadKeys : KeyInv(j)'
<1>1. PICK n \in Offers(kind) :
        flow' = [NoFlow EXCEPT !.kind = kind, !.amount = n, !.stage = "filled"]
  BY DEF FillInput
<1>2. n \in Nat
  BY <1>1, OffersAreAmounts
<1>3. flow' \in Actions /\ flow'.stage = "filled" /\ flow'.kind = kind /\ flow'.at = 0
  BY <1>1, <1>2 DEF NoFlow, Actions
<1>4. flow.stage # "mined" /\ UNCHANGED <<states, entry, fetching, scenario>>
  BY DEF FillInput, others
<1> QED
  BY <1>3, <1>4, KeysBefore

LEMMA ClickNext ==
  ASSUME PagesInv, ClickAction
  PROVE  /\ PagesTypeOK' /\ flow'.at \in 0..Now'
         /\ \A j \in ReadKeys : KeyInv(j)'
<1> DEFINE sure == UpToDate({"position", "debt", "market", "oracle"})
<1>1. flow' = [flow EXCEPT !.stage = "sent", !.asked = Now, !.sure = sure]
  BY DEF ClickAction
<1>2. sure \in BOOLEAN
  BY DEF UpToDate
<1> HIDE DEF sure
<1>3. flow \in Actions /\ Now \in Nat /\ flow.stage = "filled"
  BY DEF PagesInv, PagesTypeOK, Now, ClickAction
<1>4. flow' \in Actions /\ flow'.stage = "sent" /\ flow'.kind = flow.kind /\ flow'.at = flow.at
  BY <1>1, <1>2, <1>3 DEF Actions
<1>5. flow.kind \in Kinds
  BY <1>3 DEF PagesInv, PagesTypeOK
<1>6. UNCHANGED <<states, entry, fetching, scenario>>
  BY DEF ClickAction, others
<1> QED
  BY <1>3, <1>4, <1>5, <1>6, KeysBefore

LEMMA RejectedNext ==
  ASSUME PagesInv, Rejected
  PROVE  /\ PagesTypeOK' /\ flow'.at \in 0..Now'
         /\ \A j \in ReadKeys : KeyInv(j)'
<1>1. flow' = [NoFlow EXCEPT !.kind = flow.kind, !.amount = flow.amount, !.stage = "filled"]
  BY DEF Rejected
<1>2. flow \in Actions /\ flow.stage = "sent"
  BY DEF PagesInv, PagesTypeOK, Rejected
<1>3. flow.kind \in Kinds /\ flow.amount \in Nat
  BY <1>2 DEF PagesInv, PagesTypeOK, Actions
<1>4. flow' \in Actions /\ flow'.stage = "filled" /\ flow'.kind = flow.kind /\ flow'.at = 0
  BY <1>1, <1>3 DEF NoFlow, Actions
<1>5. UNCHANGED <<states, entry, fetching, scenario>>
  BY DEF Rejected, others
<1> QED
  BY <1>2, <1>3, <1>4, <1>5, KeysBefore

LEMMA MineNext ==
  ASSUME PagesInv, MineFlow
  PROVE  /\ PagesTypeOK' /\ flow'.at \in 0..Now'
         /\ \A j \in ReadKeys : KeyInv(j)'
<1>1. /\ UNCHANGED <<entry, fetching, scenario>> /\ PagesTypeOK
      /\ flow' = [flow EXCEPT !.stage = "mined", !.at = Len(states')]
      /\ flow.stage = "sent" /\ flow \in Actions
  BY DEF MineFlow, others, PagesInv, PagesTypeOK
<1>2. states' \in Seq(ChainStates) /\ Now' > 0 /\ Now' \in Nat
  <2>1. states \in Seq(ChainStates) /\ Now > 0 /\ Now \in Nat
    BY <1>1 DEF PagesTypeOK, Now
  <2>2. CASE states' = states
    BY <2>1, <2>2 DEF Now
  <2>3. ASSUME NEW x \in ChainStates, states' = Append(states, x)
        PROVE  states' \in Seq(ChainStates) /\ Now' > 0 /\ Now' \in Nat
    BY <2>1, <2>3, AppendedStates DEF Now
  <2> QED
    BY <1>1, <2>2, <2>3, MinedFollows
<1>3. flow' \in Actions /\ flow'.stage = "mined" /\ flow'.at = Now' /\ flow'.kind = flow.kind
  BY <1>1, <1>2 DEF Actions, Now
<1>4. PagesTypeOK' /\ flow'.at \in 0..Now'
  <2>1. flow'.kind \in Kinds
    BY <1>1, <1>3 DEF PagesTypeOK
  <2> QED
    BY <1>1, <1>2, <1>3, <2>1 DEF PagesTypeOK
<1>5. ASSUME NEW j \in ReadKeys PROVE KeyInv(j)'
  <2>1. KeyInv(j)
    BY DEF PagesInv
  <2>2. DataInv(j)' /\ RequestInv(j)'
    <3>1. CASE states' = states
      BY <1>1, <2>1, <3>1 DEF KeyInv, DataInv, RequestInv, HasData, AnsweredSince, Reads, Now
    <3>2. ASSUME NEW x \in ChainStates, states' = Append(states, x)
          PROVE  DataInv(j)' /\ RequestInv(j)'
      BY <1>1, <2>1, <3>2, KeyOutlives
    <3> QED
      BY <1>1, <3>1, <3>2, MinedFollows
  <2>3. FreshInv(j)' /\ QuietInv(j)'
    BY <1>3 DEF FreshInv, QuietInv
  <2> QED
    BY <2>2, <2>3 DEF KeyInv
<1> QED
  BY <1>4, <1>5

(* The invalidation: all that was known of the user is dropped and read     *)
(* anew from here on.                                                       *)
LEMMA InvalidateNext ==
  ASSUME PagesInv, Invalidate
  PROVE  /\ PagesTypeOK' /\ flow'.at \in 0..Now'
         /\ \A j \in ReadKeys : KeyInv(j)'
<1>1. /\ UNCHANGED <<states, scenario>> /\ PagesTypeOK /\ Now' = Now /\ Now \in Nat /\ Now > 0
      /\ flow.stage = "mined" /\ flow \in Actions /\ flow.at \in 0..Now
      /\ entry \in [ReadKeys -> Entries] /\ fetching \in [ReadKeys -> Requests]
  BY DEF Invalidate, others, PagesInv, PagesTypeOK, Now
<1>2. /\ flow' \in Actions /\ flow'.stage = "refreshing" /\ flow'.at = flow.at
      /\ flow'.kind = flow.kind /\ flow'.waits = {k \in Reads : OfTheUser(k)}
  <2>1. Reads \in SUBSET ReadKeys
    BY <1>1, ReadsAssumption DEF PagesTypeOK, Reads
  <2>2. {k \in Reads : OfTheUser(k)} \in SUBSET ReadKeys
    BY <2>1
  <2>3. flow' = [flow EXCEPT !.stage = "refreshing", !.waits = {k \in Reads : OfTheUser(k)}]
    BY DEF Invalidate
  <2> QED
    BY <1>1, <2>2, <2>3 DEF Actions
<1>3. /\ entry' \in [ReadKeys -> Entries]
      /\ \A k \in ReadKeys : entry'[k] = IF OfTheUser(k) THEN NoEntry ELSE entry[k]
  <2>1. NoEntry \in Entries
    BY DEF NoEntry, Entries
  <2> QED
    BY <1>1, <2>1 DEF Invalidate
<1>4. /\ fetching' \in [ReadKeys -> Requests]
      /\ \A k \in ReadKeys :
           fetching'[k] = IF k \in Reads /\ (OfTheUser(k) \/ ReadAnew(k)) THEN Fetch(k, 0)
                          ELSE fetching[k]
  <2>1. \A k \in ReadKeys : Fetch(k, 0) \in Requests
    BY <1>1, FetchStarts
  <2> QED
    BY <1>1, <2>1 DEF Invalidate
<1>5. PagesTypeOK' /\ flow'.at \in 0..Now'
  <2>1. flow'.kind \in Kinds
    BY <1>1, <1>2 DEF PagesTypeOK
  <2> QED
    BY <1>1, <1>2, <1>3, <1>4, <2>1 DEF PagesTypeOK
<1>6. ASSUME NEW j \in ReadKeys PROVE KeyInv(j)'
  <2>1. KeyInv(j)
    BY DEF PagesInv
  <2>2. /\ Fetch(j, 0).open /\ Fetch(j, 0).since = Now
        /\ Fetch(j, 0).mantle \in {0, Now} /\ Fetch(j, 0).ethereum \in {0, Now}
    BY <1>1, FetchStarts
  <2>3. NoEntry.mantle = 0
    BY DEF NoEntry
  <2>4. DataInv(j)'
    BY <1>1, <1>3, <2>1, <2>3 DEF KeyInv, DataInv, HasData
  <2>5. RequestInv(j)'
    <3>1. CASE fetching'[j] = Fetch(j, 0) /\ j \in Reads
      BY <1>1, <2>2, <3>1 DEF RequestInv, AnsweredSince, Reads
    <3>2. CASE fetching'[j] = fetching[j]
      BY <1>1, <2>1, <3>2 DEF KeyInv, RequestInv, AnsweredSince, Reads
    <3> QED
      BY <1>4, <3>1, <3>2
  <2>6. FreshInv(j)'
    <3> SUFFICES ASSUME OfTheUser(j), j \in Reads
                 PROVE  FreshInv(j)'
      BY <1>1 DEF FreshInv, OfTheUser, Reads
    <3>1. fetching'[j] = Fetch(j, 0) /\ entry'[j].mantle = 0 /\ j \in flow'.waits
      BY <1>2, <1>3, <1>4, <2>3
    <3> QED
      BY <1>1, <1>2, <2>2, <3>1 DEF FreshInv, HasData
  <2>7. QuietInv(j)'
    <3> SUFFICES ASSUME OfTheUser(j)
                 PROVE  QuietInv(j)'
      BY DEF QuietInv, OfTheUser
    <3>1. entry'[j].mantle = 0
      BY <1>3, <2>3
    <3>2. CASE j \in Reads
      <4>1. fetching'[j].since = Now
        BY <1>4, <2>2, <3>2
      <4> QED
        BY <1>1, <3>1, <4>1 DEF QuietInv, HasData, Quiet, Current
    <3>3. CASE j \notin Reads
      <4>1. ~fetching'[j].open
        BY <1>4, <2>1, <3>3 DEF KeyInv, RequestInv
      <4> QED
        BY <3>1, <4>1 DEF QuietInv, HasData
    <3> QED
      BY <3>2, <3>3
  <2> QED
    BY <2>4, <2>5, <2>6, <2>7 DEF KeyInv
<1> QED
  BY <1>5, <1>6

LEMMA SucceedNext ==
  ASSUME PagesInv, Succeed
  PROVE  /\ PagesTypeOK' /\ flow'.at \in 0..Now'
         /\ \A j \in ReadKeys : KeyInv(j)'
<1>1. /\ UNCHANGED <<states, entry, fetching, scenario>> /\ PagesTypeOK /\ Now' = Now
      /\ flow.stage = "refreshing" /\ flow \in Actions /\ flow.at \in 0..Now
      /\ flow' = [flow EXCEPT !.stage = "succeeded"]
  BY DEF Succeed, others, PagesInv, PagesTypeOK, Now
<1>2. /\ flow' \in Actions /\ flow'.stage = "succeeded" /\ flow'.at = flow.at
      /\ flow'.kind = flow.kind /\ flow'.waits = flow.waits
  BY <1>1 DEF Actions
<1>3. PagesTypeOK' /\ flow'.at \in 0..Now'
  BY <1>1, <1>2 DEF PagesTypeOK
<1>4. ASSUME NEW j \in ReadKeys PROVE KeyInv(j)'
  <2>1. KeyInv(j)
    BY DEF PagesInv
  <2>2. DataInv(j)' /\ RequestInv(j)'
    BY <1>1, <2>1 DEF KeyInv, DataInv, RequestInv, HasData, AnsweredSince, Reads
  <2>3. FreshInv(j)'
    BY <1>1, <1>2, <2>1 DEF KeyInv, FreshInv, HasData, Reads, OfTheUser
  <2>4. QuietInv(j)'
    BY <1>1, <1>2, <2>1 DEF KeyInv, QuietInv, HasData, OfTheUser, Quiet, Current
  <2> QED
    BY <2>2, <2>3, <2>4 DEF KeyInv
<1> QED
  BY <1>3, <1>4

LEMMA OtherNext ==
  ASSUME PagesInv, UNCHANGED <<states, entry, fetching, flow, scenario>>
  PROVE  /\ PagesTypeOK' /\ flow'.at \in 0..Now'
         /\ \A j \in ReadKeys : KeyInv(j)'
<1>1. PagesTypeOK' /\ flow'.at \in 0..Now'
  BY DEF PagesInv, PagesTypeOK, Now
<1>2. ASSUME NEW j \in ReadKeys PROVE KeyInv(j)'
  <2>1. KeyInv(j) /\ (j \in flow'.waits <=> j \in flow.waits)
    BY DEF PagesInv
  <2> QED
    BY <2>1, KeyStays
<1> QED
  BY <1>1, <1>2

LEMMA PagesInvNext == PagesInv /\ [PageNext]_pageVars => PagesInv'
<1> SUFFICES ASSUME PagesInv, [PageNext]_pageVars PROVE PagesInv'
  OBVIOUS
<1> DEFINE Kept == /\ PagesTypeOK' /\ flow'.at \in 0..Now'
                   /\ \A j \in ReadKeys : KeyInv(j)'
<1>1. PegInv'
  BY PegInvNext DEF PagesInv
<1> SUFFICES Kept
  BY <1>1 DEF PagesInv
<1>2. ASSUME NEW k \in ReadKeys,
             Mount(k) \/ Poll(k) \/ Retry(k) \/ SideAnswers(k) \/ Arrive(k) \/ Break(k)
      PROVE  Kept
  BY <1>2, StartsNext, SideNext, ArriveNext, BreakNext
<1>3. CASE Focus
  BY <1>3, FocusNext
<1>4. CASE ChainMoves
  BY <1>4, ChainMovesNext
<1>5. ASSUME NEW kind \in Kinds, FillInput(kind)
      PROVE  Kept
  BY <1>5, FillNext
<1>6. CASE ClickAction
  BY <1>6, ClickNext
<1>7. CASE MineFlow
  BY <1>7, MineNext
<1>8. CASE Rejected
  BY <1>8, RejectedNext
<1>9. CASE Invalidate
  BY <1>9, InvalidateNext
<1>10. CASE Succeed
  BY <1>10, SucceedNext
<1>11. CASE UseWallet \/ UNCHANGED pageVars
  <2>1. UNCHANGED <<states, entry, fetching, flow, scenario>>
    BY <1>11 DEF UseWallet, pageVars, cacheVars, others
  <2> QED
    BY <2>1, OtherNext
<1> QED
  BY <1>2, <1>3, <1>4, <1>5, <1>6, <1>7, <1>8, <1>9, <1>10, <1>11 DEF PageNext

LEMMA PagesInvInit == PageInit => PagesInv
<1> SUFFICES ASSUME PageInit PROVE PagesInv
  OBVIOUS
<1>1. PICK x \in ChainStates : states = <<x>> /\ scenario \in Scenarios
  BY ReadsAssumption DEF PageInit
<1>2. states \in Seq(ChainStates) /\ Now = 1 /\ states[1] = x
  BY <1>1 DEF Now
<1>3. /\ NoEntry \in Entries /\ NoEntry.mantle = 0
      /\ NoFetch \in Requests /\ ~NoFetch.open
      /\ NoFlow \in Actions /\ NoFlow.stage = "none" /\ NoFlow.at = 0
  BY DEF NoEntry, Entries, NoFetch, Requests, NoFlow, Actions
<1>4. PagesTypeOK /\ flow.at \in 0..Now
  BY <1>1, <1>2, <1>3 DEF PageInit, PagesTypeOK
<1>5. ASSUME NEW k \in ReadKeys PROVE KeyInv(k)
  BY <1>3 DEF PageInit, KeyInv, DataInv, RequestInv, FreshInv, QuietInv, HasData
<1>6. PegInv
  BY <1>2 DEF PegInv
<1> QED
  BY <1>4, <1>5, <1>6 DEF PagesInv

LEMMA PagesAlways == PageSpec => []PagesInv
BY PagesInvInit, PagesInvNext, PTL DEF PageSpec

(* Of the user's reads nothing is older than the receipt.                   *)
LEMMA FreshFollows == PagesInv => FreshAfterSuccess
<1> SUFFICES ASSUME PagesInv, flow.stage = "succeeded",
                    NEW k \in Reads \cap {"usdyBalance", "locked", "acusdy", "usdc", "position", "debt"}
             PROVE  \/ entry[k].ethereum >= flow.at
                    \/ ~HasData(k) /\ (entry[k].failures > 0 \/ fetching[k].open)
  BY DEF FreshAfterSuccess
<1>1. k \in ReadKeys /\ OfTheUser(k)
  BY DEF ReadKeys, OfTheUser, Read, UseBorrowerBalance, UseLockedUSDY, UseAcUSDYBalance,
         UseUSDCBalance, UseMorphoCollateral, UseBorrowerDebt, OfUser, UseMultiChainRead,
         UseMultiChainBatchRead
<1>2. KeyInv(k) /\ entry[k] \in Entries /\ flow \in Actions
  BY <1>1 DEF PagesInv, PagesTypeOK
<1>3. CASE HasData(k)
  <2>1. entry[k].since >= flow.at /\ entry[k].ethereum \in entry[k].since..Now
    BY <1>1, <1>2, <1>3 DEF KeyInv, DataInv, FreshInv
  <2> QED
    BY <1>2, <2>1 DEF Entries, Actions
<1>4. CASE ~HasData(k)
  BY <1>1, <1>2, <1>4 DEF KeyInv, FreshInv
<1> QED
  BY <1>3, <1>4

(* All three reads are of one quiet period, so that what is pending was     *)
(* pending when the AcUSDY was read.                                        *)
LEMMA PendingFollows == PagesInv => PendingIsReal
<1> SUFFICES ASSUME PagesInv, PendingAttestation(Page) > 0, flow.stage # "mined"
             PROVE  \E i \in 1..Now :
                      /\ \E k \in {"locked", "acusdy", "position"} : entry[k].ethereum <= i
                      /\ PendingAttestation(Page) = states[i].locked - (states[i].acusdy + states[i].posted)
  BY DEF PendingIsReal
<1> DEFINE pending == Page["locked"].x.locked - (Page["acusdy"].x.acusdy + Page["position"].x.posted)
<1>1. ASSUME NEW k \in {"locked", "acusdy", "position"}
      PROVE  k \in ReadKeys /\ OfTheUser(k)
  BY DEF ReadKeys, OfTheUser, Read, UseLockedUSDY, UseAcUSDYBalance, UseMorphoCollateral,
         OfUser, UseMultiChainRead
<1>2. /\ \A k \in {"locked", "acusdy", "position"} : Page[k].known
      /\ PendingAttestation(Page) = AtLeastZero(pending)
  BY DEF PendingAttestation, None
<1>3. ASSUME NEW k \in {"locked", "acusdy", "position"}
      PROVE  /\ entry[k].ethereum \in 1..Now
             /\ Page[k].x = states[entry[k].ethereum]
             /\ Page[k].x.locked = Current.locked /\ Page[k].x.posted = Current.posted
  <2>1. HasData(k) /\ KeyInv(k) /\ OfTheUser(k) /\ entry[k] \in Entries
    BY <1>1, <1>2 DEF PagesInv, PagesTypeOK, Page, ReadResult
  <2>2. /\ entry[k].since \in 1..Now /\ entry[k].ethereum \in entry[k].since..Now
        /\ Quiet(entry[k].since)
    BY <2>1 DEF KeyInv, DataInv, QuietInv
  <2>3. Page[k].x = states[entry[k].ethereum]
    BY <1>1, <2>1 DEF Page, ReadResult
  <2>4. entry[k].ethereum \in 1..Now
    BY <2>2 DEF PagesInv, PagesTypeOK
  <2> QED
    BY <2>2, <2>3, <2>4 DEF Quiet
<1>4. PICK i \in 1..Now : i = entry["acusdy"].ethereum /\ entry["acusdy"].ethereum <= i
  BY <1>3
<1>5. pending = states[i].locked - (states[i].acusdy + states[i].posted)
  BY <1>3, <1>4
<1>6. pending \in Int
  <2>1. states[i] \in ChainStates
    BY <1>4 DEF PagesInv, PagesTypeOK, Now
  <2>2. states[i].locked \in Nat /\ states[i].acusdy \in Nat /\ states[i].posted \in Nat
    BY <2>1, StateFields
  <2> HIDE DEF pending
  <2> QED
    BY <1>5, <2>2
<1> HIDE DEF pending
<1>7. PendingAttestation(Page) = pending
  BY <1>2, <1>6 DEF AtLeastZero
<1> QED
  BY <1>4, <1>5, <1>7

(* Both sides were read while nothing could be locked without the balance   *)
(* being lost.                                                              *)
LEMMA PegFollows == PagesInv => PegInOneCycle
<1> DEFINE e == entry["tvl"]
<1> SUFFICES ASSUME PagesInv, HasData("tvl"),
                    \A i \in e.since..Now : states[i].locked = Supply(states[i])
             PROVE  IsBalanced(states[e.mantle].locked, Supply(states[e.ethereum]))
  BY DEF PegInOneCycle
<1>1. KeyInv("tvl")
  BY DEF PagesInv, ReadKeys
<1>2. /\ e.since \in 1..Now /\ e.mantle \in e.since..Now /\ e.ethereum \in e.since..Now
      /\ Now \in Nat /\ PegInv
  BY <1>1 DEF KeyInv, DataInv, PagesInv, PagesTypeOK, Now
<1> HIDE DEF e
<1>3. ASSUME NEW i \in e.since..Now, NEW j \in e.since..Now, i <= j
      PROVE  states[i].locked = states[j].locked
  <2>1. i \in 1..Now /\ j \in 1..Now /\ \A m \in i..j : m \in e.since..Now
    BY <1>2, <1>3
  <2>2. \A m \in i..j : InBalance(m)
    BY <2>1 DEF InBalance
  <2> QED
    BY <1>2, <1>3, <2>1, <2>2 DEF PegInv
<1>4. states[e.mantle].locked = states[e.ethereum].locked
  BY <1>2, <1>3
<1>5. Supply(states[e.ethereum]) = states[e.mantle].locked
  BY <1>2, <1>4
<1>6. states[e.mantle].locked \in Nat
  <2>1. e.mantle \in 1..Now
    BY <1>2
  <2>2. states[e.mantle] \in ChainStates
    BY <2>1 DEF PagesInv, PagesTypeOK, Now
  <2> QED
    BY <2>2, StateFields
<1>7. ASSUME NEW n \in Nat PROVE IsBalanced(n, n)
  BY DEF IsBalanced
<1> QED
  BY <1>5, <1>6, <1>7

(* When a page says that a transaction succeeded, what it shows of the user *)
(* is not older than the receipt, for any reads and however fetches, errors *)
(* and retries overlap with the invalidation (lib/swr/invalidation.ts).     *)
THEOREM SuccessShowsFresh == PageSpec => []FreshAfterSuccess
<1>1. PageSpec => []PagesInv
  BY PagesAlways
<1> QED
  BY <1>1, FreshFollows, PTL

(* What is shown as pending was locked and not minted at some moment since  *)
(* the oldest of its three reads (app/borrow/page.tsx, pendingAttestation). *)
THEOREM PendingWasReal == PageSpec => []PendingIsReal
<1>1. PageSpec => []PagesInv
  BY PagesAlways
<1> QED
  BY <1>1, PendingFollows, PTL

(* A broken peg is never an artefact of two chains answering at different   *)
(* times (lib/swr/useCrossChainRead.ts).                                    *)
THEOREM PegIsOfOneCycle == PageSpec => []PegInOneCycle
<1>1. PageSpec => []PagesInv
  BY PagesAlways
<1> QED
  BY <1>1, PegFollows, PTL

-----------------------------------------------------------------------------
(* The loan.  Morpho rounds what is owed up and what may be owed down, the  *)
(* page rounds each in its own way.  First the arithmetic.                  *)

LEMMA Division ==
  ASSUME NEW a \in Nat, NEW b \in Nat, b > 0
  PROVE  a \div b \in Nat /\ b * (a \div b) <= a /\ a < b * ((a \div b) + 1)
OBVIOUS

LEMMA DivisionUp ==
  ASSUME NEW a \in Nat, NEW b \in Nat, b > 0
  PROVE  /\ (a + b - 1) \div b \in Nat
         /\ a <= b * ((a + b - 1) \div b)
         /\ b * ((a + b - 1) \div b) < a + b
<1> DEFINE q == (a + b - 1) \div b
<1>1. a + b - 1 \in Nat
  OBVIOUS
<1>2. q \in Nat /\ b * q <= a + b - 1 /\ a + b - 1 < b * (q + 1)
  BY <1>1, Division
<1> HIDE DEF q
<1>3. b * (q + 1) = b * q + b /\ b * q \in Nat
  BY <1>2
<1>4. a <= b * q /\ b * q < a + b
  BY <1>2, <1>3
<1> QED
  BY <1>2, <1>4 DEF q

LEMMA Larger ==
  ASSUME NEW a \in Int, NEW b \in Int, NEW c \in Nat, a <= b
  PROVE  c * a <= c * b /\ a * c <= b * c
OBVIOUS

LEMMA LargerStill ==
  ASSUME NEW a \in Int, NEW b \in Int, NEW c \in Nat, c > 0, a < b
  PROVE  c * a < c * b
OBVIOUS

LEMMA Smaller ==
  ASSUME NEW a \in Int, NEW b \in Int, NEW c \in Nat, c > 0
  PROVE  /\ c * a <= c * b => a <= b
         /\ c * a < c * b => a < b
OBVIOUS

(* s of T shares of the assets A: D is the page's debt, O what is owed,     *)
(* with V virtual shares and one virtual asset.                             *)
LEMMA DebtRoundsUp ==
  ASSUME NEW s \in Nat, NEW A \in Nat, NEW T \in Nat, NEW V \in Nat, V > 0, T > 0, s <= T,
         V * (A + 1) <= 2 * (T + V),
         NEW D \in Nat, T * D <= s * A, s * A < T * (D + 1),
         NEW O \in Nat, s * (A + 1) <= (T + V) * O, (T + V) * O < s * (A + 1) + (T + V)
  PROVE  O <= D + 2 /\ D <= O + 1
<1>1. s * A \in Nat /\ s * (A + 1) = s * A + s
  OBVIOUS
<1>2. ASSUME O >= D + 3 PROVE FALSE
  <2>1. (T + V) * (D + 3) <= (T + V) * O
    BY <1>2, Larger
  <2>2. (T + V) * (D + 3) = T * (D + 1) + V * (D + 2) + 2 * T + V /\ V * (D + 2) >= 0
    OBVIOUS
  <2>3. T * (D + 1) \in Nat /\ V * (D + 2) \in Nat /\ (T + V) * O \in Nat
    OBVIOUS
  <2> QED
    BY <1>1, <2>1, <2>2, <2>3
<1>3. T * D <= T * (O + 1)
  <2>1. s * (V * (A + 1)) <= s * (2 * (T + V))
    BY Larger
  <2>2. T * (s * (A + 1)) <= T * ((T + V) * O)
    BY Larger
  <2>3. (T + V) * (s * A) = T * (s * (A + 1)) - T * s + s * (V * (A + 1)) - s * V
    OBVIOUS
  <2>4. (T + V) * (s * A) <= T * ((T + V) * O) - T * s + s * (2 * (T + V)) - s * V
    <3> DEFINE a == T * (s * (A + 1))
               b == T * ((T + V) * O)
               c == s * (V * (A + 1))
               d == s * (2 * (T + V))
    <3>1. a \in Int /\ b \in Int /\ c \in Int /\ d \in Int /\ T * s \in Int /\ s * V \in Int
      OBVIOUS
    <3> HIDE DEF a, b, c, d
    <3> QED
      BY <2>1, <2>2, <2>3, <3>1 DEF a, b, c, d
  <2>5. T * ((T + V) * O) - T * s + s * (2 * (T + V)) - s * V = (T + V) * (T * O + s)
    OBVIOUS
  <2>6. s * A <= T * O + s
    <3>1. s * A \in Int /\ T * O + s \in Int /\ T + V \in Nat /\ T + V > 0
      OBVIOUS
    <3> QED
      BY <2>4, <2>5, <3>1, Smaller
  <2>7. T * (O + 1) = T * O + T /\ T * O \in Nat /\ T * D \in Nat
    OBVIOUS
  <2> QED
    BY <1>1, <2>6, <2>7
<1>4. D <= O + 1
  BY <1>3, Smaller
<1> QED
  BY <1>2, <1>4

(* A limit of X * L over P * S: M is rounded down after each factor.        *)
LEMMA LimitRoundsDown ==
  ASSUME NEW X \in Nat, NEW L \in Nat, NEW P \in Nat, P > 0, NEW S \in Nat, L <= S,
         NEW q \in Nat, P * q <= X, X < P * (q + 1),
         NEW M \in Nat, S * M <= q * L, q * L < S * (M + 1)
  PROVE  P * S * M <= X * L /\ X * L < P * S * (M + 2)
<1>1. P * S * M <= X * L
  <2>1. P * (S * M) <= P * (q * L) /\ (P * q) * L <= X * L
    BY Larger
  <2>2. P * S * M = P * (S * M) /\ P * (q * L) = (P * q) * L
    OBVIOUS
  <2> DEFINE a == P * (S * M)
             b == P * (q * L)
             c == X * L
  <2>3. a \in Int /\ b \in Int /\ c \in Int
    OBVIOUS
  <2>4. P * S * M = a /\ a <= b /\ b <= c
    BY <2>1, <2>2
  <2> HIDE DEF a, b
  <2>5. a <= c
    <3> HIDE DEF c
    <3> QED
      BY <2>3, <2>4
  <2> QED
    BY <2>4, <2>5
<1>2. X * L < P * S * (M + 2)
  <2>1. X <= P * (q + 1)
    OBVIOUS
  <2>2. X * L <= (P * (q + 1)) * L
    BY <2>1, Larger
  <2>3. (P * (q + 1)) * L = P * (q * L + L)
    OBVIOUS
  <2>4. q * L + L < S * (M + 1) + S
    <3>1. q * L \in Nat /\ S * (M + 1) \in Nat
      OBVIOUS
    <3> QED
      BY <3>1
  <2>5. P * (q * L + L) < P * (S * (M + 1) + S)
    <3>1. q * L + L \in Int /\ S * (M + 1) + S \in Int
      OBVIOUS
    <3> QED
      BY <2>4, <3>1, LargerStill
  <2>6. P * (S * (M + 1) + S) = P * S * (M + 2)
    OBVIOUS
  <2> DEFINE a == X * L
             b == (P * (q + 1)) * L
             c == P * (S * (M + 1) + S)
  <2>7. a \in Int /\ b \in Int /\ c \in Int
    OBVIOUS
  <2>8. a <= b /\ b < c /\ c = P * S * (M + 2)
    BY <2>2, <2>3, <2>5, <2>6
  <2>9. a < c
    <3> HIDE DEF a, b, c
    <3> QED
      BY <2>7, <2>8
  <2> QED
    BY <2>8, <2>9
<1> QED
  BY <1>1, <1>2

(* After a borrow of n: O is what was owed, Q what is owed then; both are   *)
(* rounded up.                                                              *)
LEMMA BorrowAdds ==
  ASSUME NEW s \in Nat, NEW A \in Nat, NEW B \in Nat, B > 0, A > 0,
         A <= 2 * B, NEW n \in Nat,
         NEW d \in Nat, n * B <= A * d, A * d < n * B + A,
         NEW O \in Nat, s * A <= B * O,
         NEW Q \in Nat, (B + d) * Q < (s + d) * (A + n) + (B + d)
  PROVE  Q <= O + n + 2
<1>1. B * (A + n) <= A * (B + d)
  <2>1. B * (A + n) = B * A + n * B /\ A * (B + d) = B * A + A * d
    OBVIOUS
  <2>2. B * A \in Int /\ n * B \in Int /\ A * d \in Int
    OBVIOUS
  <2> QED
    BY <2>1, <2>2
<1>2. (s + d) * (B * (A + n)) <= (s + d) * (A * (B + d))
  BY <1>1, Larger
<1>3. (s + d) * A < B * (O + n + 2)
  <2>1. (s + d) * A = s * A + A * d /\ B * (O + n + 2) = B * O + n * B + 2 * B
    OBVIOUS
  <2>2. s * A \in Int /\ A * d \in Int /\ B * O \in Int /\ n * B \in Int
    OBVIOUS
  <2> QED
    BY <2>1, <2>2
<1>4. (s + d) * A <= B * (O + n + 2) - 1
  <2>1. (s + d) * A \in Int /\ B * (O + n + 2) \in Int
    OBVIOUS
  <2> QED
    BY <1>3, <2>1
<1>5. ASSUME Q >= O + n + 3 PROVE FALSE
  <2> DEFINE C == B + d
             z == O + n + 2
  <2>1. C \in Nat /\ C > 0 /\ z \in Nat
    OBVIOUS
  <2>2. C * (z + 1) <= C * Q
    BY <1>5, Larger
  <2>3. C * z < (s + d) * (A + n)
    <3>1. C * (z + 1) = C * z + C /\ C * z \in Int /\ C * Q \in Int /\ (s + d) * (A + n) \in Int
      OBVIOUS
    <3> QED
      BY <2>1, <2>2, <3>1
  <2>4. B * (C * z) < B * ((s + d) * (A + n))
    <3>1. C * z \in Int /\ (s + d) * (A + n) \in Int
      OBVIOUS
    <3> HIDE DEF C, z
    <3> QED
      BY <2>3, <3>1, LargerStill
  <2>5. ((s + d) * A) * C <= (B * z) * C
    <3>1. (s + d) * A \in Int /\ B * z \in Int
      OBVIOUS
    <3>2. (s + d) * A < B * z
      BY <1>3
    <3> HIDE DEF z, C
    <3> QED
      BY <2>1, <3>1, <3>2, Larger
  <2>6. /\ B * ((s + d) * (A + n)) = (s + d) * (B * (A + n))
        /\ (s + d) * (A * (B + d)) = ((s + d) * A) * C
        /\ (B * z) * C = B * (C * z)
    OBVIOUS
  <2> DEFINE e1 == B * (C * z)
             e2 == (s + d) * (B * (A + n))
             e3 == ((s + d) * A) * C
  <2>7. e1 \in Int /\ e2 \in Int /\ e3 \in Int
    OBVIOUS
  <2>8. e1 < e2 /\ e2 <= e3 /\ e3 <= e1
    BY <1>2, <2>4, <2>5, <2>6
  <2> HIDE DEF e1, e2, e3
  <2> QED
    BY <2>7, <2>8
<1> QED
  BY <1>5

(* A share is worth no more after a borrow of n for d shares.               *)
LEMMA IndexStays ==
  ASSUME NEW V \in Nat, NEW A \in Nat, NEW B \in Nat, A > 0, NEW g \in Nat,
         V * (A + g) <= 2 * B, NEW n \in Nat, NEW d \in Nat, n * B <= A * d
  PROVE  V * (A + n + g) <= 2 * (B + d)
<1>1. V * A <= 2 * B
  <2>1. V * (A + g) = V * A + V * g /\ V * A \in Nat /\ V * g \in Nat
    OBVIOUS
  <2> QED
    BY <2>1
<1>2. A * (n * V) <= A * (2 * d)
  <2>1. n * (V * A) <= n * (2 * B)
    BY <1>1, Larger
  <2>2. n * (V * A) = A * (n * V) /\ n * (2 * B) = 2 * (n * B) /\ A * (2 * d) = 2 * (A * d)
    OBVIOUS
  <2>3. n * B \in Int /\ A * d \in Int /\ A * (n * V) \in Int
    OBVIOUS
  <2> QED
    BY <2>1, <2>2, <2>3
<1>3. n * V <= 2 * d
  BY <1>2, Smaller
<1>4. V * (A + n + g) = V * (A + g) + n * V /\ V * (A + g) \in Int /\ n * V \in Int
  OBVIOUS
<1> QED
  BY <1>3, <1>4

(* How a state of Morpho's market may go on: its debt is covered, its LLTV  *)
(* does not change, and the worth of a share grows by an accrual at most.   *)
Solid(x) ==
  /\ x.lltv <= LltvScale /\ x.price > 0
  /\ x.shares <= x.totalShares
  /\ x.shares > 0 => x.posted > 0

Worth(x, growth) ==
  VirtualShares * ((x.totalAssets + x.pending + 1) + growth) <= 2 * (x.totalShares + VirtualShares)

GoesOnAs(x, y) ==
  /\ y \in ChainStates
  /\ Solid(y) /\ y.lltv = x.lltv
  /\ \A g \in Nat : Worth(x, Interest + g) => Worth(y, g)

(* A state that is Solid with the same market totals goes on.               *)
LEMMA WorthWanes ==
  ASSUME NEW x \in ChainStates, NEW y \in ChainStates, Interest \in Nat,
         y.totalAssets + y.pending = x.totalAssets + x.pending, y.totalShares = x.totalShares,
         NEW g \in Nat, Worth(x, Interest + g)
  PROVE  Worth(y, g)
<1>1. /\ x.totalAssets \in Nat /\ x.pending \in Nat /\ x.totalShares \in Nat
      /\ VirtualShares \in Nat
  BY StateFields, Scales
<1> DEFINE a == (x.totalAssets + x.pending + 1) + g
           b == (x.totalAssets + x.pending + 1) + (Interest + g)
<1>2. a \in Int /\ b \in Int /\ a <= b
  BY <1>1
<1>3. VirtualShares * b <= 2 * (x.totalShares + VirtualShares)
  BY DEF Worth
<1> HIDE DEF a, b
<1>4. VirtualShares * a <= VirtualShares * b
  BY <1>1, <1>2, Larger
<1>5. VirtualShares * a <= 2 * (x.totalShares + VirtualShares)
  <2>1. VirtualShares * a \in Int /\ VirtualShares * b \in Int /\ 2 * (x.totalShares + VirtualShares) \in Int
    BY <1>1, <1>2
  <2> QED
    BY <1>3, <1>4, <2>1
<1> QED
  BY <1>5 DEF Worth, a

(* What a healthy position owes is covered by collateral.                   *)
LEMMA HealthyIsCovered ==
  ASSUME NEW y \in ChainStates, IsHealthy(y), y.shares > 0
  PROVE  y.posted > 0
<1>1. /\ y.posted \in Nat /\ y.shares \in Nat /\ y.totalAssets \in Nat /\ y.totalShares \in Nat
      /\ y.pending \in Nat /\ y.price \in Nat /\ y.lltv \in Nat
  BY StateFields
<1> DEFINE a == y.shares * (y.totalAssets + y.pending + 1)
           b == y.totalShares + VirtualShares
<1>2. a \in Nat /\ a > 0 /\ b \in Nat /\ b > 0
  <2>1. b \in Nat /\ b > 0
    BY <1>1, Scales
  <2>2. a \in Nat /\ a > 0
    BY <1>1
  <2> QED
    BY <2>1, <2>2
<1>3. Owed(y) = (a + b - 1) \div b
  BY DEF Owed, CeilingDiv
<1> HIDE DEF a, b
<1>4. Owed(y) \in Nat /\ a <= b * Owed(y)
  BY <1>2, <1>3, DivisionUp
<1>5. Owed(y) > 0
  <2>1. Owed(y) = 0 => b * Owed(y) = 0
    BY <1>2
  <2> QED
    BY <1>2, <1>4, <2>1
<1>6. Owed(y) <= MaxBorrow(y)
  BY <1>1 DEF IsHealthy
<1>7. ASSUME y.posted = 0 PROVE FALSE
  <2>1. y.posted * y.price = 0
    BY <1>1, <1>7
  <2>2. PriceScale \in Nat /\ PriceScale > 0 /\ LltvScale \in Nat /\ LltvScale > 0
    BY ViewsAssumption
  <2>3. 0 \div PriceScale = 0 /\ 0 * y.lltv = 0 /\ 0 \div LltvScale = 0
    BY <1>1, <2>2
  <2>4. MaxBorrow(y) = 0
    BY <2>1, <2>3 DEF MaxBorrow, FloorDiv
  <2> QED
    BY <1>4, <1>5, <1>6, <2>4
<1> QED
  BY <1>1, <1>7

(* The shares for a borrow of n, rounded up.                                *)
LEMMA SharesOf ==
  ASSUME NEW x \in ChainStates, NEW n \in Nat
  PROVE  LET A == x.totalAssets + 1
             B == x.totalShares + VirtualShares
             d == CeilingDiv(n * B, A)
         IN /\ A \in Nat /\ A > 0 /\ B \in Nat /\ B > 0 /\ d \in Nat
            /\ n * B <= A * d /\ A * d < n * B + A
<1> DEFINE A == x.totalAssets + 1
           B == x.totalShares + VirtualShares
           d == CeilingDiv(n * B, A)
<1>1. A \in Nat /\ A > 0 /\ B \in Nat /\ B > 0
  BY StateFields, Scales
<1> HIDE DEF A, B
<1>2. n * B \in Nat
  BY <1>1, Products
<1>3. d = (n * B + A - 1) \div A
  BY DEF CeilingDiv
<1> HIDE DEF d
<1>4. d \in Nat /\ n * B <= A * d /\ A * d < n * B + A
  BY <1>1, <1>2, <1>3, DivisionUp
<1> QED
  BY <1>1, <1>4 DEF A, B, d

LEMMA MovedGoesOn ==
  ASSUME NEW x \in ChainStates, Solid(x), Interest \in Nat,
         NEW kind \in Kinds, NEW n \in Nat, Moved(kind, n, x) \in ChainStates,
         kind \in {"borrow", "withdraw"} => IsHealthy(Moved(kind, n, x))
  PROVE  GoesOnAs(x, Moved(kind, n, x))
<1> DEFINE y == Moved(kind, n, x)
<1>1. /\ x.usdy \in Nat /\ x.locked \in Nat /\ x.acusdy \in Nat /\ x.posted \in Nat
      /\ x.shares \in Nat /\ x.totalAssets \in Nat /\ x.totalShares \in Nat
      /\ x.pending \in Nat
      /\ x.price \in Nat /\ x.stale \in BOOLEAN /\ x.lltv \in Nat /\ x.liquidity \in Nat
  BY StateFields
<1>2. y \in ChainStates
  OBVIOUS
<1>3. kind \in {"borrow", "withdraw"} => IsHealthy(y)
  OBVIOUS
<1>4. CASE kind = "borrow"
  <2> DEFINE A == x.totalAssets + 1
             B == x.totalShares + VirtualShares
             d == CeilingDiv(n * B, A)
  <2>1. /\ A \in Nat /\ A > 0 /\ B \in Nat /\ d \in Nat
        /\ n * B <= A * d
    BY SharesOf
  <2>2. y = [x EXCEPT !.shares = @ + d, !.totalShares = @ + d, !.totalAssets = @ + n,
                      !.liquidity = @ - n]
    BY <1>4 DEF Moved
  <2> HIDE DEF d, y
  <2>3. /\ y.shares = x.shares + d /\ y.totalShares = x.totalShares + d
        /\ y.totalAssets = x.totalAssets + n /\ y.pending = x.pending
        /\ y.lltv = x.lltv /\ y.price = x.price
    BY <2>2 DEF ChainStates
  <2>4. Solid(y)
    <3>1. y.shares > 0 => y.posted > 0
      BY <1>2, <1>3, <1>4, HealthyIsCovered DEF y
    <3> QED
      BY <1>1, <2>1, <2>3, <3>1 DEF Solid
  <2>5. ASSUME NEW g \in Nat, Worth(x, Interest + g) PROVE Worth(y, g)
    <3> DEFINE h == x.pending + (Interest + g)
    <3>1. VirtualShares * (A + h) <= 2 * B
      <4>1. (x.totalAssets + x.pending + 1) + (Interest + g) = A + h
        BY <1>1
      <4> QED
        BY <2>5, <4>1 DEF Worth
    <3>2. VirtualShares \in Nat /\ h \in Nat /\ x.pending + g \in Nat /\ x.pending + g <= h
      BY <1>1, Scales
    <3> HIDE DEF A, B, h
    <3>3. VirtualShares * (A + n + h) <= 2 * (B + d)
      BY <2>1, <3>1, <3>2, IndexStays
    <3> DEFINE a == A + n + (x.pending + g)
               b == A + n + h
    <3>4. a \in Int /\ b \in Int /\ a <= b
      BY <2>1, <3>2
    <3>5. VirtualShares * a <= VirtualShares * b
      <4> HIDE DEF a, b
      <4> QED
        BY <3>2, <3>4, Larger
    <3>6. VirtualShares * a <= 2 * (B + d)
      <4>1. VirtualShares * a \in Int /\ VirtualShares * b \in Int /\ 2 * (B + d) \in Int
        BY <2>1, <3>2, <3>4
      <4>2. VirtualShares * b <= 2 * (B + d)
        BY <3>3
      <4> HIDE DEF a, b
      <4> QED
        BY <3>5, <4>1, <4>2
    <3>7. (y.totalAssets + y.pending + 1) + g = a
      BY <1>1, <2>3 DEF A
    <3>8. y.totalShares + VirtualShares = B + d
      BY <1>1, <2>1, <2>3, <3>2 DEF B
    <3> HIDE DEF a
    <3> QED
      BY <3>6, <3>7, <3>8 DEF Worth
  <2> QED
    BY <1>2, <2>3, <2>4, <2>5 DEF GoesOnAs, y
<1>5. CASE kind # "borrow"
  <2>1. /\ y.shares = x.shares /\ y.totalShares = x.totalShares /\ y.totalAssets = x.totalAssets
        /\ y.pending = x.pending
        /\ y.lltv = x.lltv /\ y.price = x.price
        /\ kind # "withdraw" => y.posted >= x.posted
    <3>1. CASE kind = "withdraw"
      BY <1>1, <3>1 DEF Moved, ChainStates
    <3>2. CASE kind = "supplyCollateral"
      <4>1. y = [x EXCEPT !.acusdy = @ - n, !.posted = @ + n]
        BY <3>2 DEF Moved
      <4> HIDE DEF y
      <4> QED
        BY <1>1, <4>1 DEF ChainStates
    <3>3. CASE kind = "lock"
      <4>1. y = [x EXCEPT !.usdy = @ - n, !.locked = @ + n]
        BY <3>3 DEF Moved
      <4> HIDE DEF y
      <4> QED
        BY <1>1, <4>1 DEF ChainStates
    <3> QED
      BY <1>5, <3>1, <3>2, <3>3 DEF Kinds
  <2> HIDE DEF y
  <2>2. y.shares > 0 => y.posted > 0
    <3>1. CASE kind = "withdraw"
      BY <1>2, <1>3, <3>1, HealthyIsCovered
    <3>2. CASE kind # "withdraw"
      <4>1. y.posted \in Nat
        BY <1>2, StateFields
      <4> QED
        BY <1>1, <2>1, <3>2, <4>1 DEF Solid
    <3> QED
      BY <3>1, <3>2
  <2>3. Solid(y)
    BY <2>1, <2>2 DEF Solid
  <2> QED
    BY <1>2, <2>1, <2>3, WorthWanes DEF GoesOnAs, y
<1> QED
  BY <1>4, <1>5

LEMMA AccruedGoesOn ==
  ASSUME NEW x \in ChainStates, Solid(x)
  PROVE  /\ Solid(Accrued(x)) /\ Accrued(x).lltv = x.lltv
         /\ \A g \in Nat : Worth(Accrued(x), g) <=> Worth(x, g)
<1>1. x.totalAssets \in Nat /\ x.pending \in Nat
  BY StateFields
<1>2. /\ Accrued(x).totalAssets + Accrued(x).pending + 1 = x.totalAssets + x.pending + 1
      /\ Accrued(x).totalShares = x.totalShares
  BY <1>1, AccruedState
<1>3. \A g \in Nat : Worth(Accrued(x), g) <=> Worth(x, g)
  BY <1>2 DEF Worth
<1> QED
  BY <1>3, AccruedState DEF Solid

LEMMA DoneGoesOn ==
  ASSUME NEW x \in ChainStates, Solid(x), Interest \in Nat,
         NEW kind \in Kinds, NEW n \in Nat, Executes(kind, n, x)
  PROVE  GoesOnAs(x, Done(kind, n, x))
<1> DEFINE y == Done(kind, n, x)
           a == IF kind \in {"borrow", "withdraw"} THEN Accrued(x) ELSE x
<1>1. y = Moved(kind, n, a)
  BY DEF Done
<1>2. y \in ChainStates /\ (kind \in {"borrow", "withdraw"} => IsHealthy(y))
  BY DoneFollows DEF Executes
<1>3. a \in ChainStates /\ Solid(a) /\ a.lltv = x.lltv /\ \A g \in Nat : Worth(a, g) <=> Worth(x, g)
  BY AccruedState, AccruedGoesOn
<1> HIDE DEF a, y
<1>4. GoesOnAs(a, y)
  BY <1>1, <1>2, <1>3, MovedGoesOn
<1>5. \A g \in Nat : Interest + g \in Nat
  OBVIOUS
<1>6. GoesOnAs(x, y)
  BY <1>3, <1>4, <1>5 DEF GoesOnAs
<1> QED
  BY <1>6 DEF y

LEMMA MovesGoOn ==
  ASSUME PagesTypeOK, Solid(Current), ChainMoves
  PROVE  \E y \in ChainStates :
           states' = Append(states, y) /\ GoesOnAs(Current, y) /\ Now < scenario.states
<1> DEFINE x == Current
<1>1. x \in ChainStates
  BY DEF PagesTypeOK, Current, Now
<1> HIDE DEF x
<1>2. /\ x.shares \in Nat /\ x.totalAssets \in Nat /\ x.totalShares \in Nat /\ x.lltv \in Nat
      /\ x.pending \in Nat /\ x.locked \in Nat /\ x.acusdy \in Nat /\ x.posted \in Nat /\ Interest \in Nat
  BY <1>1, StateFields, ReadsAssumption
<1>3. Solid(x)
  BY DEF x
<1>4. CASE InterestGrows
  <2> DEFINE y == [x EXCEPT !.pending = @ + Interest]
  <2>1. states' = Append(states, y) /\ Now < scenario.states
    BY <1>4 DEF InterestGrows, Becomes, x
  <2>2. /\ y \in ChainStates /\ y.totalAssets = x.totalAssets /\ y.pending = x.pending + Interest
        /\ y.shares = x.shares /\ y.totalShares = x.totalShares
        /\ y.lltv = x.lltv /\ y.price = x.price /\ y.posted = x.posted
    BY <1>1, <1>2 DEF ChainStates
  <2> HIDE DEF y
  <2>3. Solid(y)
    BY <1>3, <2>2 DEF Solid
  <2>4. ASSUME NEW g \in Nat, Worth(x, Interest + g) PROVE Worth(y, g)
    <3>1. (y.totalAssets + y.pending + 1) + g = (x.totalAssets + x.pending + 1) + (Interest + g)
      BY <1>2, <2>2
    <3> QED
      BY <2>2, <2>4, <3>1 DEF Worth
  <2> QED
    BY <2>1, <2>2, <2>3, <2>4 DEF GoesOnAs, x
<1>5. ASSUME NEW y \in ChainStates, states' = Append(states, y), Now < scenario.states,
             y.totalAssets + y.pending = x.totalAssets + x.pending,
             y.totalShares = x.totalShares, y.shares = x.shares,
             y.lltv = x.lltv, y.posted = x.posted, y.price > 0
      PROVE  \E z \in ChainStates :
               states' = Append(states, z) /\ GoesOnAs(Current, z) /\ Now < scenario.states
  <2>1. Solid(y)
    BY <1>3, <1>5 DEF Solid
  <2>2. \A g \in Nat : Worth(x, Interest + g) => Worth(y, g)
    BY <1>1, <1>2, <1>5, WorthWanes
  <2> QED
    BY <1>5, <2>1, <2>2 DEF GoesOnAs, x
<1>6. CASE \E v \in Prices : PriceMoves(v)
  <2>1. PICK v \in Prices : PriceMoves(v)
    BY <1>6
  <2> DEFINE y == [x EXCEPT !.price = v]
  <2>2. v \in Nat /\ v > 0
    BY <2>1, ReadsAssumption
  <2>3. states' = Append(states, y) /\ Now < scenario.states
    BY <2>1 DEF PriceMoves, Becomes, x
  <2>4. /\ y \in ChainStates /\ y.totalAssets + y.pending = x.totalAssets + x.pending /\ y.totalShares = x.totalShares
        /\ y.shares = x.shares /\ y.lltv = x.lltv /\ y.posted = x.posted /\ y.price > 0
    BY <1>1, <2>2 DEF ChainStates
  <2> HIDE DEF y
  <2> QED
    BY <1>5, <2>3, <2>4
<1>7. CASE PriceAges
  <2> DEFINE y == [x EXCEPT !.stale = TRUE]
  <2>1. states' = Append(states, y) /\ Now < scenario.states
    BY <1>7 DEF PriceAges, Becomes, x
  <2>2. /\ y \in ChainStates /\ y.totalAssets + y.pending = x.totalAssets + x.pending /\ y.totalShares = x.totalShares
        /\ y.shares = x.shares /\ y.lltv = x.lltv /\ y.posted = x.posted /\ y.price = x.price
    BY <1>1 DEF ChainStates
  <2>3. y.price > 0
    BY <1>3, <2>2 DEF Solid
  <2> HIDE DEF y
  <2> QED
    BY <1>5, <2>1, <2>2, <2>3
<1>8. CASE Mint
  <2> DEFINE y == [x EXCEPT !.acusdy = x.locked - x.posted]
  <2>1. states' = Append(states, y) /\ Now < scenario.states
    BY <1>8 DEF Mint, Becomes, x
  <2>2. x.locked - x.posted \in Nat
    BY <1>2, <1>8 DEF Mint, x
  <2>3. /\ y \in ChainStates /\ y.totalAssets + y.pending = x.totalAssets + x.pending /\ y.totalShares = x.totalShares
        /\ y.shares = x.shares /\ y.lltv = x.lltv /\ y.posted = x.posted /\ y.price = x.price
    BY <1>1, <2>2 DEF ChainStates
  <2>4. y.price > 0
    BY <1>3, <2>3 DEF Solid
  <2> HIDE DEF y
  <2> QED
    BY <1>5, <2>1, <2>3, <2>4
<1>9. CASE OthersAccrue
  <2>1. states' = Append(states, Accrued(x)) /\ Now < scenario.states
    BY <1>9 DEF OthersAccrue, Becomes, x
  <2>2. /\ Accrued(x) \in ChainStates /\ Accrued(x).totalAssets = x.totalAssets + x.pending
        /\ Accrued(x).pending = 0 /\ Accrued(x).totalShares = x.totalShares
        /\ Accrued(x).shares = x.shares /\ Accrued(x).lltv = x.lltv
        /\ Accrued(x).posted = x.posted /\ Accrued(x).price = x.price
    BY <1>1, AccruedState
  <2>3. Accrued(x).price > 0 /\ Accrued(x).totalAssets + Accrued(x).pending = x.totalAssets + x.pending
    BY <1>2, <1>3, <2>2 DEF Solid
  <2> QED
    BY <1>5, <2>1, <2>2, <2>3
<1> QED
  BY <1>4, <1>6, <1>7, <1>8, <1>9 DEF ChainMoves

LEMMA StatesGoOn ==
  ASSUME PagesTypeOK, Solid(Current), [PageNext]_pageVars
  PROVE  \/ states' = states
         \/ \E y \in ChainStates :
              states' = Append(states, y) /\ GoesOnAs(Current, y) /\ Now < scenario.states
<1>1. CASE ChainMoves
  BY <1>1, MovesGoOn
<1>2. CASE MineFlow
  <2>1. Current \in ChainStates /\ flow.kind \in Kinds /\ flow.amount \in Nat /\ Interest \in Nat
    BY <1>2, ReadsAssumption DEF PagesTypeOK, Current, Now, MineFlow, Actions
  <2>2. CASE Executes(flow.kind, flow.amount, Current)
    <3> DEFINE y == Done(flow.kind, flow.amount, Current)
    <3>1. states' = Append(states, y) /\ Now < scenario.states
      BY <1>2, <2>2 DEF MineFlow, Becomes
    <3>2. GoesOnAs(Current, y)
      BY <2>1, <2>2, DoneGoesOn
    <3> QED
      BY <3>1, <3>2 DEF GoesOnAs
  <2> QED
    BY <1>2, <2>2 DEF MineFlow
<1>3. CASE ~ChainMoves /\ ~MineFlow
  <2>1. CASE \E k \in ReadKeys :
               Mount(k) \/ Poll(k) \/ Retry(k) \/ SideAnswers(k) \/ Arrive(k) \/ Break(k)
    BY <2>1 DEF Mount, Poll, Retry, SideAnswers, Arrive, Break
  <2>2. CASE Focus \/ ClickAction \/ Rejected \/ Invalidate \/ Succeed
    BY <2>2 DEF Focus, ClickAction, Rejected, Invalidate, Succeed
  <2>3. CASE \E kind \in Kinds : FillInput(kind)
    BY <2>3 DEF FillInput
  <2>4. CASE UseWallet \/ UNCHANGED pageVars
    BY <2>4 DEF UseWallet, pageVars, cacheVars
  <2> QED
    BY <1>3, <2>1, <2>2, <2>3, <2>4 DEF PageNext
<1> QED
  BY <1>1, <1>2, <1>3

(* How many states may follow, and what the debt may have grown by then.    *)
StatesLeft == IF scenario.states > Now THEN scenario.states - Now ELSE 0

MarketInv ==
  /\ Solid(Current)
  /\ Worth(Current, StatesLeft * Interest)
  /\ \A i \in 1..Now : states[i].lltv = Current.lltv

(* All that may be owed in state x, rounded down once.                      *)
Limit(x) == FloorDiv(x.posted * x.price * x.lltv, PriceScale * LltvScale)

(* A borrow of up-to-date reads asks for at most 99.5 % of the room there   *)
(* was in the state they are of.                                            *)
BorrowInv ==
  flow.stage = "sent" /\ flow.kind = "borrow" /\ flow.sure =>
    LET x == states[flow.asked]
    IN /\ flow.asked \in 1..Now
       /\ DebtAssets(x) \in Nat
       /\ 1000 * flow.amount <= 995 * (Limit(x) - DebtAssets(x))

LoanInv == PagesInv /\ MarketInv /\ BorrowInv

LEMMA ScenarioStays == ASSUME [PageNext]_pageVars PROVE scenario' = scenario
<1>1. CASE \E k \in ReadKeys :
             Mount(k) \/ Poll(k) \/ Retry(k) \/ SideAnswers(k) \/ Arrive(k) \/ Break(k)
  BY <1>1 DEF Mount, Poll, Retry, SideAnswers, Arrive, Break, others
<1>2. CASE Focus \/ ChainMoves \/ ClickAction \/ MineFlow \/ Rejected \/ Invalidate \/ Succeed
  BY <1>2 DEF Focus, ChainMoves, ClickAction, MineFlow, Rejected, Invalidate, Succeed, others
<1>3. CASE \E kind \in Kinds : FillInput(kind)
  BY <1>3 DEF FillInput, others
<1>4. CASE UseWallet \/ UNCHANGED pageVars
  BY <1>4 DEF UseWallet, pageVars, others
<1> QED
  BY <1>1, <1>2, <1>3, <1>4 DEF PageNext

LEMMA MarketInvNext ==
  ASSUME PagesTypeOK, MarketInv, [PageNext]_pageVars
  PROVE  MarketInv'
<1>1. scenario' = scenario /\ scenario.states \in Nat /\ Interest \in Nat
  BY ScenarioStays, MarketAssumption, ReadsAssumption DEF PagesTypeOK
<1>2. CASE states' = states
  BY <1>1, <1>2 DEF MarketInv, Current, Now, StatesLeft, Solid, Worth
<1>3. ASSUME NEW y \in ChainStates,
             states' = Append(states, y), GoesOnAs(Current, y), Now < scenario.states
      PROVE  MarketInv'
  <2>1. /\ Len(states) \in Nat /\ Len(states') = Len(states) + 1
        /\ states'[Len(states) + 1] = y
        /\ \A i \in 1..Len(states) : states'[i] = states[i]
    BY <1>3, AppendedStates DEF PagesTypeOK, Now
  <2>2. Now \in Nat /\ Now' = Now + 1 /\ Current' = y
    BY <2>1 DEF Now, Current
  <2>3. Solid(y) /\ y.lltv = Current.lltv
    BY <1>3 DEF GoesOnAs
  <2>4. Worth(y, StatesLeft' * Interest)
    <3>1. StatesLeft \in Nat /\ StatesLeft' \in Nat /\ StatesLeft = StatesLeft' + 1
      BY <1>1, <1>3, <2>2 DEF StatesLeft
    <3>2. \A a \in Nat : a * Interest \in Nat /\ (a + 1) * Interest = Interest + a * Interest
      BY <1>1
    <3>3. StatesLeft' * Interest \in Nat /\ StatesLeft * Interest = Interest + StatesLeft' * Interest
      BY <3>1, <3>2
    <3> QED
      BY <1>3, <3>3 DEF GoesOnAs, MarketInv
  <2>5. \A i \in 1..Now' : states'[i].lltv = y.lltv
    BY <2>1, <2>2, <2>3 DEF MarketInv, Now
  <2>6. Solid(Current')
    BY <2>2, <2>3
  <2>7. Worth(Current', StatesLeft' * Interest)
    BY <2>2, <2>4
  <2> QED
    BY <2>2, <2>5, <2>6, <2>7 DEF MarketInv, Solid, Worth
<1> QED
  BY <1>2, <1>3, StatesGoOn DEF MarketInv

LEMMA MarketInvInit == PageInit => MarketInv
<1> SUFFICES ASSUME PageInit PROVE MarketInv
  OBVIOUS
<1>1. PICK x \in scenario.openings : states = <<x>>
  BY DEF PageInit
<1>2. Now = 1 /\ Current = x /\ scenario \in Scenarios
  BY <1>1 DEF Now, Current, PageInit
<1>3. x \in ChainStates /\ Interest \in Nat /\ scenario.states \in Nat
  BY <1>2, ReadsAssumption, MarketAssumption
<1>4. Solid(x) /\ Worth(x, scenario.states * Interest)
  BY <1>2, MarketAssumption DEF Solid, Worth
<1>5. Worth(x, StatesLeft * Interest)
  <2>1. StatesLeft \in Nat /\ StatesLeft <= scenario.states
    BY <1>2, <1>3 DEF StatesLeft
  <2> DEFINE a == StatesLeft * Interest
             b == scenario.states * Interest
             u == (x.totalAssets + x.pending + 1) + a
             v == (x.totalAssets + x.pending + 1) + b
  <2>2. a <= b /\ a \in Nat /\ b \in Nat
    BY <1>3, <2>1, Larger
  <2>3. /\ x.totalAssets \in Nat /\ x.pending \in Nat /\ x.totalShares \in Nat
        /\ VirtualShares \in Nat
    BY <1>3, StateFields, Scales
  <2> HIDE DEF a, b
  <2>4. u \in Int /\ v \in Int /\ u <= v
    BY <2>2, <2>3
  <2>5. VirtualShares * v <= 2 * (x.totalShares + VirtualShares)
    BY <1>4 DEF Worth, b
  <2> HIDE DEF u, v
  <2>6. VirtualShares * u <= VirtualShares * v
    BY <2>3, <2>4, Larger
  <2>7. VirtualShares * u \in Int /\ VirtualShares * v \in Int
    BY <2>3, <2>4
  <2>8. VirtualShares * u <= 2 * (x.totalShares + VirtualShares)
    BY <2>3, <2>5, <2>6, <2>7
  <2> QED
    BY <2>8 DEF Worth, u, a
<1>6. \A i \in 1..Now : states[i].lltv = Current.lltv
  BY <1>1, <1>2
<1> QED
  BY <1>2, <1>4, <1>5, <1>6 DEF MarketInv

(* A transaction is sent by a click and mined by MineFlow; else the user's  *)
(* wish stays as it is.                                                     *)
LEMMA WishStays ==
  ASSUME PagesTypeOK, [PageNext]_pageVars
  PROVE  /\ flow'.stage = "sent" =>
              \/ ClickAction
              \/ /\ flow.stage = "sent"
                 /\ flow'.kind = flow.kind /\ flow'.amount = flow.amount
                 /\ flow'.asked = flow.asked /\ flow'.sure = flow.sure
         /\ flow.stage = "sent" /\ flow'.stage = "mined" => MineFlow
<1>1. flow \in Actions
  BY DEF PagesTypeOK
<1>2. CASE flow' = flow
  BY <1>2
<1>3. CASE \E k \in ReadKeys : flow' = [flow EXCEPT !.waits = @ \ {k}]
  BY <1>1, <1>3 DEF Actions
<1>4. CASE \E k \in ReadKeys :
             Mount(k) \/ Poll(k) \/ Retry(k) \/ SideAnswers(k) \/ Arrive(k) \/ Break(k)
  BY <1>2, <1>3, <1>4 DEF Mount, Poll, Retry, SideAnswers, Arrive, Break, Settle
<1>5. CASE Focus \/ ChainMoves
  BY <1>2, <1>5 DEF Focus, ChainMoves
<1>6. CASE \E kind \in Kinds : FillInput(kind)
  <2>1. flow'.stage = "filled"
    BY <1>6 DEF FillInput, NoFlow
  <2> QED
    BY <2>1
<1>7. CASE Rejected
  <2>1. flow'.stage = "filled"
    BY <1>7 DEF Rejected, NoFlow
  <2> QED
    BY <2>1
<1>8. CASE MineFlow
  <2>1. flow'.stage = "mined"
    BY <1>1, <1>8 DEF MineFlow, Actions
  <2> QED
    BY <1>8, <2>1
<1>9. CASE Invalidate
  <2>1. flow'.stage = "refreshing"
    BY <1>1, <1>9 DEF Invalidate, Actions
  <2> QED
    BY <2>1
<1>10. CASE Succeed
  <2>1. flow'.stage = "succeeded"
    BY <1>1, <1>10 DEF Succeed, Actions
  <2> QED
    BY <2>1
<1>11. CASE ClickAction
  <2>1. flow.stage = "filled"
    BY <1>11 DEF ClickAction
  <2> QED
    BY <1>11, <2>1
<1>12. CASE UseWallet \/ UNCHANGED pageVars
  BY <1>2, <1>12 DEF UseWallet, pageVars, cacheVars
<1> QED
  BY <1>4, <1>5, <1>6, <1>7, <1>8, <1>9, <1>10, <1>11, <1>12 DEF PageNext

(* What an up-to-date read shows.                                           *)
LEMMA ShownIsCurrent ==
  ASSUME PagesTypeOK, NEW ks \in SUBSET ReadKeys, UpToDate(ks), NEW k \in ks
  PROVE  Page[k].known /\ Page[k].x = Current
BY DEF UpToDate, Page, ReadResult, Current

LEMMA LimitIsAmount == ASSUME NEW x \in ChainStates PROVE Limit(x) \in Nat
<1>1. x.posted \in Nat /\ x.price \in Nat /\ x.lltv \in Nat
  BY StateFields
<1>2. x.posted * x.price \in Nat
  BY <1>1, Products
<1>3. x.posted * x.price * x.lltv \in Nat
  BY <1>1, <1>2, Products
<1> QED
  BY <1>3, Scales, Quotients DEF Limit, FloorDiv

LEMMA BorrowInvClick ==
  ASSUME PagesInv, ClickAction
  PROVE  BorrowInv'
<1> DEFINE ks == {"position", "debt", "market", "oracle"}
           x == Current
           n == flow.amount
<1>1. flow \in Actions /\ Now \in Nat /\ Now > 0 /\ x \in ChainStates /\ PagesTypeOK
  BY DEF PagesInv, PagesTypeOK, Now, Current
<1>2. flow' = [flow EXCEPT !.stage = "sent", !.asked = Now, !.sure = UpToDate(ks)]
  BY DEF ClickAction
<1>3. flow'.kind = flow.kind /\ flow'.amount = n /\ flow'.asked = Now /\ flow'.sure = UpToDate(ks)
  BY <1>1, <1>2 DEF Actions
<1>4. states' = states
  BY DEF ClickAction
<1> HIDE DEF x, n
<1> SUFFICES ASSUME flow.kind = "borrow", UpToDate(ks)
             PROVE  DebtAssets(x) \in Nat /\ 1000 * n <= 995 * (Limit(x) - DebtAssets(x))
  BY <1>1, <1>3, <1>4 DEF BorrowInv, Current, Now, x
<1> DEFINE room == RemainingCapacity(Page)
           d == DebtAssets(x)
<1>5. /\ SafeBorrowCapacity(Page) \notin {None, 0}
      /\ ~(n > SafeBorrowCapacity(Page))
  BY DEF ClickAction, Disabled, BorrowDisabled, n
<1>6. SafeBorrowCapacity(Page) = IF room = None THEN None ELSE (room * 995) \div 1000
  BY DEF SafeBorrowCapacity, FloorDiv
<1>7. \A k \in ks : Page[k].known /\ Page[k].x = x
  BY <1>1, ShownIsCurrent DEF x, ReadKeys
<1>8. room = IF d # None THEN AtLeastZero(Limit(x) - d) ELSE None
  BY <1>7 DEF RemainingCapacity, Computable, Limit
<1>9. d \in Nat \cup {None} /\ Limit(x) \in Nat /\ n \in Nat
  BY <1>1, DebtIsAmount, LimitIsAmount DEF Actions, n
<1> HIDE DEF room, d
<1>10. d \in Nat /\ room = AtLeastZero(Limit(x) - d)
  BY <1>5, <1>6, <1>8, <1>9
<1>11. room \in Nat
  BY <1>9, <1>10, Differences
<1>12. room # 0
  <2>1. (0 * 995) \div 1000 = 0
    OBVIOUS
  <2> QED
    BY <1>5, <1>6, <2>1
<1>13. room = Limit(x) - d
  BY <1>9, <1>10, <1>12 DEF AtLeastZero
<1>14. 1000 * n <= 995 * room
  <2>1. n <= (room * 995) \div 1000
    BY <1>5, <1>6, <1>9, <1>11 DEF None
  <2> QED
    BY <1>9, <1>11, <2>1
<1> QED
  BY <1>10, <1>13, <1>14 DEF d

LEMMA BorrowInvNext ==
  ASSUME LoanInv, [PageNext]_pageVars
  PROVE  BorrowInv'
<1>1. CASE ClickAction
  BY <1>1, BorrowInvClick DEF LoanInv
<1>2. CASE ~ClickAction
  <2> SUFFICES ASSUME flow'.stage = "sent", flow'.kind = "borrow", flow'.sure
               PROVE  /\ flow'.asked \in 1..Now'
                      /\ DebtAssets(states'[flow'.asked]) \in Nat
                      /\ 1000 * flow'.amount <= 995 * (Limit(states'[flow'.asked])
                                                         - DebtAssets(states'[flow'.asked]))
    BY DEF BorrowInv
  <2>1. PagesTypeOK /\ Solid(Current)
    BY DEF LoanInv, PagesInv, MarketInv
  <2>2. /\ flow.stage = "sent" /\ flow.kind = "borrow" /\ flow.sure
        /\ flow'.asked = flow.asked /\ flow'.amount = flow.amount
    BY <1>2, <2>1, WishStays
  <2>3. /\ flow.asked \in 1..Now
        /\ DebtAssets(states[flow.asked]) \in Nat
        /\ 1000 * flow.amount <= 995 * (Limit(states[flow.asked]) - DebtAssets(states[flow.asked]))
    BY <2>2 DEF LoanInv, BorrowInv
  <2>4. states'[flow.asked] = states[flow.asked] /\ flow.asked \in 1..Now'
    <3>1. CASE states' = states
      BY <2>3, <3>1 DEF Now
    <3>2. ASSUME NEW y \in ChainStates, states' = Append(states, y)
          PROVE  states'[flow.asked] = states[flow.asked] /\ flow.asked \in 1..Now'
      BY <2>1, <2>3, <3>2, AppendedStates DEF PagesTypeOK, Now
    <3> QED
      BY <2>1, <3>1, <3>2, StatesGoOn
  <2> QED
    BY <2>2, <2>3, <2>4
<1> QED
  BY <1>1, <1>2

LEMMA LoanAlways == PageSpec => []LoanInv
<1>1. PageInit => LoanInv
  <2>1. PageInit => BorrowInv
    BY DEF PageInit, BorrowInv, NoFlow
  <2> QED
    BY <2>1, PagesInvInit, MarketInvInit DEF LoanInv
<1>2. LoanInv /\ [PageNext]_pageVars => LoanInv'
  BY PagesInvNext, MarketInvNext, BorrowInvNext DEF LoanInv, PagesInv
<1> QED
  BY <1>1, <1>2, PTL DEF PageSpec

-----------------------------------------------------------------------------
(* The page's numbers against Morpho's.                                     *)

(* What Morpho would call owed if no interest were pending.                 *)
OwedAsRead(x) == CeilingDiv(x.shares * (x.totalAssets + 1), x.totalShares + VirtualShares)

LEMMA DebtIsClose ==
  ASSUME NEW x \in ChainStates, x.shares <= x.totalShares, NEW g \in Nat, Worth(x, g)
  PROVE  /\ DebtAssets(x) \in Nat /\ OwedAsRead(x) \in Nat
         /\ OwedAsRead(x) <= DebtAssets(x) + 2 /\ DebtAssets(x) <= OwedAsRead(x) + 1
<1> DEFINE s == x.shares
           A == x.totalAssets
           T == x.totalShares
           V == VirtualShares
           p == x.pending
<1>1. p \in Nat /\ s \in Nat /\ A \in Nat /\ T \in Nat /\ V \in Nat /\ V > 0 /\ s <= T
  BY StateFields, Scales
<1>2. V * ((A + p + 1) + g) <= 2 * (T + V)
  BY DEF Worth
<1>3. DebtAssets(x) = IF s = 0 THEN 0 ELSE IF T = 0 THEN None ELSE (s * A) \div T
  BY DEF DebtAssets, FloorDiv
<1>4. OwedAsRead(x) = (s * (A + 1) + (T + V) - 1) \div (T + V)
  BY DEF OwedAsRead, CeilingDiv
<1> DEFINE D == DebtAssets(x)
           O == OwedAsRead(x)
<1> HIDE DEF s, A, T, V, p, D, O
<1>5. s * (A + 1) \in Nat /\ s * A \in Nat /\ T + V \in Nat /\ T + V > 0
  BY <1>1
<1>6. O \in Nat /\ s * (A + 1) <= (T + V) * O /\ (T + V) * O < s * (A + 1) + (T + V)
  BY <1>4, <1>5, DivisionUp DEF O
<1>7. CASE s = 0
  <2>1. s * (A + 1) = 0
    BY <1>1, <1>7
  <2>2. (T + V) * O < T + V
    BY <1>5, <1>6, <2>1
  <2>3. (T + V) * 1 = T + V
    BY <1>5
  <2>4. O < 1
    BY <1>5, <1>6, <2>2, <2>3, Smaller
  <2> QED
    BY <1>3, <1>6, <1>7, <2>4 DEF D, O
<1>8. CASE s # 0
  <2>1. T > 0 /\ D = (s * A) \div T
    BY <1>1, <1>3, <1>8 DEF D
  <2>2. D \in Nat /\ T * D <= s * A /\ s * A < T * (D + 1)
    BY <1>1, <1>5, <2>1, Division
  <2>3. V * (A + 1) <= 2 * (T + V)
    <3>1. /\ V * ((A + p + 1) + g) = V * (A + 1) + V * (p + g)
          /\ V * (p + g) \in Nat /\ V * (A + 1) \in Nat
      BY <1>1
    <3> QED
      BY <1>1, <1>2, <3>1
  <2>4. O <= D + 2 /\ D <= O + 1
    BY <1>1, <1>6, <2>1, <2>2, <2>3, DebtRoundsUp
  <2> QED
    BY <1>6, <2>2, <2>4 DEF D, O
<1> QED
  BY <1>7, <1>8

LEMMA InterestAdds ==
  ASSUME NEW x \in ChainStates
  PROVE  /\ Owed(x) \in Nat /\ Unshown(x) \in Nat
         /\ OwedAsRead(x) <= Owed(x) /\ Owed(x) <= OwedAsRead(x) + Unshown(x)
<1> DEFINE a == x.shares * (x.totalAssets + 1)
           i == x.shares * x.pending
           b == x.totalShares + VirtualShares
           O == Owed(x)
           R == OwedAsRead(x)
           U == Unshown(x)
<1>1. /\ x.shares \in Nat /\ x.totalAssets \in Nat /\ x.pending \in Nat /\ x.totalShares \in Nat
      /\ VirtualShares \in Nat /\ VirtualShares > 0
  BY StateFields, Scales
<1>2. /\ a \in Nat /\ i \in Nat /\ b \in Nat /\ b > 0
      /\ x.shares * (x.totalAssets + x.pending + 1) = a + i
  BY <1>1
<1>3. O = (a + i + b - 1) \div b
  BY <1>2 DEF Owed, CeilingDiv
<1>4. R = (a + b - 1) \div b /\ U = (i + b - 1) \div b
  BY DEF OwedAsRead, Unshown, CeilingDiv
<1> HIDE DEF a, i, b, O, R, U
<1>5. /\ R \in Nat /\ a <= b * R /\ b * R < a + b
      /\ U \in Nat /\ i <= b * U
  BY <1>2, <1>4, DivisionUp
<1>6. O \in Nat /\ a + i <= b * O /\ b * O < a + i + b
  <2>1. a + i \in Nat
    BY <1>2
  <2> QED
    BY <1>2, <1>3, <2>1, DivisionUp
<1>7. R <= O
  <2>1. b * (O + 1) = b * O + b /\ b * O \in Nat /\ b * R \in Nat
    BY <1>2, <1>5, <1>6
  <2>2. b * R < b * (O + 1)
    BY <1>2, <1>5, <1>6, <2>1
  <2>3. R < O + 1
    BY <1>2, <1>5, <1>6, <2>2, Smaller
  <2> QED
    BY <1>5, <1>6, <2>3
<1>8. O <= R + U
  <2>1. /\ b * (R + U + 1) = b * R + b * U + b
        /\ b * R \in Nat /\ b * U \in Nat /\ b * O \in Nat
    BY <1>2, <1>5, <1>6
  <2>2. b * O < b * (R + U + 1)
    BY <1>2, <1>5, <1>6, <2>1
  <2>3. O < R + U + 1
    BY <1>2, <1>5, <1>6, <2>2, Smaller
  <2> QED
    BY <1>5, <1>6, <2>3
<1> QED
  BY <1>5, <1>6, <1>7, <1>8 DEF O, R, U

LEMMA LimitIsClose ==
  ASSUME NEW x \in ChainStates, x.lltv <= LltvScale
  PROVE  /\ MaxBorrow(x) \in Nat
         /\ PriceScale * LltvScale * MaxBorrow(x) <= x.posted * x.price * x.lltv
         /\ x.posted * x.price * x.lltv < PriceScale * LltvScale * (MaxBorrow(x) + 2)
<1> DEFINE X == x.posted * x.price
           L == x.lltv
           P == PriceScale
           S == LltvScale
           q == X \div P
           M == MaxBorrow(x)
<1>1. P \in Nat /\ P > 0 /\ S \in Nat /\ S > 0
  BY ViewsAssumption
<1>2. X \in Nat /\ L \in Nat /\ L <= S
  <2>1. x.posted \in Nat /\ x.price \in Nat /\ L \in Nat
    BY StateFields
  <2> QED
    BY <2>1, Products
<1>3. M = (q * L) \div S
  BY DEF MaxBorrow, FloorDiv
<1> HIDE DEF X, L, P, S, M
<1>4. q \in Nat /\ P * q <= X /\ X < P * (q + 1)
  BY <1>1, <1>2, Division
<1> HIDE DEF q
<1>5. q * L \in Nat
  BY <1>2, <1>4, Products
<1>6. M \in Nat /\ S * M <= q * L /\ q * L < S * (M + 1)
  BY <1>1, <1>3, <1>5, Division
<1>7. P * S * M <= X * L /\ X * L < P * S * (M + 2)
  BY <1>1, <1>2, <1>4, <1>6, LimitRoundsDown
<1> QED
  BY <1>6, <1>7 DEF X, L, P, S, M

(* What the limit, rounded once, is more than what Morpho finds.            *)
LEMMA LimitIsWithinOne ==
  ASSUME NEW x \in ChainStates, x.lltv <= LltvScale
  PROVE  Limit(x) \in Nat /\ Limit(x) <= MaxBorrow(x) + 1
<1> DEFINE Y == x.posted * x.price * x.lltv
           K == PriceScale * LltvScale
           M == MaxBorrow(x)
           F == Limit(x)
<1>1. M \in Nat /\ Y < K * (M + 2)
  BY LimitIsClose
<1>2. K \in Nat /\ K > 0
  BY Scales
<1>3. Y \in Nat
  <2>1. x.posted \in Nat /\ x.price \in Nat /\ x.lltv \in Nat
    BY StateFields
  <2>2. x.posted * x.price \in Nat
    BY <2>1, Products
  <2> QED
    BY <2>1, <2>2, Products
<1>4. F = Y \div K
  BY DEF Limit, FloorDiv
<1> HIDE DEF Y, K, M, F
<1>5. F \in Nat /\ K * F <= Y
  BY <1>2, <1>3, <1>4, Division
<1>6. K * F < K * (M + 2)
  <2>1. K * F \in Int /\ K * (M + 2) \in Int
    BY <1>1, <1>2, <1>5
  <2> QED
    BY <1>1, <1>3, <1>5, <2>1
<1>7. F < M + 2
  BY <1>1, <1>2, <1>5, <1>6, Smaller
<1> QED
  BY <1>1, <1>5, <1>7 DEF M, F

LEMMA HealthFollows == LoanInv => ShownHealthIsTrue
<1> DEFINE ks == {"position", "debt", "market", "oracle"}
           x == Current
<1> SUFFICES ASSUME LoanInv, UpToDate(ks)
             PROVE  IF RiskLevel(Page) = "danger" THEN Owed(x) + 3 >= MaxBorrow(x)
                    ELSE Owed(x) <= MaxBorrow(x) + Unshown(x) + 3
  BY DEF ShownHealthIsTrue
<1>1. x \in ChainStates /\ PagesTypeOK
  BY DEF LoanInv, PagesInv, PagesTypeOK, Current, Now
<1>2. Solid(x) /\ \E g \in Nat : Worth(x, g)
  <2>1. scenario.states \in Nat /\ Now \in Nat /\ Interest \in Nat
    BY <1>1, MarketAssumption, ReadsAssumption DEF PagesTypeOK, Now
  <2>2. StatesLeft \in Nat
    BY <2>1 DEF StatesLeft
  <2>3. StatesLeft * Interest \in Nat
    BY <2>1, <2>2, Products
  <2> QED
    BY <2>3 DEF LoanInv, MarketInv
<1>3. \A k \in ks : Page[k].known /\ Page[k].x = x
  BY <1>1, ShownIsCurrent DEF ReadKeys
<1> HIDE DEF x
<1>4. x.lltv <= LltvScale /\ x.price > 0 /\ x.shares <= x.totalShares /\ (x.shares > 0 => x.posted > 0)
  BY <1>2 DEF Solid
<1> DEFINE D == DebtAssets(x)
           O == Owed(x)
           R == OwedAsRead(x)
           U == Unshown(x)
           M == MaxBorrow(x)
           X == x.posted * x.price
           L == x.lltv
           K == PriceScale * LltvScale
<1>5. /\ D \in Nat /\ R \in Nat /\ R <= D + 2 /\ D <= R + 1
      /\ O \in Nat /\ U \in Nat /\ R <= O /\ O <= R + U
  BY <1>1, <1>2, <1>4, DebtIsClose, InterestAdds
<1>6. M \in Nat /\ K * M <= X * L /\ X * L < K * (M + 2)
  BY <1>1, <1>4, LimitIsClose
<1>7. /\ x.posted \in Nat /\ x.price \in Nat /\ x.shares \in Nat /\ L \in Nat
      /\ PriceScale \in Nat /\ LltvScale \in Nat /\ K \in Nat /\ K > 0
  BY <1>1, StateFields, Scales
<1>8. X \in Nat
  BY <1>7, Products
<1>9. RiskLevel(Page) = "danger" <=> LtvReaches(Page, 10)
  <2>1. HealthKnown(Page)
    BY <1>3 DEF HealthKnown
  <2> QED
    BY <2>1 DEF RiskLevel
<1>10. LtvReaches(Page, 10) <=>
         IF X > 0 THEN D * PriceScale * LltvScale * 10 >= X * L * 10 ELSE L = 0
  <2>1. Lltv(Page) = L
    BY <1>3 DEF Lltv
  <2> QED
    BY <1>3, <2>1 DEF LtvReaches
<1>11. CASE X > 0
  <2> HIDE DEF X, L, M
  <2>1. D * PriceScale * LltvScale = K * D
    <3> HIDE DEF D
    <3> QED
      BY <1>5, <1>7
  <2> HIDE DEF D, O, R, U
  <2>2. K * D \in Int /\ X * L \in Int /\ K * M \in Int
    <3> HIDE DEF K
    <3> QED
      BY <1>5, <1>6, <1>7, <1>8
  <2>3. LtvReaches(Page, 10) <=> K * D >= X * L
    <3>1. LtvReaches(Page, 10) <=> (K * D) * 10 >= (X * L) * 10
      BY <1>10, <1>11, <2>1
    <3> DEFINE a == K * D
               b == X * L
    <3> HIDE DEF a, b
    <3>2. a \in Int /\ b \in Int
      BY <2>2 DEF a, b
    <3>3. a * 10 >= b * 10 <=> a >= b
      BY <3>2
    <3> QED
      BY <3>1, <3>3 DEF a, b
  <2> HIDE DEF K
  <2>4. CASE LtvReaches(Page, 10)
    <3>1. K * M <= K * D
      BY <1>6, <2>2, <2>3, <2>4
    <3>2. M <= D
      BY <1>5, <1>6, <1>7, <3>1, Smaller
    <3>3. O + 3 >= M
      BY <1>5, <1>6, <3>2
    <3> QED
      BY <1>9, <2>4, <3>3 DEF O, M
  <2>5. CASE ~LtvReaches(Page, 10)
    <3>1. K * D < K * (M + 2)
      <4>1. K * (M + 2) \in Int
        BY <1>6, <1>7
      <4> QED
        BY <1>6, <2>2, <2>3, <2>5, <4>1
    <3>2. D < M + 2
      BY <1>5, <1>6, <1>7, <3>1, Smaller
    <3>3. O <= M + U + 3
      BY <1>5, <1>6, <3>2
    <3> QED
      BY <1>9, <2>5, <3>3 DEF O, M, U
  <2> QED
    BY <2>4, <2>5
<1>12. CASE X = 0
  <2>1. x.posted = 0
    <3>1. x.posted > 0 => x.posted * x.price > 0
      BY <1>4, <1>7
    <3> QED
      BY <1>7, <1>12, <3>1
  <2>2. D = 0
    BY <1>4, <1>7, <2>1 DEF DebtAssets
  <2> HIDE DEF X, L, K, D, M, O, R, U
  <2>3. M = 0
    <3>1. X * L = 0
      BY <1>7, <1>12
    <3>2. K * M <= 0
      BY <1>6, <3>1
    <3>3. K * 0 = 0
      BY <1>7
    <3>4. M <= 0
      BY <1>6, <1>7, <3>2, <3>3, Smaller
    <3> QED
      BY <1>6, <3>4
  <2>4. O + 3 >= M /\ O <= M + U + 3
    BY <1>5, <2>2, <2>3
  <2> QED
    BY <2>4 DEF O, M, U
<1> QED
  BY <1>8, <1>11, <1>12

(* What Morpho finds after a borrow of n.                                   *)
LEMMA OwedOnceAccrued ==
  ASSUME NEW x \in ChainStates, NEW g \in Nat, Worth(x, g), x.pending = 0, NEW n \in Nat
  PROVE  LET y == Moved("borrow", n, x)
         IN Owed(y) <= Owed(x) + n + 2 /\ MaxBorrow(y) = MaxBorrow(x) /\ Owed(y) \in Nat
<1> DEFINE y == Moved("borrow", n, x)
           s == x.shares
           A == x.totalAssets + 1
           B == x.totalShares + VirtualShares
           d == CeilingDiv(n * B, A)
<1>1. /\ A \in Nat /\ A > 0 /\ B \in Nat /\ B > 0 /\ d \in Nat
      /\ n * B <= A * d /\ A * d < n * B + A
  BY SharesOf
<1>2. y = [x EXCEPT !.shares = @ + d, !.totalShares = @ + d, !.totalAssets = @ + n,
                    !.liquidity = @ - n]
  BY DEF Moved
<1> HIDE DEF d, y
<1>3. /\ y.shares = x.shares + d /\ y.totalShares = x.totalShares + d
      /\ y.totalAssets = x.totalAssets + n /\ y.pending = x.pending
      /\ y.posted = x.posted /\ y.price = x.price /\ y.lltv = x.lltv
  BY <1>2 DEF ChainStates
<1>4. s \in Nat /\ x.totalAssets \in Nat /\ x.totalShares \in Nat /\ VirtualShares \in Nat /\ VirtualShares > 0
  BY StateFields, Scales
<1>5. A <= 2 * B
  <2>1. VirtualShares * (A + g) <= 2 * B
    <3>1. x.totalAssets + x.pending + 1 = A
      BY <1>4
    <3> QED
      BY <3>1 DEF Worth
  <2> HIDE DEF A, B
  <2>2. 1 * (A + g) <= VirtualShares * (A + g)
    BY <1>1, <1>4, Larger
  <2>3. 1 * (A + g) = A + g /\ VirtualShares * (A + g) \in Int
    BY <1>1, <1>4
  <2> QED
    BY <1>1, <2>1, <2>2, <2>3
<1>6. y.shares = s + d /\ y.totalAssets + y.pending + 1 = A + n /\ y.totalShares + VirtualShares = B + d
  BY <1>1, <1>3, <1>4
<1>7. Owed(x) = (s * A + B - 1) \div B
  <2>1. x.totalAssets + x.pending + 1 = A
    BY <1>4
  <2> QED
    BY <2>1 DEF Owed, CeilingDiv
<1>8. Owed(y) = ((s + d) * (A + n) + (B + d) - 1) \div (B + d)
  BY <1>6 DEF Owed, CeilingDiv
<1> DEFINE O == Owed(x)
           Q == Owed(y)
<1> HIDE DEF s, A, B, O, Q
<1>9. O \in Nat /\ s * A <= B * O
  <2>1. s * A \in Nat
    BY <1>1, <1>4, Products
  <2> QED
    BY <1>1, <1>7, <2>1, DivisionUp DEF O
<1>10. Q \in Nat /\ (B + d) * Q < (s + d) * (A + n) + (B + d)
  <2>1. s + d \in Nat /\ A + n \in Nat /\ B + d \in Nat /\ B + d > 0
    BY <1>1, <1>4
  <2>2. (s + d) * (A + n) \in Nat
    BY <2>1, Products
  <2> QED
    BY <1>8, <2>1, <2>2, DivisionUp DEF Q
<1>11. Q <= O + n + 2
  BY <1>1, <1>4, <1>5, <1>9, <1>10, BorrowAdds
<1>12. MaxBorrow(y) = MaxBorrow(x)
  BY <1>3 DEF MaxBorrow
<1> QED
  BY <1>10, <1>11, <1>12 DEF O, Q, y

LEMMA OwedAfterBorrow ==
  ASSUME NEW x \in ChainStates, NEW g \in Nat, Worth(x, g), NEW n \in Nat
  PROVE  LET y == Done("borrow", n, x)
         IN Owed(y) <= Owed(x) + n + 2 /\ MaxBorrow(y) = MaxBorrow(x) /\ Owed(y) \in Nat
<1> DEFINE a == Accrued(x)
<1>1. Done("borrow", n, x) = Moved("borrow", n, a)
  BY DEF Done
<1>2. x.totalAssets \in Nat /\ x.pending \in Nat
  BY StateFields
<1>3. /\ a \in ChainStates /\ a.pending = 0 /\ a.shares = x.shares
      /\ a.totalShares = x.totalShares
      /\ a.totalAssets + a.pending + 1 = x.totalAssets + x.pending + 1
      /\ a.posted = x.posted /\ a.price = x.price /\ a.lltv = x.lltv
  BY <1>2, AccruedState
<1> HIDE DEF a
<1>4. Owed(a) = Owed(x) /\ MaxBorrow(a) = MaxBorrow(x) /\ Worth(a, g)
  BY <1>3 DEF Owed, MaxBorrow, Worth
<1>5. LET y == Moved("borrow", n, a)
      IN Owed(y) <= Owed(a) + n + 2 /\ MaxBorrow(y) = MaxBorrow(a) /\ Owed(y) \in Nat
  BY <1>3, <1>4, OwedOnceAccrued
<1> QED
  BY <1>1, <1>4, <1>5

LEMMA BufferFollows ==
  ASSUME LoanInv, [PageNext]_pageVars,
         flow.stage = "sent", flow'.stage = "mined", flow.kind = "borrow", flow.sure,
         NEW x, x = states[flow.asked],
         Current.price = x.price, ~Current.stale, Current.posted = x.posted,
         Current.liquidity >= flow.amount,
         1000 * ((Owed(Current) - DebtAssets(x)) + 3) <= 5 * (Limit(x) - DebtAssets(x))
  PROVE  states' # states
<1> DEFINE c == Current
           n == flow.amount
           y == Done("borrow", n, c)
<1>1. MineFlow
  BY WishStays DEF LoanInv, PagesInv
<1>2. /\ c \in ChainStates /\ n \in Nat /\ states \in Seq(ChainStates)
      /\ Now = Len(states) /\ Now \in Nat
      /\ \A i \in 1..Now : states[i] \in ChainStates
  BY DEF LoanInv, PagesInv, PagesTypeOK, Actions, Current, Now
<1>3. /\ x \in ChainStates /\ x.lltv = c.lltv
      /\ DebtAssets(x) \in Nat
      /\ 1000 * n <= 995 * (Limit(x) - DebtAssets(x))
  BY <1>2 DEF LoanInv, MarketInv, BorrowInv
<1>4. Solid(c) /\ \E g \in Nat : Worth(c, g)
  <2>1. scenario.states \in Nat /\ Interest \in Nat
    BY MarketAssumption, ReadsAssumption DEF LoanInv, PagesInv, PagesTypeOK
  <2>2. StatesLeft \in Nat
    BY <1>2, <2>1 DEF StatesLeft
  <2>3. StatesLeft * Interest \in Nat
    BY <2>1, <2>2, Products
  <2> QED
    BY <2>3 DEF LoanInv, MarketInv
<1>5. Owed(y) <= Owed(c) + n + 2 /\ MaxBorrow(y) = MaxBorrow(c) /\ Owed(y) \in Nat
  <2>1. PICK g \in Nat : Worth(c, g)
    BY <1>4
  <2>2. c \in ChainStates /\ n \in Nat
    BY <1>2
  <2> HIDE DEF c, n
  <2>3. LET z == Done("borrow", n, c)
        IN Owed(z) <= Owed(c) + n + 2 /\ MaxBorrow(z) = MaxBorrow(c) /\ Owed(z) \in Nat
    BY <2>1, <2>2, OwedAfterBorrow
  <2> QED
    BY <2>3
<1>6. Owed(c) \in Nat
  BY <1>2, InterestAdds
<1>7. Limit(x) \in Nat /\ Limit(x) <= MaxBorrow(c) + 1 /\ MaxBorrow(c) \in Nat
  <2>1. Limit(x) = Limit(c)
    BY <1>3 DEF Limit
  <2> QED
    BY <1>2, <1>4, <2>1, LimitIsWithinOne, LimitIsClose DEF Solid
<1>8. Owed(y) <= MaxBorrow(y)
  <2> DEFINE O == Owed(c)
             Q == Owed(y)
             M == MaxBorrow(c)
             F == Limit(x)
             D == DebtAssets(x)
  <2>1. /\ 1000 * ((O - D) + 3) <= 5 * (F - D) /\ 1000 * n <= 995 * (F - D)
        /\ Q <= O + n + 2 /\ F <= M + 1
    BY <1>3, <1>5, <1>7
  <2>2. n \in Nat /\ D \in Nat /\ Q \in Nat /\ O \in Nat /\ F \in Nat /\ M \in Nat
    BY <1>2, <1>3, <1>5, <1>6, <1>7
  <2> HIDE DEF O, Q, M, F, D, n
  <2>3. Q <= M
    BY <2>1, <2>2
  <2> QED
    BY <1>5, <2>3 DEF Q, M
<1>9. Executes("borrow", n, c)
  <2>1. /\ c.posted \in Nat /\ c.acusdy \in Nat /\ c.usdy \in Nat
        /\ c.liquidity \in Nat /\ c.stale = FALSE
    BY <1>2, StateFields
  <2>2. /\ y.posted = c.posted /\ y.acusdy = c.acusdy /\ y.usdy = c.usdy
        /\ y.liquidity = c.liquidity - n /\ y.stale = c.stale
    <3> DEFINE a == Accrued(c)
               d == CeilingDiv(n * (a.totalShares + VirtualShares), a.totalAssets + 1)
    <3>1. y = [a EXCEPT !.shares = @ + d, !.totalShares = @ + d, !.totalAssets = @ + n,
                        !.liquidity = @ - n]
      BY DEF Done, Moved
    <3>2. /\ a \in ChainStates /\ a.posted = c.posted /\ a.acusdy = c.acusdy
          /\ a.usdy = c.usdy /\ a.liquidity = c.liquidity /\ a.stale = c.stale
      BY <1>2, AccruedState
    <3> HIDE DEF d, y, c, n, a
    <3> QED
      BY <3>1, <3>2 DEF ChainStates
  <2>3. IsHealthy(y)
    <3> HIDE DEF y, c, n
    <3> QED
      BY <1>8, <2>1, <2>2 DEF IsHealthy
  <2>4. c.liquidity - n >= 0
    BY <1>2, <2>1
  <2> QED
    BY <2>1, <2>2, <2>3, <2>4 DEF Executes
<1>10. states' = Append(states, y)
  BY <1>1, <1>9 DEF MineFlow, Becomes
<1>11. Len(Append(states, y)) = Len(states) + 1
  <2> HIDE DEF y
  <2> QED
    BY <1>2
<1> QED
  BY <1>2, <1>10, <1>11

(* With up-to-date reads the risk shown agrees with what Morpho would find, *)
(* up to three units of rounding and the interest since the market's        *)
(* lastUpdate, for every price, LLTV and debt (useLoanHealth.ts).           *)
THEOREM HealthIsTrue == PageSpec => []ShownHealthIsTrue
<1>1. PageSpec => []LoanInv
  BY LoanAlways
<1> QED
  BY <1>1, HealthFollows, PTL

(* A MAX borrow of up-to-date reads executes while the debt grows by less   *)
(* than what was kept back (app/borrow/page.tsx, safeBorrowCapacity).       *)
THEOREM BorrowsFit == PageSpec => BorrowBufferCovers
<1> DEFINE Covered ==
             LET x == states[flow.asked]
                 room == FloorDiv(x.posted * x.price * x.lltv, PriceScale * LltvScale) - DebtAssets(x)
                 growth == Owed(Current) - DebtAssets(x)
             IN /\ flow.stage = "sent" /\ flow'.stage = "mined"
                /\ flow.kind = "borrow" /\ flow.sure
                /\ Current.price = x.price /\ ~Current.stale /\ Current.posted = x.posted
                /\ Current.liquidity >= flow.amount
                /\ 1000 * (growth + 3) <= 5 * room
                => states' # states
<1>1. LoanInv /\ [PageNext]_pageVars => [Covered]_pageVars
  <2> SUFFICES ASSUME LoanInv, [PageNext]_pageVars PROVE Covered
    OBVIOUS
  <2> QED
    BY BufferFollows DEF Limit
<1>2. PageSpec => []LoanInv
  BY LoanAlways
<1>3. PageSpec => [][Covered]_pageVars
  BY <1>1, <1>2, PTL DEF PageSpec
<1> QED
  BY <1>3 DEF BorrowBufferCovers

-----------------------------------------------------------------------------
(* BorrowerScan: the stored list of borrowers is complete. *)

Events == [who: Borrowers, block: Nat]

(* entries answers for the locks of the blocks low..to. *)
Covers(events, kind, entries, low, to) ==
  \A i \in DOMAIN events :
    low <= events[i].block /\ events[i].block <= to =>
      /\ events[i].who \in DOMAIN entries
      /\ kind = "queue" => entries[events[i].who] >= i

(* Where a list begins whose scan found the chain at block `at'.  The first *)
(* scan behind it began Lookback blocks below a block that the chain had    *)
(* reached, and that is at most Lag above `at'.                             *)
Base(top, at) == IF top <= at + Lag THEN top - Lookback ELSE at + Lag - Lookback

LocksAreOrdered ==
  /\ height \in Nat
  /\ locks \in Seq(Events)
  /\ \A i \in DOMAIN locks : locks[i].block <= height
  /\ \A i, j \in DOMAIN locks : i < j => locks[i].block <= locks[j].block

StoreInv ==
  /\ \E S : store \in [entries: S, last: Int, stale: BOOLEAN]
  /\ -1 <= store.last /\ store.last <= height
  /\ Covers(locks, rules, store.entries, Base(height, store.last), store.last)

FetchInv(f) ==
  fetch[f].scanning =>
    /\ 0 <= fetch[f].current /\ fetch[f].current <= height
    /\ 0 <= fetch[f].next /\ fetch[f].next <= height + 1
    /\ Covers(locks, rules, fetch[f].found, Base(height, fetch[f].current), fetch[f].next - 1)

FetchOf(S) == [scanning: BOOLEAN, cached: S, found: S, next: Int, current: Int]

ScanInv ==
  /\ rules \in {"queue", "radar"}
  /\ LocksAreOrdered
  /\ StoreInv
  /\ \E S : fetch \in [Fetches -> FetchOf(S)]
  /\ \A f \in Fetches : FetchInv(f)

LEMMA ScanParameters == Lookback \in Nat /\ Lag \in Nat /\ Chunk \in Nat /\ Chunk > 0
BY ScanAssumption

LEMMA BlockType ==
  ASSUME NEW L \in Seq(Events), NEW i \in DOMAIN L
  PROVE  L[i].who \in Borrowers /\ L[i].block \in Nat
<1>1. L[i] \in Events
  OBVIOUS
<1> QED
  BY <1>1 DEF Events

LEMMA ScanInvShown == ScanInv => StoredIsComplete
<1> SUFFICES ASSUME ScanInv PROVE StoredIsComplete
  OBVIOUS
<1> USE ScanParameters
<1>1. /\ height \in Nat /\ store.last \in Int
      /\ locks \in Seq(Events)
      /\ Covers(locks, rules, store.entries, Base(height, store.last), store.last)
  BY DEF ScanInv, StoreInv, LocksAreOrdered
<1>2. Base(height, store.last) <= store.last - Lookback + Lag
  BY <1>1 DEF Base
<1>3. Base(height, store.last) \in Int
  BY <1>1 DEF Base
<1>4. \A i \in DOMAIN locks : locks[i].block \in Nat
  BY <1>1, BlockType
<1> QED
  BY <1>1, <1>2, <1>3, <1>4 DEF StoredIsComplete, Covers, Known

LEMMA NothingToCover ==
  ASSUME NEW L \in Seq(Events), NEW q, NEW e, NEW low \in Int,
         NEW to \in Int, to < low \/ to < 0
  PROVE  Covers(L, q, e, low, to)
<1>1. \A i \in DOMAIN L : L[i].block \in Nat
  BY BlockType
<1> QED
  BY <1>1 DEF Covers

LEMMA CoversLess ==
  ASSUME NEW L \in Seq(Events), NEW q, NEW e,
         NEW low \in Int, NEW to \in Int, NEW low2 \in Int, NEW to2 \in Int,
         low <= low2, to2 <= to, Covers(L, q, e, low, to)
  PROVE  Covers(L, q, e, low2, to2)
<1>1. \A i \in DOMAIN L : L[i].block \in Nat
  BY BlockType
<1> QED
  BY <1>1 DEF Covers

LEMMA ScanInvInit == ScanInit => ScanInv
<1> SUFFICES ASSUME ScanInit PROVE ScanInv
  OBVIOUS
<1> USE ScanParameters
<1>1. LocksAreOrdered
  BY DEF ScanInit, LocksAreOrdered
<1>2. StoreInv
  <2>1. store = [entries |-> NoEntries, last |-> -1, stale |-> TRUE]
    BY DEF ScanInit, Empty, NoBlock
  <2>2. store \in [entries: {NoEntries}, last: Int, stale: BOOLEAN]
    BY <2>1
  <2>3. DOMAIN locks = {}
    BY DEF ScanInit
  <2>4. Covers(locks, rules, store.entries, Base(height, store.last), store.last)
    BY <2>3 DEF Covers
  <2>5. -1 <= store.last /\ store.last <= height
    BY <1>1, <2>1 DEF LocksAreOrdered
  <2> QED
    BY <2>2, <2>4, <2>5 DEF StoreInv
<1>3. fetch \in [Fetches -> FetchOf({NoEntries})]
  BY DEF ScanInit, Idle, FetchOf
<1>4. \A f \in Fetches : FetchInv(f)
  BY DEF ScanInit, Idle, FetchInv
<1> QED
  BY <1>1, <1>2, <1>3, <1>4 DEF ScanInv, ScanInit

-----------------------------------------------------------------------------
(* The greatest of some of the indices of a sequence. *)
LEMMA GreatestIndex ==
  ASSUME NEW n \in Nat, NEW S, S # {}, S \subseteq 1..n
  PROVE  Max(S) \in S /\ \A x \in S : Max(S) >= x
<1> DEFINE Left == {k \in Nat : \E x \in S : k = n - x}
<1>1. Left \subseteq Nat /\ Left # {}
  <2>1. PICK x \in S : x \in 1..n
    OBVIOUS
  <2>2. n - x \in Nat
    BY <2>1
  <2> QED
    BY <2>1, <2>2
<1>2. PICK k \in Left : \A j \in Left : k <= j
  <2>1. IsWellFoundedOn({ss \in Nat \X Nat : ss[1] < ss[2]}, Nat)
    BY NatLessThanWellFounded, Zenon DEF OpToRel
  <2> HIDE DEF Left
  <2>2. PICK k \in Left : \A j \in Left : <<j, k>> \notin {ss \in Nat \X Nat : ss[1] < ss[2]}
    BY <1>1, <2>1, WFMin
  <2>3. ASSUME NEW j \in Left PROVE k <= j
    <3>1. j \in Nat /\ k \in Nat
      BY <1>1, <2>2
    <3>2. <<j, k>> \in Nat \X Nat /\ <<j, k>>[1] = j /\ <<j, k>>[2] = k
      BY <3>1
    <3>3. ~(j < k)
      BY <2>2, <3>2
    <3> QED
      BY <3>1, <3>3
  <2> QED
    BY <2>2, <2>3
<1>3. PICK m \in S : k = n - m
  BY <1>2
<1>4. \A x \in S : m >= x
  <2> SUFFICES ASSUME NEW x \in S PROVE m >= x
    OBVIOUS
  <2>1. x \in 1..n /\ m \in 1..n
    OBVIOUS
  <2>2. n - x \in Left
    BY <2>1
  <2> QED
    BY <1>2, <1>3, <2>1, <2>2
<1> QED
  BY <1>4 DEF Max

(* A finite set as a sequence. *)
LEMMA SeqOfSet ==
  ASSUME NEW S, IsFiniteSet(S)
  PROVE  SetToSeq(S) \in Seq(S)
<1>1. Cardinality(S) \in Nat
  BY FS_CardinalityType
<1>2. ExistsBijection(1..Cardinality(S), S)
  <2>1. IsFiniteSet(1..Cardinality(S)) /\ Cardinality(1..Cardinality(S)) = Cardinality(S)
    BY <1>1, FS_Interval
  <2> QED
    BY <2>1, FS_SameCardinalityBij
<1>3. \E f \in [1..Cardinality(S) -> S] : \A a, b \in DOMAIN f : f[a] = f[b] => a = b
  BY <1>2 DEF ExistsBijection, Bijection, Injection, IsInjective
<1>4. SetToSeq(S) \in [1..Cardinality(S) -> S]
  BY <1>3 DEF SetToSeq, IsInjective
<1> QED
  BY <1>1, <1>4, SeqDef

-----------------------------------------------------------------------------
(* Blocks arrive. *)

LEMMA CoversMore ==
  ASSUME NEW L \in Seq(Events), NEW M \in Seq(Events), NEW q, NEW e,
         NEW low \in Int, NEW to \in Int, Covers(L, q, e, low, to),
         \A i \in DOMAIN M : M[i].block <= to => i \in DOMAIN L /\ M[i] = L[i]
  PROVE  Covers(M, q, e, low, to)
BY DEF Covers

LEMMA LocksGrow ==
  ASSUME LocksAreOrdered, NEW who \in SUBSET Borrowers, NewBlock(who)
  PROVE  /\ LocksAreOrdered'
         /\ \A i \in DOMAIN locks' : locks'[i].block <= height =>
              i \in DOMAIN locks /\ locks'[i] = locks[i]
<1> DEFINE S == {[who |-> b, block |-> height + 1] : b \in who}
           more == SetToSeq(S)
           n == Len(locks)
<1>1. height \in Nat /\ height' = height + 1 /\ locks \in Seq(Events) /\ n \in Nat
  BY DEF LocksAreOrdered, NewBlock
<1>2. more \in Seq(S)
  <2>1. IsFiniteSet(who)
    BY ScanAssumption, FS_Subset
  <2> DEFINE event == [b \in who |-> [who |-> b, block |-> height + 1]]
  <2>2. event \in [who -> S] /\ \A e \in S : \E b \in who : event[b] = e
    OBVIOUS
  <2>3. event \in Surjection(who, S)
    BY <2>2, Zenon DEF Surjection
  <2>4. IsFiniteSet(S)
    <3> HIDE DEF event, S
    <3> QED
      BY <2>1, <2>3, FS_Surjection
  <2> HIDE DEF S
  <2> QED
    BY <2>4, SeqOfSet
<1>3. S \subseteq Events /\ \A e \in S : e.block = height + 1
  BY <1>1 DEF Events
<1>4. more \in Seq(Events) /\ \A j \in DOMAIN more : more[j] \in S
  <2> HIDE DEF S, more
  <2> QED
    BY <1>2, <1>3
<1>5. locks' = locks \o more
  BY DEF NewBlock
<1> HIDE DEF S, more
<1>6. /\ locks' \in Seq(Events) /\ Len(locks') = n + Len(more) /\ Len(more) \in Nat
      /\ DOMAIN locks' = 1..(n + Len(more)) /\ DOMAIN locks = 1..n
      /\ DOMAIN more = 1..Len(more)
      /\ \A i \in 1..n : locks'[i] = locks[i]
      /\ \A i \in 1..(n + Len(more)) : i > n => i - n \in 1..Len(more) /\ locks'[i] = more[i - n]
  BY <1>1, <1>4, <1>5
<1>7. \A i \in DOMAIN locks : locks[i].block \in Nat /\ locks[i].block <= height
  BY <1>1, BlockType DEF LocksAreOrdered
<1>8. \A i \in DOMAIN locks' :
        IF i \in 1..n THEN locks'[i] = locks[i] /\ locks'[i].block <= height
                      ELSE i > n /\ locks'[i].block = height + 1
  <2> SUFFICES ASSUME NEW i \in DOMAIN locks'
               PROVE  IF i \in 1..n THEN locks'[i] = locks[i] /\ locks'[i].block <= height
                      ELSE i > n /\ locks'[i].block = height + 1
    OBVIOUS
  <2>1. CASE i \in 1..n
    BY <1>6, <1>7, <2>1
  <2>2. CASE i \notin 1..n
    <3>1. i \in Nat /\ i > n
      BY <1>1, <1>6, <2>2
    <3>2. i - n \in DOMAIN more /\ locks'[i] = more[i - n]
      BY <1>6, <3>1
    <3>3. locks'[i] \in S
      BY <1>4, <3>2
    <3> QED
      BY <1>3, <2>2, <3>1, <3>3
  <2> QED
    BY <2>1, <2>2
<1>9. ASSUME NEW i \in DOMAIN locks', NEW j \in DOMAIN locks', i < j
      PROVE  locks'[i].block <= locks'[j].block
  <2>1. CASE j \in 1..n
    <3>1. i \in 1..n
      BY <1>6, <1>9, <2>1
    <3> QED
      BY <1>6, <1>8, <1>9, <2>1, <3>1 DEF LocksAreOrdered
  <2>2. CASE j \notin 1..n
    <3>1. locks'[j].block = height + 1
      BY <1>8, <2>2
    <3>2. locks'[i].block \in Nat /\ locks'[i].block <= height + 1
      BY <1>1, <1>7, <1>6, <1>8
    <3> QED
      BY <1>1, <3>1, <3>2
  <2> QED
    BY <2>1, <2>2
<1>10. LocksAreOrdered'
  <2>1. height' \in Nat
    BY <1>1
  <2>2. \A i \in DOMAIN locks' : locks'[i].block <= height'
    BY <1>1, <1>6, <1>7, <1>8
  <2> QED
    BY <1>6, <1>9, <2>1, <2>2 DEF LocksAreOrdered
<1> QED
  BY <1>1, <1>6, <1>8, <1>10

LEMMA NewBlockInv ==
  ASSUME ScanInv, NEW who \in SUBSET Borrowers, NewBlock(who)
  PROVE  ScanInv'
<1> USE ScanParameters
<1>1. /\ LocksAreOrdered /\ LocksAreOrdered'
      /\ \A i \in DOMAIN locks' : locks'[i].block <= height =>
           i \in DOMAIN locks /\ locks'[i] = locks[i]
  BY LocksGrow DEF ScanInv
<1>2. /\ locks \in Seq(Events) /\ locks' \in Seq(Events) /\ height \in Nat
      /\ height' = height + 1 /\ UNCHANGED <<rules, store, fetch, listed>>
  BY <1>1 DEF LocksAreOrdered, NewBlock
<1>3. ASSUME NEW e, NEW at \in Int, NEW to \in Int, to <= height,
             Covers(locks, rules, e, Base(height, at), to)
      PROVE  Covers(locks', rules, e, Base(height', at), to)
  <2>1. \A i \in DOMAIN locks' : locks'[i].block \in Nat
    BY <1>2, BlockType
  <2>2. Base(height, at) \in Int /\ Base(height', at) \in Int /\ Base(height, at) <= Base(height', at)
    BY <1>2, <1>3 DEF Base
  <2>3. Covers(locks', rules, e, Base(height, at), to)
    BY <1>1, <1>2, <1>3, <2>1, <2>2, CoversMore
  <2> QED
    BY <1>2, <1>3, <2>2, <2>3, CoversLess
<1>4. StoreInv'
  <2>1. /\ store.last \in Int /\ -1 <= store.last /\ store.last <= height
        /\ Covers(locks, rules, store.entries, Base(height, store.last), store.last)
    BY DEF ScanInv, StoreInv
  <2>2. Covers(locks', rules, store.entries, Base(height', store.last), store.last)
    BY <1>3, <2>1
  <2> QED
    BY <1>2, <2>1, <2>2 DEF ScanInv, StoreInv
<1>5. ASSUME NEW f \in Fetches PROVE FetchInv(f)'
  <2> SUFFICES ASSUME fetch[f].scanning PROVE FetchInv(f)'
    BY <1>2 DEF FetchInv
  <2>1. /\ 0 <= fetch[f].current /\ fetch[f].current <= height
        /\ 0 <= fetch[f].next /\ fetch[f].next <= height + 1
        /\ Covers(locks, rules, fetch[f].found, Base(height, fetch[f].current), fetch[f].next - 1)
        /\ fetch[f].current \in Int /\ fetch[f].next \in Int
    BY DEF ScanInv, FetchInv, FetchOf
  <2>2. Covers(locks', rules, fetch[f].found, Base(height', fetch[f].current), fetch[f].next - 1)
    BY <1>2, <1>3, <2>1
  <2> QED
    BY <1>2, <2>1, <2>2 DEF FetchInv
<1> QED
  BY <1>1, <1>2, <1>4, <1>5 DEF ScanInv

-----------------------------------------------------------------------------
(* The storage and the fetches. *)

LEMMA StoreChanges ==
  ASSUME ScanInv, StoreInv', UNCHANGED <<rules, height, locks, fetch>>
  PROVE  ScanInv'
BY DEF ScanInv, LocksAreOrdered, FetchInv

LEMMA StoreExpiresInv == ScanInv /\ StoreExpires => ScanInv'
<1> SUFFICES ASSUME ScanInv, StoreExpires PROVE ScanInv'
  OBVIOUS
<1>1. PICK S : store \in [entries: S, last: Int, stale: BOOLEAN]
  BY DEF ScanInv, StoreInv
<1>2. /\ store' \in [entries: S, last: Int, stale: BOOLEAN]
      /\ store'.entries = store.entries /\ store'.last = store.last
  BY <1>1 DEF StoreExpires
<1>3. StoreInv'
  BY <1>2 DEF ScanInv, StoreInv, StoreExpires
<1> QED
  BY <1>3, StoreChanges DEF StoreExpires

LEMMA ClearStoreInv == ScanInv /\ ClearStore => ScanInv'
<1> SUFFICES ASSUME ScanInv, ClearStore PROVE ScanInv'
  OBVIOUS
<1> USE ScanParameters
<1>1. store' = [entries |-> NoEntries, last |-> -1, stale |-> TRUE]
  BY DEF ClearStore, Empty, NoBlock
<1>2. /\ store' \in [entries: {NoEntries}, last: Int, stale: BOOLEAN]
      /\ store'.last = -1
  BY <1>1
<1>3. locks \in Seq(Events) /\ height \in Nat
  BY DEF ScanInv, LocksAreOrdered
<1>4. Base(height, -1) \in Int
  BY <1>3 DEF Base
<1>5. Covers(locks, rules, store'.entries, Base(height, -1), -1)
  BY <1>3, <1>4, NothingToCover
<1>6. StoreInv'
  <2>1. rules' = rules /\ height' = height /\ locks' = locks
    BY DEF ClearStore
  <2>2. -1 <= -1 /\ -1 <= height
    BY <1>3
  <2> QED
    BY <1>2, <1>5, <2>1, <2>2 DEF StoreInv
<1> QED
  BY <1>6, StoreChanges DEF ClearStore

-----------------------------------------------------------------------------
(* The fetches: where one begins, what a chunk adds, and what is stored.    *)

Scanning(r) ==
  r.scanning =>
    /\ 0 <= r.current /\ r.current <= height
    /\ 0 <= r.next /\ r.next <= height + 1
    /\ Covers(locks, rules, r.found, Base(height, r.current), r.next - 1)

LEMMA FetchMoves ==
  ASSUME ScanInv, StoreInv', UNCHANGED <<rules, height, locks>>,
         NEW f \in Fetches, NEW T, NEW r \in FetchOf(T), Scanning(r),
         fetch' = [fetch EXCEPT ![f] = r]
  PROVE  ScanInv'
<1>1. PICK S : fetch \in [Fetches -> FetchOf(S)]
  BY DEF ScanInv, FetchOf
<1>2. FetchOf(S) \subseteq FetchOf(S \cup T) /\ FetchOf(T) \subseteq FetchOf(S \cup T)
  BY DEF FetchOf
<1>3. fetch' \in [Fetches -> FetchOf(S \cup T)]
  BY <1>1, <1>2
<1>4. fetch'[f] = r /\ \A g \in Fetches : g # f => fetch'[g] = fetch[g]
  BY <1>1
<1>5. \A g \in Fetches : FetchInv(g)'
  BY <1>4 DEF ScanInv, FetchInv, Scanning
<1> QED
  BY <1>3, <1>5 DEF ScanInv, FetchOf, LocksAreOrdered

LEMMA BeginScanInv ==
  ASSUME ScanInv, NEW f \in Fetches, BeginScan(f)
  PROVE  ScanInv'
<1> USE ScanParameters
<1>1. /\ height \in Nat /\ locks \in Seq(Events) /\ rules \in {"queue", "radar"}
      /\ store.last \in Int /\ -1 <= store.last /\ store.last <= height
      /\ Covers(locks, rules, store.entries, Base(height, store.last), store.last)
  BY DEF ScanInv, LocksAreOrdered, StoreInv
<1>2. PICK current \in (height - Lag)..height :
        /\ current >= 0
        /\ fetch' = [fetch EXCEPT ![f] =
             [scanning |-> TRUE, found |-> store.entries,
              cached |-> IF rules = "radar" THEN store.entries ELSE NoEntries,
              next |-> From(current), current |-> current]]
  BY DEF BeginScan
<1>3. current \in Nat /\ current <= height /\ height <= current + Lag
  BY <1>1, <1>2
<1> DEFINE r == [scanning |-> TRUE, found |-> store.entries,
                 cached |-> IF rules = "radar" THEN store.entries ELSE NoEntries,
                 next |-> From(current), current |-> current]
<1>4. /\ DefaultFrom(current) \in Nat /\ DefaultFrom(current) <= current
      /\ DefaultFrom(current) - 1 < current - Lookback \/ DefaultFrom(current) = 0
  BY <1>3 DEF DefaultFrom
<1>5. \/ From(current) = DefaultFrom(current)
      \/ From(current) = store.last + 1
  BY DEF From
<1>6. From(current) \in Int /\ 0 <= From(current) /\ From(current) <= height + 1
  BY <1>1, <1>3, <1>4, <1>5
<1>7. Base(height, current) \in Int /\ Base(height, current) = height - Lookback
  BY <1>1, <1>3 DEF Base
<1>8. Covers(locks, rules, store.entries, Base(height, current), From(current) - 1)
  <2>1. CASE From(current) = DefaultFrom(current)
    <3>1. From(current) - 1 < Base(height, current) \/ From(current) - 1 < 0
      BY <1>1, <1>3, <1>4, <1>7, <2>1 DEF DefaultFrom
    <3>2. From(current) - 1 \in Int
      BY <1>6
    <3> QED
      BY <1>1, <1>7, <3>1, <3>2, NothingToCover
  <2>2. CASE From(current) = store.last + 1
    <3>1. From(current) - 1 = store.last
      BY <1>1, <2>2
    <3>2. Base(height, store.last) \in Int /\ Base(height, store.last) <= Base(height, current)
      BY <1>1, <1>7 DEF Base
    <3>3. Covers(locks, rules, store.entries, Base(height, current), store.last)
      BY <1>1, <1>7, <3>2, CoversLess
    <3> QED
      BY <3>1, <3>3
  <2> QED
    BY <1>5, <2>1, <2>2
<1>9. r \in FetchOf({store.entries, NoEntries})
  BY <1>3, <1>6 DEF FetchOf
<1>10. Scanning(r)
  BY <1>3, <1>6, <1>8 DEF Scanning
<1>11. StoreInv'
  BY DEF ScanInv, StoreInv, BeginScan
<1>12. fetch' = [fetch EXCEPT ![f] = r]
  BY <1>2
<1> HIDE DEF r
<1> QED
  BY <1>9, <1>10, <1>11, <1>12, FetchMoves DEF BeginScan

Upto(s, n, e) == [s EXCEPT !.next = n, !.found = e]

LEMMA FoundMore ==
  ASSUME NEW S, NEW s \in FetchOf(S), NEW n \in Int, NEW e
  PROVE  /\ Upto(s, n, e) \in FetchOf(S \cup {e})
         /\ Upto(s, n, e).next = n /\ Upto(s, n, e).found = e
         /\ Upto(s, n, e).current = s.current
<1> DEFINE r == [s EXCEPT !.next = n, !.found = e]
<1>1. /\ DOMAIN s = {"scanning", "cached", "found", "next", "current"}
      /\ s.scanning \in BOOLEAN /\ s.cached \in S /\ s.current \in Int
  BY DEF FetchOf
<1>2. /\ DOMAIN r = DOMAIN s /\ r.next = n /\ r.found = e
      /\ r.current = s.current /\ r.cached = s.cached /\ r.scanning = s.scanning
  BY <1>1
<1>3. r = [x \in DOMAIN s |-> r[x]]
  BY <1>1
<1> HIDE DEF r
<1>4. r = [scanning |-> r.scanning, cached |-> r.cached, found |-> r.found,
           next |-> r.next, current |-> r.current]
  BY <1>1, <1>2, <1>3
<1>5. r \in FetchOf(S \cup {e})
  BY <1>1, <1>2, <1>4 DEF FetchOf
<1> QED
  BY <1>2, <1>5 DEF r, Upto

(* The locks of a chunk are later than those that were found before, so     *)
(* their ids are greater.                                                   *)
LEMMA ScanChunkInv ==
  ASSUME ScanInv, NEW f \in Fetches, ScanChunk(f)
  PROVE  ScanInv'
<1> USE ScanParameters
<1> DEFINE s == fetch[f]
           to == IF s.next + Chunk - 1 > s.current THEN s.current ELSE s.next + Chunk - 1
           ids == {i \in DOMAIN locks : locks[i].block \in s.next..to}
           seen == {locks[i].who : i \in ids}
           idsOf(b) == {i \in ids : locks[i].who = b}
           found == [b \in Known(s.found) \cup seen |->
                       IF b \in seen THEN Max(idsOf(b)) ELSE s.found[b]]
           r == [s EXCEPT !.next = to + 1, !.found = found]
           low == Base(height, s.current)
<1>1. PICK S : fetch \in [Fetches -> FetchOf(S)]
  BY DEF ScanInv, FetchOf
<1>2. /\ s \in FetchOf(S) /\ s.scanning /\ s.next <= s.current
      /\ s.next \in Int /\ s.current \in Int
  BY <1>1 DEF FetchOf, ScanChunk
<1>3. /\ height \in Nat /\ locks \in Seq(Events)
      /\ 0 <= s.current /\ s.current <= height /\ 0 <= s.next /\ s.next <= height + 1
      /\ Covers(locks, rules, s.found, low, s.next - 1)
  BY <1>2 DEF ScanInv, FetchInv, LocksAreOrdered
<1>4. to \in Int /\ s.next <= to /\ to <= s.current
  BY <1>2
<1>5. fetch' = [fetch EXCEPT ![f] = r]
  <2>1. fetch' = [fetch EXCEPT ![f].next = to + 1, ![f].found = found]
    BY DEF ScanChunk
  <2> HIDE DEF found, to
  <2> QED
    BY <1>1, <2>1
<1> HIDE DEF to
<1>6. ASSUME NEW b \in seen
      PROVE  /\ Max(idsOf(b)) \in DOMAIN locks
             /\ locks[Max(idsOf(b))].block >= s.next
             /\ \A i \in ids : locks[i].who = b => Max(idsOf(b)) >= i
  <2>1. DOMAIN locks = 1..Len(locks) /\ Len(locks) \in Nat
    BY <1>3
  <2>2. idsOf(b) # {} /\ idsOf(b) \subseteq 1..Len(locks)
    BY <2>1
  <2>3. Max(idsOf(b)) \in idsOf(b) /\ \A i \in idsOf(b) : Max(idsOf(b)) >= i
    <3> HIDE DEF idsOf
    <3> QED
      BY <2>1, <2>2, GreatestIndex
  <2>4. \A i \in idsOf(b) : i \in DOMAIN locks /\ locks[i].block \in s.next..to
    OBVIOUS
  <2> QED
    BY <1>2, <1>4, <2>3, <2>4
<1>7. ASSUME NEW i \in DOMAIN locks, low <= locks[i].block, locks[i].block <= to
      PROVE  /\ locks[i].who \in DOMAIN found
             /\ rules = "queue" => found[locks[i].who] >= i
  <2> DEFINE b == locks[i].who
  <2>1. locks[i].block \in Nat
    BY <1>3, BlockType
  <2>2. CASE locks[i].block >= s.next
    <3>1. i \in ids /\ b \in seen
      BY <1>2, <1>4, <1>7, <2>1, <2>2
    <3>2. found[b] = Max(idsOf(b)) /\ b \in DOMAIN found
      BY <3>1
    <3> QED
      BY <1>6, <3>1, <3>2
  <2>3. CASE locks[i].block < s.next
    <3>1. b \in Known(s.found) /\ (rules = "queue" => s.found[b] >= i)
      BY <1>2, <1>3, <1>7, <2>1, <2>3 DEF Covers, Known
    <3>2. CASE b \in seen
      <4> DEFINE j == Max(idsOf(b))
      <4>1. j \in DOMAIN locks /\ locks[j].block >= s.next
        BY <1>6, <3>2
      <4>2. locks[j].block \in Nat /\ i \in Nat /\ j \in Nat
        BY <1>3, <4>1, BlockType
      <4>3. found[b] = j /\ b \in DOMAIN found
        BY <3>2
      <4> HIDE DEF j, found
      <4>4. ~(j < i)
        BY <1>2, <2>1, <2>3, <4>1, <4>2 DEF ScanInv, LocksAreOrdered
      <4> QED
        BY <4>2, <4>3, <4>4
    <3>3. CASE b \notin seen
      BY <3>1, <3>3
    <3> QED
      BY <3>2, <3>3
  <2> QED
    BY <1>2, <2>1, <2>2, <2>3
<1> HIDE DEF found
<1>8. Covers(locks, rules, found, low, to)
  BY <1>7 DEF Covers
<1>9. /\ r \in FetchOf(S \cup {found})
      /\ r.next = to + 1 /\ r.found = found /\ r.current = s.current
  <2>1. to + 1 \in Int /\ s \in FetchOf(S)
    BY <1>2, <1>4
  <2>2. r = Upto(s, to + 1, found)
    BY DEF Upto
  <2> HIDE DEF s, r
  <2> QED
    BY <2>1, <2>2, FoundMore
<1>10. Scanning(r)
  <2> HIDE DEF r
  <2> QED
    BY <1>2, <1>3, <1>4, <1>8, <1>9 DEF Scanning
<1>11. StoreInv'
  BY DEF ScanInv, StoreInv, ScanChunk
<1> HIDE DEF r
<1> QED
  BY <1>5, <1>9, <1>10, <1>11, FetchMoves DEF ScanChunk

LEMMA IdleInv ==
  ASSUME ScanInv, StoreInv', UNCHANGED <<rules, height, locks>>, NEW f \in Fetches,
         fetch' = [fetch EXCEPT ![f] = Idle]
  PROVE  ScanInv'
<1>1. Idle \in FetchOf({NoEntries}) /\ ~Idle.scanning
  BY DEF Idle, FetchOf
<1>2. Scanning(Idle)
  BY <1>1 DEF Scanning
<1> QED
  BY <1>1, <1>2, FetchMoves

LEMMA ScanFailsInv ==
  ASSUME ScanInv, NEW f \in Fetches, ScanFails(f)
  PROVE  ScanInv'
<1>1. StoreInv'
  BY DEF ScanInv, StoreInv, ScanFails
<1> QED
  BY <1>1, IdleInv DEF ScanFails

(* What is stored is what the fetch found, up to where it knows the chain.  *)
LEMMA ScanEndsInv ==
  ASSUME ScanInv, NEW f \in Fetches, ScanEnds(f)
  PROVE  ScanInv'
<1> USE ScanParameters
<1> DEFINE s == fetch[f]
           last == IF rules = "queue" /\ s.next > s.current THEN s.next - 1 ELSE s.current
           kept == IF last = 0 THEN NoBlock ELSE last
           new == [entries |-> s.found, last |-> kept, stale |-> FALSE]
<1>1. PICK S : fetch \in [Fetches -> FetchOf(S)]
  BY DEF ScanInv, FetchOf
<1>2. /\ s \in FetchOf(S) /\ s.scanning /\ s.next > s.current
      /\ s.next \in Int /\ s.current \in Int /\ s.found \in S
  BY <1>1 DEF FetchOf, ScanEnds
<1>3. /\ height \in Nat /\ locks \in Seq(Events)
      /\ 0 <= s.current /\ s.current <= height /\ 0 <= s.next /\ s.next <= height + 1
      /\ Covers(locks, rules, s.found, Base(height, s.current), s.next - 1)
  BY <1>2 DEF ScanInv, FetchInv, LocksAreOrdered
<1>4. last \in Int /\ s.current <= last /\ last <= s.next - 1 /\ last <= height /\ 0 <= last
  BY <1>2, <1>3
<1>5. kept \in Int /\ -1 <= kept /\ kept <= last
  BY <1>4 DEF NoBlock
<1>6. Covers(locks, rules, s.found, Base(height, kept), kept)
  <2>1. CASE last = 0
    <3>1. kept = -1 /\ Base(height, kept) \in Int
      BY <1>3, <1>5, <2>1 DEF Base, NoBlock
    <3> QED
      BY <1>3, <1>5, <3>1, NothingToCover
  <2>2. CASE last # 0
    <3>1. kept = last
      BY <2>2
    <3>2. /\ Base(height, s.current) \in Int /\ Base(height, kept) \in Int
          /\ Base(height, s.current) <= Base(height, kept)
      BY <1>2, <1>3, <1>4, <3>1 DEF Base
    <3>3. s.next - 1 \in Int /\ kept <= s.next - 1
      BY <1>2, <1>4, <3>1
    <3> HIDE DEF kept
    <3> QED
      BY <1>3, <1>5, <3>2, <3>3, CoversLess
  <2> QED
    BY <2>1, <2>2
<1>7. store' = store \/ store' = new
  BY DEF ScanEnds
<1>8. UNCHANGED <<rules, height, locks>> /\ fetch' = [fetch EXCEPT ![f] = Idle]
  BY DEF ScanEnds
<1>9. StoreInv'
  <2>1. CASE store' = store
    BY <1>8, <2>1 DEF ScanInv, StoreInv
  <2>2. CASE store' = new
    <3>1. /\ store' \in [entries: S, last: Int, stale: BOOLEAN]
          /\ store'.entries = s.found /\ store'.last = kept
      BY <1>2, <1>5, <2>2
    <3>2. kept <= height
      BY <1>3, <1>4, <1>5
    <3> HIDE DEF kept, new
    <3> QED
      BY <1>5, <1>6, <1>8, <3>1, <3>2 DEF StoreInv
  <2> QED
    BY <1>7, <2>1, <2>2
<1> QED
  BY <1>8, <1>9, IdleInv

LEMMA ScanStepInv == ScanInv /\ [ScanNext]_scanVars => ScanInv'
<1> SUFFICES ASSUME ScanInv, [ScanNext]_scanVars PROVE ScanInv'
  OBVIOUS
<1>1. ASSUME NEW f \in Fetches, AnswerFromStore(f) PROVE ScanInv'
  BY <1>1 DEF AnswerFromStore, ScanInv, LocksAreOrdered, StoreInv, FetchInv
<1>2. CASE UNCHANGED scanVars
  BY <1>2 DEF scanVars, ScanInv, LocksAreOrdered, StoreInv, FetchInv
<1> QED
  BY <1>1, <1>2, NewBlockInv, StoreExpiresInv, ClearStoreInv, BeginScanInv, ScanChunkInv,
     ScanFailsInv, ScanEndsInv
  DEF ScanNext, FetchStep

(* The stored list holds everybody who locked in the lookback up to the     *)
(* block that is stored with it, for any number of fetches and tabs.        *)
THEOREM NoLockIsSkipped == ScanSpec => []StoredIsComplete
BY ScanInvInit, ScanStepInv, ScanInvShown, PTL DEF ScanSpec
=============================================================================
