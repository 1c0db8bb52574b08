---------------------------- MODULE ReceiptProofs ----------------------------
(***************************************************************************)
(* The receipt token and the contracts that move it, for every finite set  *)
(* of accounts.  XRWAReceiver: types, one mint per lock id, the supply is  *)
(* what was minted.  MorphoAdapter, which is also where the token is run   *)
(* alone: the supply is the sum of the balances, no receipt goes from one  *)
(* holder to another, spending is approved, the adapter keeps nothing.     *)
(***************************************************************************)
EXTENDS XRWAReceiver, MorphoAdapter, FiniteSums, TLAPS

LEMMA TokenInitType == TokenInit => TokenTypeOK
<1> SUFFICES ASSUME TokenInit PROVE TokenTypeOK
  OBVIOUS
<1>1. 0 \in 0..MaxUint
  BY TokenAssumption
<1>2. allowance \in [Accounts -> [Accounts -> 0..MaxUint]]
  BY <1>1 DEF TokenInit
<1>3. transferAllowed \in [Accounts -> BOOLEAN]
  BY Zenon DEF TokenInit
<1> QED
  BY <1>1, <1>2, <1>3 DEF TokenInit, TokenTypeOK

LEMMA MoveType ==
  ASSUME TokenTypeOK, NEW f \in Accounts, NEW t \in Accounts, NEW n \in Nat,
         Move(f, t, n)
  PROVE  balanceOf' \in [Accounts -> Nat]
BY DEF Move, TokenTypeOK

LEMMA MintType ==
  ASSUME TokenTypeOK, NEW c, NEW t \in Accounts, NEW n \in TokenAmounts, Mint(c, t, n)
  PROVE  TokenTypeOK'
<1> n \in Nat
  BY TokenAssumption
<1>1. balanceOf' \in [Accounts -> Nat] /\ totalSupply' \in 0..MaxUint
  BY TokenAssumption DEF Mint, TokenTypeOK
<1> QED
  BY <1>1 DEF Mint, TokenTypeOK

LEMMA ListingType ==
  ASSUME TokenTypeOK, NEW c, NEW a \in Accounts, NEW b \in BOOLEAN,
         SetTransferAllowed(c, a, b)
  PROVE  TokenTypeOK'
<1>1. transferAllowed' \in [Accounts -> BOOLEAN]
  BY Zenon DEF SetTransferAllowed, TokenTypeOK
<1> QED
  BY <1>1 DEF SetTransferAllowed, TokenTypeOK

LEMMA HolderType == TokenTypeOK /\ HolderNext => TokenTypeOK'
<1> SUFFICES ASSUME TokenTypeOK, HolderNext PROVE TokenTypeOK'
  OBVIOUS
<1>1. ASSUME NEW c \in Accounts, NEW s \in Accounts,
             NEW n \in 0..MaxUint, Approve(c, s, n)
      PROVE  TokenTypeOK'
  <2>1. allowance' \in [Accounts -> [Accounts -> 0..MaxUint]]
    BY <1>1 DEF Approve, TokenTypeOK
  <2> QED
    BY <1>1, <2>1 DEF Approve, TokenTypeOK
<1>2. ASSUME NEW c \in Accounts, NEW t \in Accounts, NEW n \in TokenAmounts,
             Transfer(c, t, n)
      PROVE  TokenTypeOK'
  BY <1>2, MoveType, TokenAssumption DEF Transfer, TokenTypeOK
<1>3. ASSUME NEW c \in Accounts, NEW f \in Accounts, NEW t \in Accounts,
             NEW n \in TokenAmounts, TransferFrom(c, f, t, n)
      PROVE  TokenTypeOK'
  <2> n \in Nat
    BY TokenAssumption
  <2>1. allowance' \in [Accounts -> [Accounts -> 0..MaxUint]]
    <3>1. allowance[f][c] \in 0..MaxUint /\ allowance[f][c] >= n
      BY <1>3 DEF TransferFrom, TokenTypeOK
    <3>2. allowance[f][c] - n \in 0..MaxUint
      BY <3>1, TokenAssumption
    <3> QED
      BY <1>3, <3>2 DEF TransferFrom, TokenTypeOK
  <2>2. balanceOf' \in [Accounts -> Nat]
    BY <1>3, MoveType DEF TransferFrom
  <2> QED
    BY <1>3, <2>1, <2>2 DEF TransferFrom, TokenTypeOK
<1> QED
  BY <1>1, <1>2, <1>3, TokenAssumption DEF HolderNext

-----------------------------------------------------------------------------
LEMMA ReceiverInitType == ReceiverInit => ReceiverTypeOK
<1> SUFFICES ASSUME ReceiverInit PROVE ReceiverTypeOK
  OBVIOUS
<1>1. TokenTypeOK
  BY TokenInitType DEF ReceiverInit
<1>2. dvnAllowed \in [Keys -> BOOLEAN] /\ lockerAllowed \in [Sources -> BOOLEAN]
  BY Zenon DEF ReceiverInit
<1>3. mintLog \in Seq(Messages) /\ clock \in 0..MaxClock
  BY ReceiverAssumption DEF ReceiverInit
<1> QED
  BY <1>1, <1>2, <1>3 DEF ReceiverInit, ReceiverTypeOK

LEMMA AttestedMintType ==
  ASSUME ReceiverTypeOK, NEW m \in Messages, NEW k \in Keys, MintWithAttestation(m, k)
  PROVE  ReceiverTypeOK'
<1>1. TokenTypeOK'
  BY MintType DEF MintWithAttestation, ReceiverTypeOK, Messages
<1>2. mintLog' \in Seq(Messages)
  BY DEF MintWithAttestation, ReceiverTypeOK
<1>3. receiverConsumed' \subseteq MessageIds
  BY DEF MintWithAttestation, ReceiverTypeOK, Messages
<1> QED
  BY <1>1, <1>2, <1>3 DEF MintWithAttestation, ReceiverTypeOK

LEMMA SourceListingType ==
  ASSUME ReceiverTypeOK, NEW c, NEW s \in Sources, NEW b \in BOOLEAN, SetLocker(c, s, b)
  PROVE  ReceiverTypeOK'
<1>1. lockerAllowed' \in [Sources -> BOOLEAN]
  BY Zenon DEF SetLocker, ReceiverTypeOK
<1>2. TokenTypeOK'
  BY DEF SetLocker, ReceiverTypeOK, TokenTypeOK, tokenVars
<1> QED
  BY <1>1, <1>2 DEF SetLocker, ReceiverTypeOK

LEMMA TickType == ReceiverTypeOK /\ Tick => ReceiverTypeOK'
<1> SUFFICES ASSUME ReceiverTypeOK, Tick PROVE ReceiverTypeOK'
  OBVIOUS
<1>1. clock' \in 0..MaxClock
  BY ReceiverAssumption DEF Tick, ReceiverTypeOK
<1> QED
  BY <1>1 DEF Tick, ReceiverTypeOK, TokenTypeOK, tokenVars, receiverVars

LEMMA ReceiverStepType ==
  ReceiverTypeOK /\ [ReceiverNext]_<<receiverVars, tokenVars, clock>> => ReceiverTypeOK'
<1> SUFFICES ASSUME ReceiverTypeOK, [ReceiverNext]_<<receiverVars, tokenVars, clock>>
             PROVE  ReceiverTypeOK'
  OBVIOUS
<1>1. ASSUME NEW m \in Messages, NEW k \in Keys, MintWithAttestation(m, k)
      PROVE  ReceiverTypeOK'
  BY <1>1, AttestedMintType
<1>2. ASSUME NEW c \in ReceiverAdmins, NEW k \in Keys, NEW b \in BOOLEAN, SetDVN(c, k, b)
      PROVE  ReceiverTypeOK'
  <2>1. dvnAllowed' \in [Keys -> BOOLEAN]
    BY <1>2, Zenon DEF SetDVN, ReceiverTypeOK
  <2>2. TokenTypeOK'
    BY <1>2 DEF SetDVN, ReceiverTypeOK, TokenTypeOK, tokenVars
  <2> QED
    BY <1>2, <2>1, <2>2 DEF SetDVN, ReceiverTypeOK
<1>3. ASSUME NEW c \in ReceiverAdmins, NEW s \in Sources, NEW b \in BOOLEAN,
             SetLocker(c, s, b)
      PROVE  ReceiverTypeOK'
  BY <1>3, SourceListingType
<1>4. ASSUME NEW c \in ReceiverAdmins, NEW n \in ReceiverAdmins, SetReceiverAdmin(c, n)
      PROVE  ReceiverTypeOK'
  BY <1>4 DEF SetReceiverAdmin, ReceiverTypeOK, TokenTypeOK, tokenVars
<1>5. ASSUME NEW c \in ReceiverAdmins, NEW a \in Accounts, NEW b \in BOOLEAN,
             SetAcUSDYTransferAllowed(c, a, b)
      PROVE  ReceiverTypeOK'
  BY <1>5, ListingType DEF SetAcUSDYTransferAllowed, ReceiverTypeOK, receiverVars
<1>6. CASE HolderNext /\ UNCHANGED <<receiverVars, clock>>
  BY <1>6, HolderType DEF ReceiverTypeOK, receiverVars
<1>7. CASE Tick
  BY <1>7, TickType
<1>8. CASE UNCHANGED <<receiverVars, tokenVars, clock>>
  BY <1>8 DEF ReceiverTypeOK, TokenTypeOK, receiverVars, tokenVars
<1> QED
  BY <1>1, <1>2, <1>3, <1>4, <1>5, <1>6, <1>7, <1>8 DEF ReceiverNext

(* Every state of receiver and token together is well typed: balances and   *)
(* the supply stay natural numbers through every sequence of calls.         *)
THEOREM ReceiverTypeCorrect == ReceiverSpec => []ReceiverTypeOK
BY ReceiverInitType, ReceiverStepType, PTL DEF ReceiverSpec

-----------------------------------------------------------------------------
(* OneMintPerLock and ConsumedIffMinted are inductive only together: a      *)
(* second mint is refused because the first one's id is in the consumed set.*)
MintInv == OneMintPerLock /\ ConsumedIffMinted

LEMMA AttestedMintInv ==
  ASSUME ReceiverTypeOK, MintInv, NEW m \in Messages, NEW k, MintWithAttestation(m, k)
  PROVE  MintInv'
<1> DEFINE n == Len(mintLog) + 1
<1>1. mintLog \in Seq(Messages) /\ mintLog' = Append(mintLog, m)
  BY DEF MintWithAttestation, ReceiverTypeOK
<1>2. /\ DOMAIN mintLog = 1..Len(mintLog)
      /\ DOMAIN mintLog' = 1..n
      /\ Len(mintLog) \in Nat
      /\ mintLog'[n] = m
      /\ \A i \in 1..Len(mintLog) : mintLog'[i] = mintLog[i]
  BY <1>1
<1>3. m.lockId \notin receiverConsumed
  BY DEF MintWithAttestation, Mintable
<1>4. \A i \in DOMAIN mintLog : mintLog[i].lockId # m.lockId
  BY <1>3 DEF MintInv, ConsumedIffMinted
<1>5. OneMintPerLock'
  <2> SUFFICES ASSUME NEW i \in 1..n, NEW j \in 1..n,
                      mintLog'[i].lockId = mintLog'[j].lockId
               PROVE  i = j
    BY <1>2 DEF OneMintPerLock
  <2>1. CASE i = n /\ j = n
    BY <2>1
  <2>2. CASE i # n /\ j # n
    BY <1>2, <2>2 DEF MintInv, OneMintPerLock
  <2>3. CASE (i = n) # (j = n)
    BY <1>2, <1>4, <2>3
  <2> QED
    BY <2>1, <2>2, <2>3
<1>6. ConsumedIffMinted'
  <2>1. receiverConsumed' = receiverConsumed \cup {m.lockId}
    BY DEF MintWithAttestation
  <2>2. {mintLog'[i].lockId : i \in 1..n}
          = {mintLog[i].lockId : i \in 1..Len(mintLog)} \cup {m.lockId}
    <3> 1..n = 1..Len(mintLog) \cup {n}
      BY <1>2
    <3> QED
      BY <1>2
  <2> QED
    BY <1>2, <2>1, <2>2 DEF MintInv, ConsumedIffMinted
<1> QED
  BY <1>5, <1>6 DEF MintInv

LEMMA MintStutter ==
  ASSUME MintInv, UNCHANGED <<mintLog, receiverConsumed>>
  PROVE  MintInv'
BY DEF MintInv, OneMintPerLock, ConsumedIffMinted

LEMMA MintInvStep ==
  ReceiverTypeOK /\ MintInv /\ [ReceiverNext]_<<receiverVars, tokenVars, clock>> => MintInv'
BY AttestedMintInv, MintStutter
DEF ReceiverNext, SetDVN, SetLocker, SetReceiverAdmin, SetAcUSDYTransferAllowed,
    Tick, receiverVars

LEMMA MintInvariant == ReceiverSpec => []MintInv
<1>1. ReceiverInit => MintInv
  BY DEF ReceiverInit, MintInv, OneMintPerLock, ConsumedIffMinted
<1> QED
  BY <1>1, ReceiverTypeCorrect, MintInvStep, PTL DEF ReceiverSpec

(* No two mints ever carry the same lock id, for any number of DVN keys,    *)
(* conflicting messages and changes of the allow lists.                     *)
THEOREM LocksMintOnce == ReceiverSpec => []OneMintPerLock
<1>1. MintInv => OneMintPerLock
  BY DEF MintInv
<1> QED
  BY <1>1, MintInvariant, PTL

(* A lock id is in the consumed set exactly when one of the mints carries it.*)
THEOREM ConsumedLocksMinted == ReceiverSpec => []ConsumedIffMinted
<1>1. MintInv => ConsumedIffMinted
  BY DEF MintInv
<1> QED
  BY <1>1, MintInvariant, PTL

-----------------------------------------------------------------------------
(* What calls of the token do to the sum of the balances. *)

LEMMA BalanceSet ==
  ASSUME TokenTypeOK, NEW a \in Accounts, NEW v \in Nat,
         balanceOf' = [balanceOf EXCEPT ![a] = v]
  PROVE  SumFunction(balanceOf') = SumFunction(balanceOf) - balanceOf[a] + v
<1>1. IsFiniteSet(Accounts) /\ balanceOf \in [Accounts -> Nat]
  BY TokenAssumption DEF TokenTypeOK
<1>2. SumFunction([balanceOf EXCEPT ![a] = v]) = SumFunction(balanceOf) - balanceOf[a] + v
  BY <1>1, SumWithAnother
<1> QED
  BY <1>2

LEMMA SupplyType ==
  ASSUME TokenTypeOK PROVE SumFunction(balanceOf) \in Nat
BY SumIsNat, TokenAssumption DEF TokenTypeOK

(* A transfer leaves the sum as it is, one to oneself included. *)
LEMMA MoveKeepsSum ==
  ASSUME TokenTypeOK, NEW f \in Accounts, NEW t \in Accounts, NEW n \in Nat,
         Move(f, t, n)
  PROVE  SumFunction(balanceOf') = SumFunction(balanceOf)
<1>1. IsFiniteSet(Accounts) /\ balanceOf \in [Accounts -> Nat]
  BY TokenAssumption DEF TokenTypeOK
<1>2. n <= balanceOf[f]
  BY <1>1 DEF Move
<1>3. balanceOf' = Moved(balanceOf, f, t, n)
  BY DEF Move, Moved
<1>4. SumFunction(Moved(balanceOf, f, t, n)) = SumFunction(balanceOf)
  BY <1>1, <1>2, SumWithMoved
<1> QED
  BY <1>3, <1>4

LEMMA MintAddsToSum ==
  ASSUME TokenTypeOK, SupplyIsSum, NEW c, NEW t \in Accounts, NEW n \in Nat, Mint(c, t, n)
  PROVE  SupplyIsSum'
<1>1. balanceOf[t] \in Nat /\ balanceOf[t] + n \in Nat
  BY DEF TokenTypeOK
<1>2. SumFunction(balanceOf') = SumFunction(balanceOf) - balanceOf[t] + (balanceOf[t] + n)
  BY <1>1, BalanceSet DEF Mint
<1> QED
  BY <1>1, <1>2, SupplyType DEF Mint, SupplyIsSum

LEMMA BurnTakesFromSum ==
  ASSUME TokenTypeOK, SupplyIsSum, NEW c, NEW f \in Accounts, NEW n \in Nat, Burn(c, f, n)
  PROVE  SupplyIsSum'
<1>1. balanceOf[f] \in Nat /\ balanceOf[f] - n \in Nat
  BY DEF TokenTypeOK, Burn
<1>2. SumFunction(balanceOf') = SumFunction(balanceOf) - balanceOf[f] + (balanceOf[f] - n)
  BY <1>1, BalanceSet DEF Burn
<1> QED
  BY <1>1, <1>2, SupplyType DEF Burn, SupplyIsSum

LEMMA HoldersKeepSum ==
  TokenTypeOK /\ SupplyIsSum /\ HolderNext => SupplyIsSum'
<1> SUFFICES ASSUME TokenTypeOK, SupplyIsSum, HolderNext PROVE SupplyIsSum'
  OBVIOUS
<1>1. ASSUME NEW c \in Accounts, NEW s \in Accounts, NEW n, Approve(c, s, n)
      PROVE  SupplyIsSum'
  BY <1>1 DEF Approve, SupplyIsSum
<1>2. ASSUME NEW c \in Accounts, NEW t \in Accounts, NEW n \in TokenAmounts,
             Transfer(c, t, n)
      PROVE  SupplyIsSum'
  BY <1>2, MoveKeepsSum, TokenAssumption DEF Transfer, SupplyIsSum
<1>3. ASSUME NEW c \in Accounts, NEW f \in Accounts, NEW t \in Accounts,
             NEW n \in TokenAmounts, TransferFrom(c, f, t, n)
      PROVE  SupplyIsSum'
  BY <1>3, MoveKeepsSum, TokenAssumption DEF TransferFrom, SupplyIsSum
<1> QED
  BY <1>1, <1>2, <1>3 DEF HolderNext

LEMMA TokenInitSum == TokenInit => SupplyIsSum
BY SumOfZeros, TokenAssumption DEF TokenInit, SupplyIsSum

LEMMA TokenStep ==
  ASSUME TokenTypeOK, SupplyIsSum, TokenNext
  PROVE  TokenTypeOK' /\ SupplyIsSum'
<1>1. CASE HolderNext
  BY <1>1, HolderType, HoldersKeepSum
<1>2. ASSUME NEW t \in Accounts, NEW n \in TokenAmounts, Mint(Receiver, t, n)
      PROVE  TokenTypeOK' /\ SupplyIsSum'
  BY <1>2, MintType, MintAddsToSum, TokenAssumption
<1>3. ASSUME NEW f \in Accounts, NEW n \in TokenAmounts, Burn(Receiver, f, n)
      PROVE  TokenTypeOK' /\ SupplyIsSum'
  <2>1. n \in Nat
    BY TokenAssumption
  <2>2. balanceOf' \in [Accounts -> Nat] /\ totalSupply' \in 0..MaxUint
    BY <1>3, <2>1, TokenAssumption DEF Burn, TokenTypeOK
  <2> QED
    BY <1>3, <2>1, <2>2, BurnTakesFromSum DEF Burn, TokenTypeOK
<1>4. ASSUME NEW a \in Accounts, NEW b \in BOOLEAN, SetTransferAllowed(Receiver, a, b)
      PROVE  TokenTypeOK' /\ SupplyIsSum'
  BY <1>4, ListingType DEF SetTransferAllowed, SupplyIsSum
<1> QED
  BY <1>1, <1>2, <1>3, <1>4 DEF TokenNext

-----------------------------------------------------------------------------
(* What the receiver adds to the supply is what it logs. *)

LEMMA MessageType == \A l \in Messages : l.borrower \in Accounts /\ l.amount \in Nat
<1>1. \A l \in Messages : l.borrower \in Accounts /\ l.amount \in TokenAmounts
  BY DEF Messages
<1>2. TokenAmounts \subseteq Nat
  BY TokenAssumption
<1> QED
  BY <1>1, <1>2

LEMMA LogGrows ==
  ASSUME NEW log \in Seq(Messages), NEW m \in Messages
  PROVE  SumFunction([i \in DOMAIN Append(log, m) |-> Append(log, m)[i].amount])
           = SumFunction([i \in DOMAIN log |-> log[i].amount]) + m.amount
<1> DEFINE n == Len(log)
           f == [i \in DOMAIN log |-> log[i].amount]
           g == [i \in DOMAIN Append(log, m) |-> Append(log, m)[i].amount]
<1>1. /\ n \in Nat /\ DOMAIN log = 1..n /\ DOMAIN Append(log, m) = 1..(n + 1)
      /\ Append(log, m)[n + 1] = m
      /\ \A i \in 1..n : Append(log, m)[i] = log[i] /\ log[i] \in Messages
  OBVIOUS
<1>2. 1..(n + 1) = (1..n) \cup {n + 1} /\ (n + 1) \notin 1..n
  BY <1>1
<1>3. \A l \in Messages : l.amount \in Nat
  BY MessageType
<1>4. m.amount \in Nat /\ \A i \in 1..n : log[i].amount \in Nat
  BY <1>1, <1>3
<1>5. f \in [1..n -> Nat]
  BY <1>1, <1>4
<1>6. DOMAIN g = 1..(n + 1) /\ g = [i \in 1..(n + 1) |-> Append(log, m)[i].amount]
  BY <1>1
<1>7. g[n + 1] = m.amount /\ \A i \in 1..n : g[i] = f[i]
  BY <1>1, <1>2, <1>6
<1>8. g \in [(1..n) \cup {n + 1} -> Nat]
  <2>1. \A i \in 1..(n + 1) : g[i] \in Nat
    BY <1>2, <1>4, <1>5, <1>7
  <2>2. g = [i \in 1..(n + 1) |-> g[i]]
    BY <1>6, Zenon
  <2> HIDE DEF g
  <2>3. g \in [1..(n + 1) -> Nat]
    BY <2>1, <2>2
  <2> QED
    BY <2>3, <1>2
<1>9. IsFiniteSet(1..n)
  BY <1>1, FS_Interval
<1>10. SumFunction(g) = SumFunction(f) + g[n + 1]
  <2>1. DOMAIN f = 1..n /\ DOMAIN g = (1..n) \cup {n + 1}
    BY <1>2, <1>5, <1>6
  <2>2. \A i \in DOMAIN g : g[i] \in Nat
    BY <1>8, <2>1
  <2> HIDE DEF f, g
  <2>3. PICK k : k = n + 1
    OBVIOUS
  <2>4. IsFiniteSet(DOMAIN f) /\ k \notin DOMAIN f /\ DOMAIN g = DOMAIN f \cup {k}
    BY <1>2, <1>9, <2>1, <2>3
  <2>5. \A i \in DOMAIN f : g[i] = f[i]
    BY <1>7, <2>1
  <2>6. SumFunction(g) = SumFunction(f) + g[k]
    BY <2>2, <2>4, <2>5, SumWithOneMore
  <2> QED
    BY <2>3, <2>6
<1> QED
  BY <1>7, <1>10

(* The supply of AcUSDY under the receiver: the sum of the balances, and of *)
(* what was minted.                                                         *)
SupplyInv == SupplyIsSum /\ SupplyIsMinted

LEMMA SupplyInvInit == ReceiverInit => SupplyInv
<1> SUFFICES ASSUME ReceiverInit PROVE SupplyInv
  OBVIOUS
<1>1. SupplyIsSum
  BY TokenInitSum DEF ReceiverInit
<1>2. mintLog = <<>> /\ totalSupply = 0
  BY DEF ReceiverInit, TokenInit
<1>3. SumFunction([i \in {} |-> 0]) = 0
  BY SumOfZeros, FS_EmptySet
<1>4. [i \in DOMAIN mintLog |-> mintLog[i].amount] = [i \in {} |-> 0]
  BY <1>2
<1> QED
  BY <1>1, <1>2, <1>3, <1>4 DEF SupplyInv, SupplyIsMinted

LEMMA SupplyInvStep ==
  ReceiverTypeOK /\ SupplyInv /\ [ReceiverNext]_<<receiverVars, tokenVars, clock>> => SupplyInv'
<1> SUFFICES ASSUME ReceiverTypeOK, SupplyInv,
                    [ReceiverNext]_<<receiverVars, tokenVars, clock>>
             PROVE  SupplyInv'
  OBVIOUS
<1>1. ASSUME NEW m \in Messages, NEW k \in Keys, MintWithAttestation(m, k)
      PROVE  SupplyInv'
  <2>1. m.borrower \in Accounts /\ m.amount \in Nat
    BY MessageType
  <2>2. SupplyIsSum'
    <3> TokenTypeOK /\ SupplyIsSum /\ Mint(Receiver, m.borrower, m.amount)
      BY <1>1 DEF MintWithAttestation, ReceiverTypeOK, SupplyInv
    <3> QED
      BY <2>1, MintAddsToSum
  <2>3. mintLog' = Append(mintLog, m) /\ mintLog \in Seq(Messages)
    BY <1>1 DEF MintWithAttestation, ReceiverTypeOK
  <2>4. SumFunction([i \in DOMAIN mintLog' |-> mintLog'[i].amount])
          = SumFunction([i \in DOMAIN mintLog |-> mintLog[i].amount]) + m.amount
    BY <2>3, LogGrows
  <2>5. totalSupply' = totalSupply + m.amount
    BY <1>1 DEF MintWithAttestation, Mint
  <2> QED
    BY <2>2, <2>4, <2>5 DEF SupplyInv, SupplyIsMinted
<1>2. CASE HolderNext /\ UNCHANGED <<receiverVars, clock>>
  <2>1. SupplyIsSum'
    BY <1>2, HoldersKeepSum DEF ReceiverTypeOK, SupplyInv
  <2>2. totalSupply' = totalSupply /\ mintLog' = mintLog
    BY <1>2 DEF HolderNext, Approve, Transfer, TransferFrom, receiverVars
  <2> QED
    BY <2>1, <2>2 DEF SupplyInv, SupplyIsMinted
<1>3. CASE UNCHANGED <<totalSupply, balanceOf, mintLog>>
  BY <1>3 DEF SupplyInv, SupplyIsSum, SupplyIsMinted
<1> QED
  BY <1>1, <1>2, <1>3
  DEF ReceiverNext, SetDVN, SetLocker, SetReceiverAdmin, SetAcUSDYTransferAllowed,
      SetTransferAllowed, Tick, receiverVars, tokenVars

LEMMA SupplyInvariant == ReceiverSpec => []SupplyInv
BY SupplyInvInit, SupplyInvStep, ReceiverTypeCorrect, PTL DEF ReceiverSpec

(* The supply is the sum of all attested mints: no holder's call creates or *)
(* destroys a receipt, and no attempt that fails mints one.                 *)
THEOREM SupplyIsWhatWasMinted == ReceiverSpec => []SupplyIsMinted
<1>1. SupplyInv => SupplyIsMinted
  BY DEF SupplyInv
<1> QED
  BY <1>1, SupplyInvariant, PTL

-----------------------------------------------------------------------------
(* The adapter and the market. *)

MarketTypeOK ==
  /\ stage \in {"token", "deployed", "market"}
  /\ usdc \in [Holders -> Nat]
  /\ usdcLeave \in [Traders \cup {Adapter} -> Nat]
  /\ authorized \subseteq Traders
  /\ supplied \in [Traders -> Nat]
  /\ posted \in [Traders -> Nat]
  /\ borrowed \in [Traders -> Nat]
  /\ stranded \in Nat

DollarsPassOn ==
  /\ usdc[Adapter] = 0 /\ usdcLeave[Adapter] = 0
  /\ usdc[Morpho] + SumFunction(borrowed) = SumFunction(supplied)

ReceiptsPassOn ==
  /\ balanceOf[Adapter] = stranded /\ allowance[Adapter][Morpho] = 0
  /\ balanceOf[Morpho] >= SumFunction(posted)

(* AdapterKeepsNothing is inductive with the types, and because no amount   *)
(* of AcUSDY that can be moved is MaxUint, an approval that is never spent. *)
AdapterInv ==
  /\ TokenTypeOK /\ MarketTypeOK /\ SupplyIsSum
  /\ stage # "token" => totalSupply < MaxUint /\ DollarsPassOn /\ ReceiptsPassOn

LEMMA Parties ==
  /\ Traders \subseteq Accounts /\ Adapter \in Accounts /\ Morpho \in Accounts
  /\ Adapter \notin Traders /\ Morpho \notin Traders /\ Adapter # Morpho
  /\ Traders \subseteq Holders /\ Adapter \in Holders /\ Morpho \in Holders
  /\ IsFiniteSet(Traders) /\ IsFiniteSet(Accounts)
  /\ TokenAmounts \subseteq Nat /\ AdapterAmounts \subseteq 0..MaxUint /\ MaxUint \in Nat
  /\ TokenAmounts \subseteq 0..MaxUint
<1>1. Traders \subseteq Accounts /\ IsFiniteSet(Accounts)
  BY AdapterAssumption, TokenAssumption
<1>2. IsFiniteSet(Traders)
  BY <1>1, FS_Subset
<1>3. /\ TokenAmounts \subseteq Nat /\ AdapterAmounts \subseteq 0..MaxUint
      /\ MaxUint \in Nat /\ TokenAmounts \subseteq 0..MaxUint
  BY AdapterAssumption, TokenAssumption
<1> QED
  BY <1>1, <1>2, <1>3, AdapterAssumption DEF Holders

(* What a move of receipts does to each balance. *)
LEMMA MoveAt ==
  ASSUME TokenTypeOK, NEW f \in Accounts, NEW t \in Accounts, NEW n \in Nat,
         Move(f, t, n)
  PROVE  /\ n <= balanceOf[f]
         /\ \A a \in Accounts : a \notin {f, t} => balanceOf'[a] = balanceOf[a]
         /\ f = t => balanceOf'[f] = balanceOf[f]
         /\ f # t => balanceOf'[f] = balanceOf[f] - n /\ balanceOf'[t] = balanceOf[t] + n
BY DEF Move, TokenTypeOK

(* A user's entry in one of the books changes. *)
With(b, u, v) == [b EXCEPT ![u] = v]

LEMMA BookSet ==
  ASSUME NEW b \in [Traders -> Nat], NEW u \in Traders, NEW v \in Nat
  PROVE  /\ With(b, u, v) \in [Traders -> Nat]
         /\ SumFunction(With(b, u, v)) = SumFunction(b) - b[u] + v
         /\ SumFunction(b) \in Nat /\ b[u] \in Nat
<1>1. IsFiniteSet(Traders)
  BY Parties
<1>2. SumFunction(With(b, u, v)) = SumFunction(b) - b[u] + v
  BY <1>1, SumWithAnother DEF With
<1>3. SumFunction(b) \in Nat
  BY <1>1, SumIsNat
<1> QED
  BY <1>2, <1>3 DEF With

LEMMA BookGrows ==
  ASSUME NEW b \in [Traders -> Nat], NEW u \in Traders, NEW n \in Nat
  PROVE  /\ [b EXCEPT ![u] = @ + n] \in [Traders -> Nat]
         /\ SumFunction([b EXCEPT ![u] = @ + n]) = SumFunction(b) + n
<1>1. PICK v \in Nat : v = b[u] + n
  OBVIOUS
<1> v \in Nat
  BY <1>1
<1>2. [b EXCEPT ![u] = @ + n] = With(b, u, v)
  BY <1>1 DEF With
<1>3. /\ With(b, u, v) \in [Traders -> Nat]
      /\ SumFunction(With(b, u, v)) = SumFunction(b) - b[u] + v
      /\ SumFunction(b) \in Nat /\ b[u] \in Nat
  BY BookSet
<1>4. SumFunction(b) - b[u] + v = SumFunction(b) + n
  BY <1>1, <1>3
<1> QED
  BY <1>2, <1>3, <1>4, Zenon

LEMMA BookShrinks ==
  ASSUME NEW b \in [Traders -> Nat], NEW u \in Traders, NEW n \in Nat, n <= b[u]
  PROVE  /\ [b EXCEPT ![u] = @ - n] \in [Traders -> Nat]
         /\ SumFunction([b EXCEPT ![u] = @ - n]) = SumFunction(b) - n
<1>1. PICK v \in Nat : v = b[u] - n
  OBVIOUS
<1> v \in Nat
  BY <1>1
<1>2. [b EXCEPT ![u] = @ - n] = With(b, u, v)
  BY <1>1 DEF With
<1>3. /\ With(b, u, v) \in [Traders -> Nat]
      /\ SumFunction(With(b, u, v)) = SumFunction(b) - b[u] + v
      /\ SumFunction(b) \in Nat /\ b[u] \in Nat
  BY BookSet
<1>4. SumFunction(b) - b[u] + v = SumFunction(b) - n
  BY <1>1, <1>3
<1> QED
  BY <1>2, <1>3, <1>4, Zenon

LEMMA PassUSDCDoes ==
  ASSUME MarketTypeOK, NEW u \in Traders, NEW n \in Nat, PassUSDC(u, n)
  PROVE  /\ usdc' \in [Holders -> Nat]
         /\ usdcLeave' \in [Traders \cup {Adapter} -> Nat]
         /\ usdc'[Adapter] = usdc[Adapter] /\ usdcLeave'[Adapter] = 0
         /\ usdc'[Morpho] = usdc[Morpho] + n
<1>1. u # Adapter /\ u # Morpho /\ u \in Holders
  BY Parties
<1>2. usdcLeave' \in [Traders \cup {Adapter} -> Nat] /\ usdcLeave'[Adapter] = 0
  <2>1. usdcLeave[u] \in Nat /\ usdcLeave[u] - n \in Nat
    BY DEF PassUSDC, MarketTypeOK
  <2> QED
    BY <1>1, <2>1 DEF PassUSDC, MarketTypeOK
<1>3. /\ usdc' \in [Holders -> Nat] /\ usdc'[Adapter] = usdc[Adapter]
      /\ usdc'[Morpho] = usdc[Morpho] + n
  <2>1. /\ usdc[u] \in Nat /\ usdc[u] - n \in Nat
        /\ usdc[Morpho] \in Nat /\ usdc[Morpho] + n \in Nat
    BY <1>1, Parties DEF PassUSDC, MarketTypeOK
  <2> QED
    BY <1>1, <2>1, Parties DEF PassUSDC, MarketTypeOK
<1> QED
  BY <1>2, <1>3

LEMMA PayUSDCDoes ==
  ASSUME MarketTypeOK, NEW u \in Traders, NEW n \in Nat, PayUSDC(u, n)
  PROVE  /\ usdc' \in [Holders -> Nat] /\ usdcLeave' = usdcLeave
         /\ usdc'[Adapter] = usdc[Adapter]
         /\ usdc'[Morpho] = usdc[Morpho] - n
<1>1. u # Adapter /\ u # Morpho /\ u \in Holders
  BY Parties
<1>2. /\ usdc[u] \in Nat /\ usdc[u] + n \in Nat
      /\ usdc[Morpho] \in Nat /\ usdc[Morpho] - n \in Nat
  BY <1>1, Parties DEF PayUSDC, MarketTypeOK
<1> QED
  BY <1>1, <1>2, Parties DEF PayUSDC, MarketTypeOK

LEMMA SumsAreNat ==
  MarketTypeOK => SumFunction(supplied) \in Nat /\ SumFunction(posted) \in Nat
                    /\ SumFunction(borrowed) \in Nat /\ usdc[Morpho] \in Nat
<1> SUFFICES ASSUME MarketTypeOK
             PROVE  SumFunction(supplied) \in Nat /\ SumFunction(posted) \in Nat
                      /\ SumFunction(borrowed) \in Nat /\ usdc[Morpho] \in Nat
  OBVIOUS
<1>1. IsFiniteSet(Traders) /\ Morpho \in Holders
  BY Parties
<1>2. /\ supplied \in [Traders -> Nat] /\ posted \in [Traders -> Nat]
      /\ borrowed \in [Traders -> Nat] /\ usdc[Morpho] \in Nat
  BY <1>1 DEF MarketTypeOK
<1> QED
  BY <1>1, <1>2, SumIsNat

-----------------------------------------------------------------------------
(* Calls that pass dollars: the receipts stay where they are. *)

LEMMA ReceiptsStay ==
  ASSUME AdapterInv, UNCHANGED tokenVars, stage' = stage, posted' = posted,
         stranded' = stranded, MarketTypeOK', stage # "token" => DollarsPassOn'
  PROVE  AdapterInv'
BY DEF AdapterInv, ReceiptsPassOn, SupplyIsSum, TokenTypeOK, tokenVars

LEMMA SupplyUSDCInv ==
  ASSUME AdapterInv, NEW u \in Traders, NEW n \in Nat, SupplyUSDC(u, n)
  PROVE  AdapterInv'
<1>1. MarketTypeOK /\ PassUSDC(u, n)
  BY DEF AdapterInv, MarketTypeOK, SupplyUSDC
<1>2. /\ usdc' \in [Holders -> Nat] /\ usdcLeave' \in [Traders \cup {Adapter} -> Nat]
      /\ usdc'[Adapter] = usdc[Adapter] /\ usdcLeave'[Adapter] = 0
      /\ usdc'[Morpho] = usdc[Morpho] + n
  BY <1>1, PassUSDCDoes
<1>3. supplied \in [Traders -> Nat] /\ supplied' = [supplied EXCEPT ![u] = @ + n]
  BY <1>1 DEF SupplyUSDC, MarketTypeOK
<1>4. supplied' \in [Traders -> Nat] /\ SumFunction(supplied') = SumFunction(supplied) + n
  BY <1>1, <1>3, BookGrows
<1>5. MarketTypeOK'
  BY <1>1, <1>2, <1>4 DEF MarketTypeOK, SupplyUSDC
<1>6. stage # "token" => DollarsPassOn'
  BY <1>1, <1>2, <1>4, SumsAreNat DEF AdapterInv, DollarsPassOn, SupplyUSDC
<1> QED
  BY <1>5, <1>6, ReceiptsStay DEF SupplyUSDC

LEMMA WithdrawUSDCInv ==
  ASSUME AdapterInv, NEW u \in Traders, NEW n \in Nat, WithdrawUSDC(u, n)
  PROVE  AdapterInv'
<1>1. MarketTypeOK /\ PayUSDC(u, n) /\ supplied[u] \in Nat /\ n <= supplied[u]
  BY DEF AdapterInv, MarketTypeOK, WithdrawUSDC
<1>2. /\ usdc' \in [Holders -> Nat] /\ usdcLeave' = usdcLeave
      /\ usdc'[Adapter] = usdc[Adapter] /\ usdc'[Morpho] = usdc[Morpho] - n
  BY <1>1, PayUSDCDoes
<1>3. supplied \in [Traders -> Nat] /\ supplied' = [supplied EXCEPT ![u] = @ - n]
  BY <1>1 DEF WithdrawUSDC, MarketTypeOK
<1>4. supplied' \in [Traders -> Nat] /\ SumFunction(supplied') = SumFunction(supplied) - n
  BY <1>1, <1>3, BookShrinks
<1>5. MarketTypeOK'
  BY <1>1, <1>2, <1>4 DEF MarketTypeOK, WithdrawUSDC
<1>6. stage # "token" => DollarsPassOn'
  BY <1>1, <1>2, <1>4, SumsAreNat DEF AdapterInv, DollarsPassOn, WithdrawUSDC
<1> QED
  BY <1>5, <1>6, ReceiptsStay DEF WithdrawUSDC

LEMMA BorrowInv ==
  ASSUME AdapterInv, NEW u \in Traders, NEW n \in Nat, Borrow(u, n)
  PROVE  AdapterInv'
<1>1. MarketTypeOK /\ PayUSDC(u, n)
  BY DEF AdapterInv, MarketTypeOK, Borrow
<1>2. /\ usdc' \in [Holders -> Nat] /\ usdcLeave' = usdcLeave
      /\ usdc'[Adapter] = usdc[Adapter] /\ usdc'[Morpho] = usdc[Morpho] - n
  BY <1>1, PayUSDCDoes
<1>3. borrowed \in [Traders -> Nat] /\ borrowed' = [borrowed EXCEPT ![u] = @ + n]
  BY <1>1 DEF Borrow, MarketTypeOK
<1>4. borrowed' \in [Traders -> Nat] /\ SumFunction(borrowed') = SumFunction(borrowed) + n
  BY <1>1, <1>3, BookGrows
<1>5. MarketTypeOK'
  BY <1>1, <1>2, <1>4 DEF MarketTypeOK, Borrow
<1>6. stage # "token" => DollarsPassOn'
  BY <1>1, <1>2, <1>4, SumsAreNat DEF AdapterInv, DollarsPassOn, Borrow
<1> QED
  BY <1>5, <1>6, ReceiptsStay DEF Borrow

LEMMA RepayInv ==
  ASSUME AdapterInv, NEW u \in Traders, NEW n \in Nat, Repay(u, n)
  PROVE  AdapterInv'
<1>1. MarketTypeOK /\ PassUSDC(u, n) /\ borrowed[u] \in Nat /\ n <= borrowed[u]
  BY DEF AdapterInv, MarketTypeOK, Repay
<1>2. /\ usdc' \in [Holders -> Nat] /\ usdcLeave' \in [Traders \cup {Adapter} -> Nat]
      /\ usdc'[Adapter] = usdc[Adapter] /\ usdcLeave'[Adapter] = 0
      /\ usdc'[Morpho] = usdc[Morpho] + n
  BY <1>1, PassUSDCDoes
<1>3. borrowed \in [Traders -> Nat] /\ borrowed' = [borrowed EXCEPT ![u] = @ - n]
  BY <1>1 DEF Repay, MarketTypeOK
<1>4. borrowed' \in [Traders -> Nat] /\ SumFunction(borrowed') = SumFunction(borrowed) - n
  BY <1>1, <1>3, BookShrinks
<1>5. MarketTypeOK'
  BY <1>1, <1>2, <1>4 DEF MarketTypeOK, Repay
<1>6. stage # "token" => DollarsPassOn'
  BY <1>1, <1>2, <1>4, SumsAreNat DEF AdapterInv, DollarsPassOn, Repay
<1> QED
  BY <1>5, <1>6, ReceiptsStay DEF Repay

-----------------------------------------------------------------------------
(* Calls that pass receipts: the dollars stay where they are. *)

LEMMA DollarsStay ==
  ASSUME AdapterInv,
         UNCHANGED <<stage, usdc, usdcLeave, authorized, supplied, borrowed>>,
         TokenTypeOK', posted' \in [Traders -> Nat], stranded' \in Nat, SupplyIsSum',
         stage # "token" => totalSupply' < MaxUint /\ ReceiptsPassOn'
  PROVE  AdapterInv'
<1>1. MarketTypeOK'
  BY DEF AdapterInv, MarketTypeOK
<1>2. stage # "token" => DollarsPassOn'
  BY DEF AdapterInv, DollarsPassOn
<1> QED
  BY <1>1, <1>2 DEF AdapterInv

(* No balance reaches MaxUint, so no approval that is asked for is endless. *)
LEMMA AmountsAreFinite ==
  ASSUME AdapterInv, stage # "token", NEW u \in Accounts
  PROVE  balanceOf[u] \in Nat /\ balanceOf[u] < MaxUint
<1>1. /\ balanceOf \in [Accounts -> Nat] /\ totalSupply = SumFunction(balanceOf)
      /\ totalSupply < MaxUint
  BY DEF AdapterInv, TokenTypeOK, SupplyIsSum
<1>2. IsFiniteSet(Accounts) /\ MaxUint \in Nat
  BY TokenAssumption
<1>3. SumFunction(balanceOf) = Total(balanceOf, Accounts)
  BY <1>1, SumIsTotal
<1>4. balanceOf[u] <= Total(balanceOf, Accounts)
  BY <1>1, <1>2, TotalCoversEach
<1>5. Total(balanceOf, Accounts) \in Nat
  BY <1>1, <1>2, <1>3, SumIsNat
<1> QED
  BY <1>1, <1>2, <1>3, <1>4, <1>5

LEMMA SupplyCollateralDoes ==
  ASSUME AdapterInv, stage # "token", NEW u \in Traders, NEW n \in Nat,
         SupplyCollateral(u, n)
  PROVE  /\ n < MaxUint
         /\ allowance' \in [Accounts -> [Accounts -> 0..MaxUint]]
         /\ allowance'[Adapter][Morpho] = 0
         /\ allowance[u][Adapter] = MaxUint => allowance' = allowance
         /\ allowance[u][Adapter] # MaxUint =>
              allowance[u][Adapter] - allowance'[u][Adapter] = n
<1> u \in Accounts /\ u # Adapter /\ Adapter \in Accounts /\ Morpho \in Accounts
  BY Parties
<1>1. n <= balanceOf[u] /\ n < MaxUint /\ MaxUint \in Nat
  <2>1. TokenTypeOK /\ Move(u, Morpho, n)
    BY DEF AdapterInv, SupplyCollateral
  <2>2. n <= balanceOf[u]
    BY <2>1, MoveAt
  <2> QED
    BY <2>2, AmountsAreFinite, TokenAssumption
<1> DEFINE left == IF allowance[u][Adapter] = MaxUint THEN MaxUint
                   ELSE allowance[u][Adapter] - n
<1>2. /\ allowance \in [Accounts -> [Accounts -> 0..MaxUint]]
      /\ allowance[Adapter][Morpho] = 0
  BY DEF AdapterInv, TokenTypeOK, ReceiptsPassOn
<1>3. allowance[u][Adapter] \in 0..MaxUint /\ allowance[u][Adapter] >= n
  BY <1>2 DEF SupplyCollateral
<1>4. left \in 0..MaxUint /\ 0 \in 0..MaxUint
  BY <1>1, <1>3
<1>5. allowance' = [allowance EXCEPT ![u][Adapter] = IF @ = MaxUint THEN @ ELSE @ - n,
                                    ![Adapter][Morpho] = IF n = MaxUint THEN n ELSE 0]
  BY DEF SupplyCollateral
<1>6. allowance'[u][Adapter] = left /\ allowance'[Adapter][Morpho] = 0
  BY <1>1, <1>2, <1>5
<1>7. allowance' \in [Accounts -> [Accounts -> 0..MaxUint]]
  <2> DEFINE T == [Accounts -> 0..MaxUint]
             row1 == [allowance[u] EXCEPT ![Adapter] = left]
             row2 == [allowance[Adapter] EXCEPT ![Morpho] = 0]
  <2>1. row1 \in T /\ row2 \in T /\ allowance \in [Accounts -> T]
    <3> HIDE DEF left
    <3> QED
      BY <1>2, <1>4
  <2>2. row1 = [allowance[u] EXCEPT ![Adapter] = IF @ = MaxUint THEN @ ELSE @ - n]
    OBVIOUS
  <2>3. row2 = [allowance[Adapter] EXCEPT ![Morpho] = IF n = MaxUint THEN n ELSE 0]
    BY <1>1
  <2>4. allowance' = [allowance EXCEPT ![u] = row1, ![Adapter] = row2]
    <3> HIDE DEF row1, row2
    <3> QED
      BY <1>5, <2>2, <2>3
  <2> HIDE DEF T, row1, row2
  <2>5. allowance' \in [Accounts -> T]
    BY <2>1, <2>4
  <2> QED
    BY <2>5 DEF T
<1>8. allowance[u][Adapter] = MaxUint => allowance' = allowance
  BY <1>1, <1>2, <1>5
<1> QED
  BY <1>1, <1>3, <1>6, <1>7, <1>8

LEMMA SupplyCollateralInv ==
  ASSUME AdapterInv, stage # "token", NEW u \in Traders, NEW n \in Nat,
         SupplyCollateral(u, n)
  PROVE  AdapterInv'
<1>1. /\ TokenTypeOK /\ MarketTypeOK /\ SupplyIsSum /\ ReceiptsPassOn
      /\ totalSupply < MaxUint /\ Move(u, Morpho, n)
  BY DEF AdapterInv, SupplyCollateral
<1>2. /\ u \in Accounts /\ Morpho \in Accounts /\ Adapter \in Accounts
      /\ u # Morpho /\ Adapter \notin {u, Morpho}
  BY Parties
<1>3. balanceOf' \in [Accounts -> Nat] /\ SumFunction(balanceOf') = SumFunction(balanceOf)
  BY <1>1, <1>2, MoveType, MoveKeepsSum
<1>4. /\ balanceOf'[Adapter] = balanceOf[Adapter]
      /\ balanceOf'[Morpho] = balanceOf[Morpho] + n
  BY <1>1, <1>2, MoveAt
<1>5. /\ allowance' \in [Accounts -> [Accounts -> 0..MaxUint]]
      /\ allowance'[Adapter][Morpho] = 0
  BY SupplyCollateralDoes
<1>6. posted \in [Traders -> Nat] /\ posted' = [posted EXCEPT ![u] = @ + n]
  BY <1>1 DEF SupplyCollateral, MarketTypeOK
<1>7. posted' \in [Traders -> Nat] /\ SumFunction(posted') = SumFunction(posted) + n
  BY <1>6, BookGrows
<1>8. TokenTypeOK' /\ SupplyIsSum' /\ totalSupply' < MaxUint
  BY <1>1, <1>3, <1>5 DEF TokenTypeOK, SupplyIsSum, SupplyCollateral
<1>9. ReceiptsPassOn'
  <2>1. balanceOf[Morpho] \in Nat /\ SumFunction(posted) \in Nat
    BY <1>1, <1>2, SumsAreNat DEF TokenTypeOK
  <2> QED
    BY <1>1, <1>4, <1>5, <1>7, <2>1 DEF ReceiptsPassOn, SupplyCollateral
<1>10. stranded' \in Nat
  BY <1>1 DEF MarketTypeOK, SupplyCollateral
<1> QED
  BY <1>7, <1>8, <1>9, <1>10, DollarsStay DEF SupplyCollateral

LEMMA WithdrawCollateralInv ==
  ASSUME AdapterInv, stage # "token", NEW u \in Traders, NEW n \in Nat,
         WithdrawCollateral(u, n)
  PROVE  AdapterInv'
<1>1. /\ TokenTypeOK /\ MarketTypeOK /\ SupplyIsSum /\ ReceiptsPassOn
      /\ totalSupply < MaxUint /\ Move(Morpho, u, n)
  BY DEF AdapterInv, WithdrawCollateral, Transfer
<1>2. /\ u \in Accounts /\ Morpho \in Accounts /\ Adapter \in Accounts
      /\ u # Morpho /\ Adapter \notin {u, Morpho}
  BY Parties
<1>3. balanceOf' \in [Accounts -> Nat] /\ SumFunction(balanceOf') = SumFunction(balanceOf)
  BY <1>1, <1>2, MoveType, MoveKeepsSum
<1>4. /\ balanceOf'[Adapter] = balanceOf[Adapter]
      /\ balanceOf'[Morpho] = balanceOf[Morpho] - n
  BY <1>1, <1>2, MoveAt
<1>5. /\ posted \in [Traders -> Nat] /\ posted' = [posted EXCEPT ![u] = @ - n]
      /\ borrowed[u] \in Nat /\ borrowed[u] <= posted[u] - n
  BY <1>1 DEF WithdrawCollateral, MarketTypeOK
<1>6. posted[u] \in Nat /\ n <= posted[u]
  BY <1>5
<1>7. posted' \in [Traders -> Nat] /\ SumFunction(posted') = SumFunction(posted) - n
  BY <1>5, <1>6, BookShrinks
<1>8. TokenTypeOK' /\ SupplyIsSum' /\ totalSupply' < MaxUint
  BY <1>1, <1>3 DEF TokenTypeOK, SupplyIsSum, WithdrawCollateral, Transfer
<1>9. ReceiptsPassOn'
  <2>1. balanceOf[Morpho] \in Nat /\ SumFunction(posted) \in Nat
    BY <1>1, <1>2, SumsAreNat DEF TokenTypeOK
  <2> QED
    BY <1>1, <1>4, <1>7, <2>1 DEF ReceiptsPassOn, WithdrawCollateral, Transfer
<1>10. stranded' \in Nat
  BY <1>1 DEF MarketTypeOK, WithdrawCollateral
<1> QED
  BY <1>7, <1>8, <1>9, <1>10, DollarsStay DEF WithdrawCollateral

-----------------------------------------------------------------------------
(* Calls that do not go through the adapter. *)

LEMMA ApproveInv ==
  ASSUME AdapterInv, NEW u \in Traders, NEW s \in Traders \cup {Adapter},
         NEW n \in TokenAmounts \cup {MaxUint}, Approve(u, s, n), UNCHANGED marketVars
  PROVE  AdapterInv'
<1>1. u \in Accounts /\ s \in Accounts /\ u # Adapter
  BY Parties
<1>2. HolderNext
  BY <1>1 DEF HolderNext
<1>3. TokenTypeOK' /\ SupplyIsSum'
  BY <1>2, HolderType, HoldersKeepSum DEF AdapterInv
<1>4. stage # "token" => ReceiptsPassOn'
  BY <1>1, Parties DEF AdapterInv, ReceiptsPassOn, Approve, marketVars, TokenTypeOK
<1> QED
  BY <1>3, <1>4, DollarsStay DEF AdapterInv, MarketTypeOK, Approve, marketVars

LEMMA HandOverInv ==
  ASSUME AdapterInv, NEW u \in Traders, NEW f \in Traders, NEW t \in Accounts,
         NEW n \in TokenAmounts, TransferFrom(u, f, t, n),
         stranded' = (IF t = Adapter THEN stranded + n ELSE stranded),
         UNCHANGED <<stage, usdc, usdcLeave, authorized, supplied, posted, borrowed>>
  PROVE  AdapterInv'
<1>1. /\ u \in Accounts /\ f \in Accounts /\ Morpho \in Accounts /\ Adapter \in Accounts
      /\ f # Morpho /\ f # Adapter /\ n \in Nat /\ Adapter # Morpho
  BY Parties
<1>2. HolderNext
  BY <1>1 DEF HolderNext
<1>3. TokenTypeOK' /\ SupplyIsSum'
  BY <1>2, HolderType, HoldersKeepSum DEF AdapterInv
<1>4. TokenTypeOK /\ MarketTypeOK /\ Move(f, t, n)
  BY DEF AdapterInv, TransferFrom
<1>5. /\ balanceOf[Adapter] \in Nat /\ balanceOf[Morpho] \in Nat /\ stranded \in Nat
      /\ SumFunction(posted) \in Nat
  BY <1>1, <1>4, SumsAreNat DEF TokenTypeOK, MarketTypeOK
<1>6. /\ \A a \in Accounts : a \notin {f, t} => balanceOf'[a] = balanceOf[a]
      /\ f # t => balanceOf'[t] = balanceOf[t] + n
  BY <1>1, <1>4, MoveAt
<1>7. allowance[Adapter][Morpho] = 0 => allowance'[Adapter][Morpho] = 0
  BY <1>1, <1>4 DEF TransferFrom, TokenTypeOK
<1>8. stage # "token" => ReceiptsPassOn'
  <2> SUFFICES ASSUME stage # "token" PROVE ReceiptsPassOn'
    OBVIOUS
  <2>1. ReceiptsPassOn
    BY DEF AdapterInv
  <2>2. balanceOf'[Adapter] = stranded'
    BY <1>1, <1>5, <1>6, <2>1 DEF ReceiptsPassOn
  <2>3. balanceOf'[Morpho] >= balanceOf[Morpho]
    BY <1>1, <1>5, <1>6
  <2>4. balanceOf'[Morpho] \in Nat
    BY <1>1, <1>3 DEF TokenTypeOK
  <2> QED
    BY <1>5, <1>7, <2>1, <2>2, <2>3, <2>4 DEF ReceiptsPassOn
<1>9. stranded' \in Nat
  BY <1>1, <1>5
<1> QED
  BY <1>3, <1>4, <1>8, <1>9, DollarsStay DEF AdapterInv, MarketTypeOK, TransferFrom

LEMMA ListAdapterInv ==
  ASSUME AdapterInv, NEW b \in BOOLEAN, ListAdapter(b)
  PROVE  AdapterInv'
<1>1. TokenTypeOK'
  BY ListingType, Parties DEF AdapterInv, ListAdapter
<1>2. UNCHANGED <<totalSupply, balanceOf, allowance>> /\ UNCHANGED marketVars
  BY DEF ListAdapter, SetTransferAllowed
<1> QED
  BY <1>1, <1>2
  DEF AdapterInv, MarketTypeOK, SupplyIsSum, DollarsPassOn, ReceiptsPassOn, marketVars

LEMMA UserCallsInv ==
  ASSUME AdapterInv, NEW u \in Traders, UserCalls(u)
  PROVE  AdapterInv'
<1>1. ASSUME NEW s \in Traders \cup {Adapter}, NEW n \in TokenAmounts \cup {MaxUint},
             Approve(u, s, n), UNCHANGED marketVars
      PROVE  AdapterInv'
  BY <1>1, ApproveInv
<1>2. ASSUME NEW f \in Traders, NEW t \in Accounts, NEW n \in TokenAmounts,
             TransferFrom(u, f, t, n),
             stranded' = (IF t = Adapter THEN stranded + n ELSE stranded),
             UNCHANGED <<stage, usdc, usdcLeave, authorized, supplied, posted, borrowed>>
      PROVE  AdapterInv'
  BY <1>2, HandOverInv
<1>3. ASSUME NEW n \in AdapterAmounts, usdcLeave' = [usdcLeave EXCEPT ![u] = n],
             UNCHANGED <<tokenVars, stage, usdc, authorized, supplied, posted, borrowed,
                         stranded>>
      PROVE  AdapterInv'
  <2>1. n \in Nat /\ u # Adapter
    BY Parties
  <2>2. /\ usdcLeave' \in [Traders \cup {Adapter} -> Nat]
        /\ usdcLeave'[Adapter] = usdcLeave[Adapter]
    BY <1>3, <2>1 DEF AdapterInv, MarketTypeOK
  <2> QED
    BY <1>3, <2>2, ReceiptsStay DEF AdapterInv, MarketTypeOK, DollarsPassOn
<1>4. ASSUME authorized' = (IF u \in authorized THEN authorized \ {u}
                            ELSE authorized \cup {u}),
             UNCHANGED <<tokenVars, stage, usdc, usdcLeave, supplied, posted, borrowed,
                         stranded>>
      PROVE  AdapterInv'
  <2>1. authorized' \subseteq Traders
    BY <1>4 DEF AdapterInv, MarketTypeOK
  <2> QED
    BY <1>4, <2>1, ReceiptsStay DEF AdapterInv, MarketTypeOK, DollarsPassOn
<1> QED
  BY <1>1, <1>2, <1>3, <1>4 DEF UserCalls

-----------------------------------------------------------------------------
LEMMA AdapterInitInv == AdapterInit => AdapterInv
<1> SUFFICES ASSUME AdapterInit PROVE AdapterInv
  OBVIOUS
<1>1. MarketTypeOK
  <2>1. stage \in {"token", "deployed", "market"} /\ authorized \subseteq Traders
    BY DEF AdapterInit
  <2>2. usdc \in [Holders -> Nat]
    BY AdapterAssumption DEF AdapterInit
  <2>3. usdcLeave \in [Traders \cup {Adapter} -> Nat]
    BY DEF AdapterInit, Nothing
  <2>4. /\ supplied \in [Traders -> Nat] /\ posted \in [Traders -> Nat]
        /\ borrowed \in [Traders -> Nat] /\ stranded \in Nat
    BY DEF AdapterInit, Nothing
  <2> QED
    BY <2>1, <2>2, <2>3, <2>4 DEF MarketTypeOK
<1>2. CASE stage = "token"
  <2>1. TokenInit
    BY <1>2 DEF AdapterInit
  <2> QED
    BY <1>1, <1>2, <2>1, TokenInitType, TokenInitSum DEF AdapterInv
<1>3. CASE stage = "deployed"
  <2>1. Dealt \in [Accounts -> Nat] /\ Dealt[Adapter] = 0 /\ Dealt[Morpho] = 0
    BY Parties, AdapterAssumption DEF Dealt
  <2>2. SumFunction(Dealt) \in Nat
    BY <2>1, SumIsNat, Parties
  <2>3. balanceOf = Dealt /\ totalSupply = SumFunction(Dealt)
    BY <1>3 DEF AdapterInit
  <2>4. 0 \in 0..MaxUint
    BY Parties
  <2>5. /\ allowance \in [Accounts -> [Accounts -> 0..MaxUint]]
        /\ allowance[Adapter][Morpho] = 0
    <3>1. allowance = [a \in Accounts |-> [b \in Accounts |-> 0]]
      BY <1>3 DEF AdapterInit, Nothing
    <3>2. allowance[Adapter][Morpho] = 0
      BY <3>1, Parties
    <3>3. allowance \in [Accounts -> [Accounts -> 0..MaxUint]]
      BY <2>4, <3>1
    <3> QED
      BY <3>2, <3>3
  <2>6. transferAllowed \in [Accounts -> BOOLEAN]
    <3>1. ~(stage = "token")
      BY <1>3
    <3>2. transferAllowed = [a \in Accounts |-> a \in {Adapter, Morpho}]
      BY <3>1, Zenon DEF AdapterInit
    <3> DEFINE listed(a) == a \in {Adapter, Morpho}
    <3>3. \A a \in Accounts : listed(a) \in BOOLEAN
      OBVIOUS
    <3>4. transferAllowed = [a \in Accounts |-> listed(a)]
      BY <3>2
    <3> HIDE DEF listed
    <3> QED
      BY <3>3, <3>4, Zenon
  <2>7. totalSupply < MaxUint /\ totalSupply \in 0..MaxUint
    BY <2>2, <2>3, AdapterAssumption, TokenAssumption
  <2>8. SupplyIsSum
    BY <2>3 DEF SupplyIsSum
  <2>9. TokenTypeOK
    BY <2>1, <2>3, <2>5, <2>6, <2>7 DEF TokenTypeOK
  <2>10. SumFunction(Nothing(Traders)) = 0
    BY SumOfZeros, Parties DEF Nothing
  <2>11. DollarsPassOn
    <3>1. usdc[Adapter] = 0 /\ usdc[Morpho] = 0 /\ usdcLeave[Adapter] = 0
      BY Parties DEF AdapterInit, Nothing
    <3> QED
      BY <2>10, <3>1 DEF AdapterInit, DollarsPassOn
  <2>12. ReceiptsPassOn
    BY <2>1, <2>3, <2>5, <2>10 DEF AdapterInit, ReceiptsPassOn
  <2> QED
    BY <1>1, <2>7, <2>8, <2>9, <2>11, <2>12 DEF AdapterInv
<1> QED
  BY <1>2, <1>3 DEF AdapterInit

LEMMA AdapterStepInv == AdapterInv /\ [AdapterNext]_adapterVars => AdapterInv'
<1> SUFFICES ASSUME AdapterInv, [AdapterNext]_adapterVars PROVE AdapterInv'
  OBVIOUS
<1>1. CASE stage = "token" /\ TokenNext /\ UNCHANGED marketVars
  <2>1. TokenTypeOK' /\ SupplyIsSum'
    BY <1>1, TokenStep DEF AdapterInv
  <2> QED
    BY <1>1, <2>1 DEF AdapterInv, MarketTypeOK, marketVars
<1>2. CASE InitializeMarket
  <2>1. TokenTypeOK' /\ MarketTypeOK' /\ SupplyIsSum'
    BY <1>2 DEF InitializeMarket, AdapterInv, TokenTypeOK, MarketTypeOK, SupplyIsSum, tokenVars
  <2>2. totalSupply' < MaxUint /\ DollarsPassOn' /\ ReceiptsPassOn'
    BY <1>2 DEF InitializeMarket, AdapterInv, DollarsPassOn, ReceiptsPassOn, tokenVars
  <2> QED
    BY <2>1, <2>2 DEF AdapterInv
<1>3. ASSUME NEW u \in Traders, UserCalls(u) PROVE AdapterInv'
  BY <1>3, UserCallsInv
<1>4. ASSUME stage # "token", NEW u \in Traders, NEW n \in AdapterAmounts, AdapterCall(u, n)
      PROVE  AdapterInv'
  <2>1. n \in Nat
    BY Parties
  <2> QED
    BY <1>4, <2>1, SupplyUSDCInv, WithdrawUSDCInv, BorrowInv, RepayInv,
       SupplyCollateralInv, WithdrawCollateralInv DEF AdapterCall
<1>5. ASSUME NEW b \in BOOLEAN, ListAdapter(b) PROVE AdapterInv'
  BY <1>5, ListAdapterInv
<1>6. CASE UNCHANGED adapterVars
  BY <1>6
  DEF AdapterInv, TokenTypeOK, MarketTypeOK, SupplyIsSum, DollarsPassOn, ReceiptsPassOn,
      adapterVars, tokenVars, marketVars
<1> QED
  BY <1>1, <1>2, <1>3, <1>4, <1>5, <1>6 DEF AdapterNext

LEMMA AdapterInvariant == AdapterSpec => []AdapterInv
BY AdapterInitInv, AdapterStepInv, PTL DEF AdapterSpec

(* In every state of the token under all its functions, and of the market,  *)
(* the supply is the sum of the balances.                                   *)
THEOREM SupplyIsInBalances == AdapterSpec => []SupplyIsSum
<1>1. AdapterInv => SupplyIsSum
  BY DEF AdapterInv
<1> QED
  BY <1>1, AdapterInvariant, PTL

(* Whatever the users call, between two calls the adapter has no dollars,   *)
(* no receipts that were not sent to it by hand, and no approval is open.   *)
THEOREM AdapterPassesAllOn == AdapterSpec => []AdapterKeepsNothing
<1>1. AdapterInv => AdapterKeepsNothing
  BY DEF AdapterInv, AdapterKeepsNothing, DollarsPassOn, ReceiptsPassOn
<1> QED
  BY <1>1, AdapterInvariant, PTL

-----------------------------------------------------------------------------
(* Who pays, and with whose leave: the two promises about single calls.     *)
Allowed == PaidByListed /\ TakenIsApproved

LEMMA BalancesStay == UNCHANGED balanceOf /\ TokenTypeOK => Allowed
<1> SUFFICES ASSUME UNCHANGED balanceOf, TokenTypeOK PROVE Allowed
  OBVIOUS
<1>1. \A a \in Accounts : balanceOf[a] \in Nat /\ balanceOf'[a] = balanceOf[a]
  BY DEF TokenTypeOK
<1> QED
  BY <1>1 DEF Allowed, PaidByListed, TakenIsApproved

LEMMA TransferAllowed ==
  ASSUME TokenTypeOK, NEW c \in Accounts, NEW t \in Accounts, NEW n \in Nat,
         Transfer(c, t, n)
  PROVE  Allowed
<1>1. /\ n <= balanceOf[c]
      /\ \A a \in Accounts : a \notin {c, t} => balanceOf'[a] = balanceOf[a]
      /\ c = t => balanceOf'[c] = balanceOf[c]
      /\ c # t => balanceOf'[c] = balanceOf[c] - n /\ balanceOf'[t] = balanceOf[t] + n
  BY MoveAt DEF Transfer
<1>2. \A a \in Accounts : balanceOf[a] \in Nat
  BY DEF TokenTypeOK
<1>3. transferAllowed[c]
  BY DEF Transfer
<1>4. PaidByListed
  BY <1>1, <1>2, <1>3 DEF PaidByListed
<1>5. TakenIsApproved
  BY <1>1, <1>2, <1>3 DEF TakenIsApproved
<1> QED
  BY <1>4, <1>5 DEF Allowed

LEMMA TransferFromAllowed ==
  ASSUME TokenTypeOK, NEW c \in Accounts, NEW f \in Accounts, NEW t \in Accounts,
         NEW n \in Nat, TransferFrom(c, f, t, n)
  PROVE  Allowed
<1>1. /\ \A a \in Accounts : a \notin {f, t} => balanceOf'[a] = balanceOf[a]
      /\ f = t => balanceOf'[f] = balanceOf[f]
      /\ f # t => balanceOf'[f] = balanceOf[f] - n /\ balanceOf'[t] = balanceOf[t] + n
  BY MoveAt DEF TransferFrom
<1>2. \A a \in Accounts : balanceOf[a] \in Nat
  BY DEF TokenTypeOK
<1>3. transferAllowed[t]
  BY DEF TransferFrom
<1>4. PaidByListed
  BY <1>1, <1>2, <1>3 DEF PaidByListed
<1>5. \/ allowance[f][c] = MaxUint /\ allowance' = allowance
      \/ allowance[f][c] - allowance'[f][c] = n
  <2>1. allowance \in [Accounts -> [Accounts -> 0..MaxUint]]
    BY DEF TokenTypeOK
  <2>2. allowance[f][c] \in 0..MaxUint
    BY <2>1
  <2>3. CASE allowance[f][c] = MaxUint
    BY <2>3 DEF TransferFrom
  <2>4. CASE allowance[f][c] # MaxUint
    <3>1. allowance'[f][c] = allowance[f][c] - n
      BY <2>1, <2>4 DEF TransferFrom
    <3> QED
      BY <2>2, <3>1, TokenAssumption
  <2> QED
    BY <2>3, <2>4
<1>6. TakenIsApproved
  <2> SUFFICES ASSUME NEW a \in Accounts, balanceOf'[a] < balanceOf[a]
               PROVE  \/ allowance[a][c] = MaxUint /\ allowance' = allowance
                      \/ allowance[a][c] - allowance'[a][c] = balanceOf[a] - balanceOf'[a]
    BY DEF TakenIsApproved
  <2>1. a = f /\ balanceOf[a] - balanceOf'[a] = n
    BY <1>1, <1>2
  <2> QED
    BY <1>5, <2>1
<1> QED
  BY <1>4, <1>6 DEF Allowed

LEMMA ApproveAllowed ==
  ASSUME TokenTypeOK, NEW c, NEW s, NEW n, Approve(c, s, n)
  PROVE  Allowed
BY BalancesStay DEF Approve

LEMMA TokenNextAllowed == TokenTypeOK /\ TokenNext => Allowed
<1> SUFFICES ASSUME TokenTypeOK, TokenNext PROVE Allowed
  OBVIOUS
<1>1. ASSUME NEW t \in Accounts, NEW n \in TokenAmounts, Mint(Receiver, t, n)
      PROVE  Allowed
  <2>1. n \in Nat
    BY <1>1, TokenAssumption
  <2>2. \A a \in Accounts : balanceOf[a] \in Nat
    BY DEF TokenTypeOK
  <2>3. /\ balanceOf'[t] = balanceOf[t] + n /\ totalSupply' = totalSupply + n
        /\ \A a \in Accounts : a # t => balanceOf'[a] = balanceOf[a]
        /\ totalSupply \in Nat
    BY <1>1 DEF Mint, TokenTypeOK
  <2> QED
    BY <2>1, <2>2, <2>3 DEF Allowed, PaidByListed, TakenIsApproved
<1>2. ASSUME NEW f \in Accounts, NEW n \in TokenAmounts, Burn(Receiver, f, n)
      PROVE  Allowed
  <2>1. n \in Nat
    BY <1>2, TokenAssumption
  <2>2. \A a \in Accounts : balanceOf[a] \in Nat
    BY DEF TokenTypeOK
  <2>3. /\ balanceOf'[f] = balanceOf[f] - n /\ totalSupply' = totalSupply - n
        /\ \A a \in Accounts : a # f => balanceOf'[a] = balanceOf[a]
        /\ totalSupply \in Nat
    BY <1>2 DEF Burn, TokenTypeOK
  <2> QED
    BY <2>1, <2>2, <2>3 DEF Allowed, PaidByListed, TakenIsApproved
<1>3. ASSUME NEW a, NEW b, SetTransferAllowed(Receiver, a, b) PROVE Allowed
  BY <1>3, BalancesStay DEF SetTransferAllowed
<1>4. ASSUME NEW c \in Accounts, NEW s \in Accounts, NEW n, Approve(c, s, n)
      PROVE  Allowed
  BY <1>4, ApproveAllowed
<1>5. TokenAmounts \subseteq Nat
  BY TokenAssumption
<1>6. ASSUME NEW c \in Accounts, NEW t \in Accounts, NEW n \in TokenAmounts,
             Transfer(c, t, n)
      PROVE  Allowed
  BY <1>5, <1>6, TransferAllowed
<1>7. ASSUME NEW c \in Accounts, NEW f \in Accounts, NEW t \in Accounts,
             NEW n \in TokenAmounts, TransferFrom(c, f, t, n)
      PROVE  Allowed
  BY <1>5, <1>7, TransferFromAllowed
<1> QED
  BY <1>1, <1>2, <1>3, <1>4, <1>6, <1>7 DEF TokenNext, HolderNext

(* The adapter pulls the collateral from its caller and passes it on.       *)
LEMMA SupplyCollateralAllowed ==
  ASSUME AdapterInv, stage # "token", NEW u \in Traders, NEW n \in Nat,
         SupplyCollateral(u, n)
  PROVE  Allowed
<1>1. TokenTypeOK /\ Move(u, Morpho, n) /\ transferAllowed[Morpho]
  BY DEF AdapterInv, SupplyCollateral
<1>2. u \in Accounts /\ Morpho \in Accounts /\ Adapter \in Accounts /\ u # Morpho
  BY Parties
<1>3. /\ \A a \in Accounts : a \notin {u, Morpho} => balanceOf'[a] = balanceOf[a]
      /\ balanceOf'[u] = balanceOf[u] - n /\ balanceOf'[Morpho] = balanceOf[Morpho] + n
  BY <1>1, <1>2, MoveAt
<1>4. \A a \in Accounts : balanceOf[a] \in Nat
  BY <1>1 DEF TokenTypeOK
<1>5. PaidByListed
  BY <1>1, <1>2, <1>3, <1>4 DEF PaidByListed
<1>6. \/ allowance[u][Adapter] = MaxUint /\ allowance' = allowance
      \/ allowance[u][Adapter] - allowance'[u][Adapter] = n
  BY SupplyCollateralDoes
<1>7. TakenIsApproved
  <2> SUFFICES ASSUME NEW a \in Accounts, balanceOf'[a] < balanceOf[a]
               PROVE  \/ allowance[a][Adapter] = MaxUint /\ allowance' = allowance
                      \/ allowance[a][Adapter] - allowance'[a][Adapter]
                           = balanceOf[a] - balanceOf'[a]
    BY <1>2 DEF TakenIsApproved
  <2>1. a = u /\ balanceOf[a] - balanceOf'[a] = n
    BY <1>2, <1>3, <1>4
  <2> QED
    BY <1>6, <2>1
<1> QED
  BY <1>5, <1>7 DEF Allowed

LEMMA AdapterStepAllowed ==
  AdapterInv /\ [AdapterNext]_adapterVars => Allowed \/ UNCHANGED tokenVars
<1> SUFFICES ASSUME AdapterInv, [AdapterNext]_adapterVars
             PROVE  Allowed \/ UNCHANGED tokenVars
  OBVIOUS
<1>0. TokenTypeOK
  BY DEF AdapterInv
<1>1. CASE stage = "token" /\ TokenNext /\ UNCHANGED marketVars
  BY <1>0, <1>1, TokenNextAllowed
<1>2. CASE InitializeMarket
  BY <1>2 DEF InitializeMarket
<1>3. ASSUME NEW u \in Traders, UserCalls(u) PROVE Allowed \/ UNCHANGED tokenVars
  <2>1. u \in Accounts /\ Traders \subseteq Accounts /\ TokenAmounts \subseteq Nat
    BY Parties
  <2>2. ASSUME NEW s, NEW n, Approve(u, s, n) PROVE Allowed
    BY <1>0, <2>2, ApproveAllowed
  <2>3. ASSUME NEW f \in Traders, NEW t \in Accounts, NEW n \in TokenAmounts,
               TransferFrom(u, f, t, n)
        PROVE  Allowed
    BY <1>0, <2>1, <2>3, TransferFromAllowed
  <2> QED
    BY <1>3, <2>2, <2>3 DEF UserCalls
<1>4. ASSUME stage # "token", NEW u \in Traders, NEW n \in AdapterAmounts, AdapterCall(u, n)
      PROVE  Allowed \/ UNCHANGED tokenVars
  <2>1. u \in Accounts /\ Morpho \in Accounts /\ n \in Nat
    BY Parties
  <2>2. CASE SupplyCollateral(u, n)
    BY <1>4, <2>1, <2>2, SupplyCollateralAllowed
  <2>3. CASE WithdrawCollateral(u, n)
    BY <1>0, <2>1, <2>3, TransferAllowed DEF WithdrawCollateral
  <2>4. CASE SupplyUSDC(u, n) \/ WithdrawUSDC(u, n) \/ Borrow(u, n) \/ Repay(u, n)
    BY <2>4 DEF SupplyUSDC, WithdrawUSDC, Borrow, Repay
  <2> QED
    BY <1>4, <2>2, <2>3, <2>4 DEF AdapterCall
<1>5. ASSUME NEW b \in BOOLEAN, ListAdapter(b) PROVE Allowed
  BY <1>0, <1>5, BalancesStay DEF ListAdapter, SetTransferAllowed
<1>6. CASE UNCHANGED adapterVars
  BY <1>6 DEF adapterVars
<1> QED
  BY <1>1, <1>2, <1>3, <1>4, <1>5, <1>6 DEF AdapterNext

(* No call lets a receipt hop between two unlisted accounts, whatever the   *)
(* allowances and in whichever order accounts were put on and off the list. *)
THEOREM ReceiptsDoNotHop == AdapterSpec => NoPeerHop
<1>1. AdapterInv /\ [AdapterNext]_adapterVars => [PaidByListed]_tokenVars
  BY AdapterStepAllowed DEF Allowed
<1> QED
  BY <1>1, AdapterInvariant, PTL DEF AdapterSpec, NoPeerHop

(* What leaves an unlisted account was approved, and the approval shrinks   *)
(* by as much: the adapter's own approval of Morpho is never left standing. *)
THEOREM SpendingWasApproved == AdapterSpec => SpendingIsApproved
<1>1. AdapterInv /\ [AdapterNext]_adapterVars => [TakenIsApproved]_tokenVars
  BY AdapterStepAllowed DEF Allowed
<1> QED
  BY <1>1, AdapterInvariant, PTL DEF AdapterSpec, SpendingIsApproved

=============================================================================
