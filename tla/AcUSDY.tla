-------------------------------- MODULE AcUSDY --------------------------------
(***************************************************************************)
(* The receipt token on Ethereum (contracts/ethereum/AcUSDY.sol): an       *)
(* ERC-20 whose transfers need a listed party.  `caller' is msg.sender; a  *)
(* failed `require' or a checked operation that would leave 0..MaxUint is  *)
(* a disabled action.  The zero address is not an account, so its checks   *)
(* vanish; no balance exceeds the supply (SupplyIsSum), so that the only   *)
(* addition that can overflow is the supply's.                             *)
(***************************************************************************)
EXTENDS Integers, FiniteSets, Functions

CONSTANTS
  Accounts,      \* every address that may hold AcUSDY
  Receiver,      \* RECEIVER, the one address that may mint, burn and list
  TokenAmounts,  \* amounts a caller may pass
  MaxUint        \* type(uint256).max; as an allowance, never spent

ASSUME TokenAssumption ==
  /\ IsFiniteSet(Accounts)
  /\ Receiver \notin Accounts
  /\ TokenAmounts \subseteq 0..MaxUint
  /\ MaxUint \in Nat

VARIABLES totalSupply, balanceOf, allowance, transferAllowed

tokenVars == <<totalSupply, balanceOf, allowance, transferAllowed>>

TokenTypeOK ==
  /\ totalSupply \in 0..MaxUint
  /\ balanceOf \in [Accounts -> Nat]
  /\ allowance \in [Accounts -> [Accounts -> 0..MaxUint]]
  /\ transferAllowed \in [Accounts -> BOOLEAN]

TokenInit ==
  /\ totalSupply = 0
  /\ balanceOf = [a \in Accounts |-> 0]
  /\ allowance = [a \in Accounts |-> [b \in Accounts |-> 0]]
  /\ transferAllowed = [a \in Accounts |-> FALSE]

(* Mutants: no check of the balance; both balances read before either is    *)
(* written.                                                                 *)
MoveUnchecked(from, to, amount) ==
  balanceOf' = [[balanceOf EXCEPT ![from] = @ - amount] EXCEPT ![to] = @ + amount]

MoveCached(from, to, amount) ==
  /\ balanceOf[from] >= amount
  /\ balanceOf' = [balanceOf EXCEPT ![from] = balanceOf[from] - amount,
                                   ![to] = balanceOf[to] + amount]

(* balanceOf[from] -= amount; balanceOf[to] += amount, in this order. *)
Move(from, to, amount) ==
  /\ balanceOf[from] >= amount
  /\ balanceOf' = [[balanceOf EXCEPT ![from] = @ - amount] EXCEPT ![to] = @ + amount]

Approve(caller, spender, amount) ==
  /\ allowance' = [allowance EXCEPT ![caller][spender] = amount]
  /\ UNCHANGED <<totalSupply, balanceOf, transferAllowed>>

(* Only a listed sender may transfer: Morpho paying collateral out. *)
Transfer(caller, to, amount) ==
  /\ transferAllowed[caller]
  /\ Move(caller, to, amount)
  /\ UNCHANGED <<totalSupply, allowance, transferAllowed>>

(* Mutants: the spender is checked instead of the recipient; the allowance  *)
(* is not spent.                                                            *)
TransferFromBySpender(caller, from, to, amount) ==
  /\ transferAllowed[caller]
  /\ allowance[from][caller] >= amount
  /\ allowance' = IF allowance[from][caller] = MaxUint
                  THEN allowance
                  ELSE [allowance EXCEPT ![from][caller] = @ - amount]
  /\ Move(from, to, amount)
  /\ UNCHANGED <<totalSupply, transferAllowed>>

TransferFromUnspent(caller, from, to, amount) ==
  /\ transferAllowed[to]
  /\ allowance[from][caller] >= amount
  /\ Move(from, to, amount)
  /\ UNCHANGED <<totalSupply, allowance, transferAllowed>>

(* Only a listed recipient may be paid: Morpho taking collateral in. *)
TransferFrom(caller, from, to, amount) ==
  /\ transferAllowed[to]
  /\ allowance[from][caller] >= amount
  /\ allowance' = IF allowance[from][caller] = MaxUint
                  THEN allowance
                  ELSE [allowance EXCEPT ![from][caller] = @ - amount]
  /\ Move(from, to, amount)
  /\ UNCHANGED <<totalSupply, transferAllowed>>

(* A mutant: the supply is not updated. *)
MintKeepsSupply(caller, to, amount) ==
  /\ caller = Receiver
  /\ totalSupply + amount <= MaxUint
  /\ balanceOf' = [balanceOf EXCEPT ![to] = @ + amount]
  /\ UNCHANGED <<totalSupply, allowance, transferAllowed>>

(* totalSupply += amount is checked: a mint past the limit reverts. *)
Mint(caller, to, amount) ==
  /\ caller = Receiver
  /\ totalSupply + amount <= MaxUint
  /\ balanceOf' = [balanceOf EXCEPT ![to] = @ + amount]
  /\ totalSupply' = totalSupply + amount
  /\ UNCHANGED <<allowance, transferAllowed>>

Burn(caller, from, amount) ==
  /\ caller = Receiver
  /\ balanceOf[from] >= amount
  /\ totalSupply >= amount
  /\ balanceOf' = [balanceOf EXCEPT ![from] = @ - amount]
  /\ totalSupply' = totalSupply - amount
  /\ UNCHANGED <<allowance, transferAllowed>>

SetTransferAllowed(caller, addr, allowed) ==
  /\ caller = Receiver
  /\ transferAllowed' = [transferAllowed EXCEPT ![addr] = allowed]
  /\ UNCHANGED <<totalSupply, balanceOf, allowance>>

(* What token holders can do without going through the receiver. *)
HolderNext ==
  \/ \E c, s \in Accounts, n \in TokenAmounts \cup {MaxUint} : Approve(c, s, n)
  \/ \E c, t \in Accounts, n \in TokenAmounts : Transfer(c, t, n)
  \/ \E c, f, t \in Accounts, n \in TokenAmounts : TransferFrom(c, f, t, n)

TokenNext ==
  \/ HolderNext
  \/ \E t \in Accounts, n \in TokenAmounts : Mint(Receiver, t, n)
  \/ \E f \in Accounts, n \in TokenAmounts : Burn(Receiver, f, n)
  \/ \E a \in Accounts, b \in BOOLEAN : SetTransferAllowed(Receiver, a, b)

TokenSpec == TokenInit /\ [][TokenNext]_tokenVars

-----------------------------------------------------------------------------
(* Every unit in circulation is in exactly one balance, whatever mints,     *)
(* burns and transfers (to oneself included) came before: the checked       *)
(* subtraction of totalSupply in burn() cannot revert on its own.           *)
SupplyIsSum == totalSupply = SumFunction(balanceOf)

(* "Peer-to-peer transfers permanently disabled" (AcUSDY.sol:13) for one    *)
(* call: an unlisted account gains tokens only when the supply grows or a   *)
(* listed account pays, whoever holds an allowance over whom.               *)
PaidByListed ==
  \A a \in Accounts :
    balanceOf'[a] > balanceOf[a] /\ ~transferAllowed[a] =>
      \/ totalSupply' > totalSupply
      \/ \E b \in Accounts : transferAllowed[b] /\ balanceOf'[b] < balanceOf[b]

NoPeerHop == [][PaidByListed]_tokenVars

(* An allowance is a budget: tokens that leave an unlisted account without  *)
(* being burned are covered by what that account had approved to some       *)
(* spender, and a finite approval shrinks by exactly what was taken.        *)
TakenIsApproved ==
  \A a \in Accounts :
    balanceOf'[a] < balanceOf[a] /\ totalSupply' = totalSupply /\ ~transferAllowed[a] =>
      \E s \in Accounts :
        LET spent == balanceOf[a] - balanceOf'[a]
        IN \/ allowance[a][s] = MaxUint /\ allowance' = allowance
           \/ allowance[a][s] - allowance'[a][s] = spent

SpendingIsApproved == [][TakenIsApproved]_tokenVars

=============================================================================
