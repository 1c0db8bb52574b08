---------------------------- MODULE MorphoAdapter ----------------------------
(***************************************************************************)
(* MorphoAdapter over the receipt token, USDC and the part of Morpho Blue  *)
(* it calls.  A deposit passes through the adapter: it pulls the tokens    *)
(* from its caller, approves Morpho, and Morpho pulls them again, so both  *)
(* the adapter and Morpho have to be listed by AcUSDY.  What is withdrawn  *)
(* goes from Morpho to the caller.                                         *)
(*                                                                         *)
(* A behaviour either exercises the token alone, with all its functions,   *)
(* or the configured market; only the users call then, as the adapter and  *)
(* Morpho approve and transfer nothing of their own accord.  There is no   *)
(* interest: a share is a unit, and a unit of collateral allows to owe one.*)
(***************************************************************************)
EXTENDS AcUSDY

CONSTANTS
  Traders,        \* lenders and borrowers
  Adapter,        \* the MorphoAdapter
  Morpho,         \* MORPHO
  AdapterAmounts, \* amounts that are passed to the adapter
  Receipts,       \* AcUSDY that each user has when the market opens
  Dollars         \* USDC that each user has when the market opens

(* How the receipts are dealt out when the market opens. *)
Dealt == [a \in Accounts |-> IF a \in Traders THEN Receipts ELSE 0]

ASSUME AdapterAssumption ==
  /\ Traders \cup {Adapter, Morpho} \subseteq Accounts
  /\ Adapter # Morpho /\ {Adapter, Morpho} \cap Traders = {}
  /\ AdapterAmounts \subseteq 0..MaxUint
  /\ Receipts \in Nat /\ Dollars \in Nat
  /\ SumFunction(Dealt) < MaxUint

VARIABLES
  stage,       \* "token", "deployed", or "market" once it is initialized
  usdc,        \* USDC balances
  usdcLeave,   \* USDC allowances to the adapter, and the adapter's to Morpho
  authorized,  \* the users who let the adapter act for them in Morpho
  supplied,    \* per user, USDC lent
  posted,      \* per user, collateral
  borrowed,    \* per user, USDC owed
  stranded     \* history: AcUSDY that was sent to the adapter by hand

marketVars == <<stage, usdc, usdcLeave, authorized, supplied, posted, borrowed, stranded>>
adapterVars == <<tokenVars, marketVars>>

Holders == Traders \cup {Adapter, Morpho}
Nothing(S) == [a \in S |-> 0]

AdapterInit ==
  /\ stage \in {"token", "deployed"}
  /\ IF stage = "token"
     THEN TokenInit
     ELSE /\ balanceOf = Dealt
          /\ totalSupply = SumFunction(balanceOf)
          /\ allowance = [a \in Accounts |-> Nothing(Accounts)]
          /\ transferAllowed = [a \in Accounts |-> a \in {Adapter, Morpho}]
  /\ usdc = [a \in Holders |-> IF a \in Traders THEN Dollars ELSE 0]
  /\ usdcLeave = Nothing(Traders \cup {Adapter})
  /\ authorized = {}
  /\ supplied = Nothing(Traders)
  /\ posted = Nothing(Traders)
  /\ borrowed = Nothing(Traders)
  /\ stranded = 0

-----------------------------------------------------------------------------
(* What users do without the adapter. *)
UserCalls(u) ==
  \/ /\ \E s \in Traders \cup {Adapter}, n \in TokenAmounts \cup {MaxUint} : Approve(u, s, n)
     /\ UNCHANGED marketVars
  \/ /\ \E f \in Traders, t \in Accounts, n \in TokenAmounts :
          /\ TransferFrom(u, f, t, n)
          /\ stranded' = IF t = Adapter THEN stranded + n ELSE stranded
     /\ UNCHANGED <<stage, usdc, usdcLeave, authorized, supplied, posted, borrowed>>
  \/ /\ \E n \in AdapterAmounts : usdcLeave' = [usdcLeave EXCEPT ![u] = n]
     /\ UNCHANGED <<tokenVars, stage, usdc, authorized, supplied, posted, borrowed, stranded>>
  \/ /\ authorized' = IF u \in authorized THEN authorized \ {u} ELSE authorized \cup {u}
     /\ UNCHANGED <<tokenVars, stage, usdc, usdcLeave, supplied, posted, borrowed, stranded>>

(* setAcUSDYTransferAllowed: the adapter is taken off the list or put back. *)
ListAdapter(allowed) ==
  /\ SetTransferAllowed(Receiver, Adapter, allowed)
  /\ UNCHANGED marketVars

-----------------------------------------------------------------------------
(* The adapter.                                                            *)

InitializeMarket ==
  /\ stage = "deployed"
  /\ stage' = "market"
  /\ UNCHANGED <<tokenVars, usdc, usdcLeave, authorized, supplied, posted, borrowed, stranded>>

(* safeTransferFrom(user, adapter, n), safeApprove(MORPHO, n), and Morpho's *)
(* safeTransferFrom(adapter, Morpho, n), which uses the approval up.        *)
PassUSDC(u, n) ==
  /\ usdcLeave[u] >= n
  /\ usdc[u] >= n
  /\ usdcLeave' = [usdcLeave EXCEPT ![u] = @ - n, ![Adapter] = 0]
  /\ usdc' = [usdc EXCEPT ![u] = @ - n, ![Morpho] = @ + n]

(* Morpho pays a user out. *)
PayUSDC(u, n) ==
  /\ usdc[Morpho] >= n
  /\ usdc' = [usdc EXCEPT ![Morpho] = @ - n, ![u] = @ + n]
  /\ UNCHANGED usdcLeave

(* Morpho takes an amount or shares, not neither: zero reverts everywhere,  *)
(* also where the adapter does not check it.                                *)
Calls(n) == stage = "market" /\ n > 0

SupplyUSDC(u, n) ==
  /\ Calls(n)
  /\ PassUSDC(u, n)
  /\ supplied' = [supplied EXCEPT ![u] = @ + n]
  /\ UNCHANGED <<tokenVars, stage, authorized, posted, borrowed, stranded>>

WithdrawUSDC(u, n) ==
  /\ Calls(n)
  /\ u \in authorized
  /\ supplied[u] >= n
  /\ PayUSDC(u, n)
  /\ supplied' = [supplied EXCEPT ![u] = @ - n]
  /\ UNCHANGED <<tokenVars, stage, authorized, posted, borrowed, stranded>>

SupplyCollateral(u, n) ==
  /\ Calls(n)
  /\ transferAllowed[Adapter] /\ transferAllowed[Morpho]
  /\ allowance[u][Adapter] >= n
  /\ Move(u, Morpho, n)
  /\ allowance' = [allowance EXCEPT ![u][Adapter] = IF @ = MaxUint THEN @ ELSE @ - n,
                                    ![Adapter][Morpho] = IF n = MaxUint THEN n ELSE 0]
  /\ posted' = [posted EXCEPT ![u] = @ + n]
  /\ UNCHANGED <<totalSupply, transferAllowed, stage, usdc, usdcLeave, authorized,
                 supplied, borrowed, stranded>>

Borrow(u, n) ==
  /\ Calls(n)
  /\ u \in authorized
  /\ borrowed[u] + n <= posted[u]
  /\ PayUSDC(u, n)
  /\ borrowed' = [borrowed EXCEPT ![u] = @ + n]
  /\ UNCHANGED <<tokenVars, stage, authorized, supplied, posted, stranded>>

(* A mutant: only the debt is passed on, and the rest of the amount stays.  *)
RepayCapped(u, n) ==
  LET paid == IF n > borrowed[u] THEN borrowed[u] ELSE n IN
  /\ Calls(n)
  /\ usdcLeave[u] >= n
  /\ usdc[u] >= n
  /\ usdcLeave' = [usdcLeave EXCEPT ![u] = @ - n, ![Adapter] = n - paid]
  /\ usdc' = [usdc EXCEPT ![u] = @ - n, ![Adapter] = @ + n - paid, ![Morpho] = @ + paid]
  /\ borrowed' = [borrowed EXCEPT ![u] = @ - paid]
  /\ UNCHANGED <<tokenVars, stage, authorized, supplied, posted, stranded>>

(* More than the debt underflows in Morpho. *)
Repay(u, n) ==
  /\ Calls(n)
  /\ borrowed[u] >= n
  /\ PassUSDC(u, n)
  /\ borrowed' = [borrowed EXCEPT ![u] = @ - n]
  /\ UNCHANGED <<tokenVars, stage, authorized, supplied, posted, stranded>>

WithdrawCollateral(u, n) ==
  /\ Calls(n)
  /\ u \in authorized
  /\ borrowed[u] <= posted[u] - n
  /\ Transfer(Morpho, u, n)
  /\ posted' = [posted EXCEPT ![u] = @ - n]
  /\ UNCHANGED <<stage, usdc, usdcLeave, authorized, supplied, borrowed, stranded>>

AdapterCall(u, n) ==
  \/ SupplyUSDC(u, n)
  \/ WithdrawUSDC(u, n)
  \/ SupplyCollateral(u, n)
  \/ Borrow(u, n)
  \/ Repay(u, n)
  \/ WithdrawCollateral(u, n)

AdapterNext ==
  \/ stage = "token" /\ TokenNext /\ UNCHANGED marketVars
  \/ InitializeMarket
  \/ /\ stage # "token"
     /\ \/ \E u \in Traders : UserCalls(u) \/ (\E n \in AdapterAmounts : AdapterCall(u, n))
        \/ \E b \in BOOLEAN : ListAdapter(b)

AdapterSpec == AdapterInit /\ [][AdapterNext]_adapterVars

-----------------------------------------------------------------------------
(* The adapter passes everything on: between two calls it has no token but  *)
(* the receipts that somebody sent to it by hand (it is listed, so AcUSDY   *)
(* lets them; they stay there for ever), Morpho may take nothing more from  *)
(* it, and Morpho has what its books say it has (MorphoAdapter.sol:97-201). *)
AdapterKeepsNothing ==
  stage # "token" =>
    /\ usdc[Adapter] = 0 /\ usdcLeave[Adapter] = 0
    /\ balanceOf[Adapter] = stranded /\ allowance[Adapter][Morpho] = 0
    /\ usdc[Morpho] + SumFunction(borrowed) = SumFunction(supplied)
    /\ balanceOf[Morpho] >= SumFunction(posted)

=============================================================================
