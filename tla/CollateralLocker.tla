--------------------------- MODULE CollateralLocker ---------------------------
(***************************************************************************)
(* The escrow contract on Mantle (contracts/mantle/CollateralLocker.sol).  *)
(*                                                                         *)
(* A transaction is one action: it is mined as a whole, or it reverts and  *)
(* leaves every variable unchanged, so a failed `require' is a disabled    *)
(* action.  keccak256 is taken to be injective, so a lock id IS the record *)
(* of the fields that are hashed; the chain id (a constant of the          *)
(* deployment) and the opaque vcHash are left out.  USDY is external: a    *)
(* balance per account and one for the contract itself.                    *)
(***************************************************************************)
EXTENDS Integers, FiniteSets, Functions

CONSTANTS
  Users,        \* accounts that own USDY and may call lock()
  Admins,       \* accounts that may hold the admin role
  Amounts,      \* amounts a caller may pass (0 included: the code rejects it)
  Deadlines,    \* values of validUntil a caller may pass
  InitialUSDY,  \* USDY each user owns when the contract is deployed
  MaxNonce      \* bound on locks per user (2^64 - 1 in the contract)

ASSUME LockerAssumption ==
  /\ IsFiniteSet(Users)
  /\ Amounts \subseteq Nat
  /\ Deadlines \subseteq Nat
  /\ InitialUSDY \in Nat
  /\ MaxNonce \in Nat

VARIABLES
  lockerAdmin,    \* admin
  paused,         \* paused
  lockerConsumed, \* lock ids issued; each one is also a Locked event
  lockedBalance,  \* per-user accounting
  userNonce,      \* next nonce of each user
  totalLocked,    \* total accounting
  released,       \* ids that appear in an Unlocked event
  usdy,           \* USDY.balanceOf(user)
  escrow,         \* USDY.balanceOf(locker)
  donated         \* USDY each user sent to the locker without lock()

lockerVars == <<lockerAdmin, paused, lockerConsumed, lockedBalance, userNonce,
                totalLocked, released, usdy, escrow, donated>>

(* What is hashed into a lock id, together with the chain id and vcHash. *)
LockIds == [borrower: Users, amount: Amounts, validUntil: Deadlines,
            nonce: 0..MaxNonce]

LockIdOf(user, amount, validUntil) ==
  [borrower |-> user, amount |-> amount, validUntil |-> validUntil,
   nonce |-> userNonce[user]]

LockerTypeOK ==
  /\ lockerAdmin \in Admins
  /\ paused \in BOOLEAN
  /\ lockerConsumed \subseteq LockIds
  /\ lockedBalance \in [Users -> Nat]
  /\ userNonce \in [Users -> 0..MaxNonce]
  /\ totalLocked \in Nat
  /\ released \subseteq LockIds
  /\ usdy \in [Users -> Nat]
  /\ escrow \in Nat
  /\ donated \in [Users -> Nat]

LockerInit ==
  /\ lockerAdmin \in Admins
  /\ paused = FALSE
  /\ lockerConsumed = {}
  /\ lockedBalance = [u \in Users |-> 0]
  /\ userNonce = [u \in Users |-> 0]
  /\ totalLocked = 0
  /\ released = {}
  /\ usdy = [u \in Users |-> InitialUSDY]
  /\ escrow = 0
  /\ donated = [u \in Users |-> 0]

(***************************************************************************)
(* USDY.transferFrom(user, locker, amount) and USDY.transfer(user, amount) *)
(* as the contract uses them: they succeed exactly when the payer's        *)
(* balance covers the amount (the user has approved it).                   *)
(***************************************************************************)
(* A mutant: transferFrom() returned false and nobody looked. *)
PullUnsafe(user, amount) ==
  UNCHANGED <<usdy, escrow>>

PullUSDY(user, amount) ==
  /\ usdy[user] >= amount
  /\ usdy' = [usdy EXCEPT ![user] = @ - amount]
  /\ escrow' = escrow + amount

PushUSDY(user, amount) ==
  /\ escrow >= amount
  /\ usdy' = [usdy EXCEPT ![user] = @ + amount]
  /\ escrow' = escrow - amount

(* A mutant: the nonce is not advanced. *)
LockKeepsNonce(user, amount, validUntil) ==
  LET id == LockIdOf(user, amount, validUntil)
  IN /\ ~paused
     /\ amount # 0
     /\ id \notin lockerConsumed
     /\ lockerConsumed' = lockerConsumed \cup {id}
     /\ lockedBalance' = [lockedBalance EXCEPT ![user] = @ + amount]
     /\ totalLocked' = totalLocked + amount
     /\ PullUSDY(user, amount)
     /\ UNCHANGED <<lockerAdmin, paused, userNonce, released, donated>>

(* lock(): takes the next nonce, records the id, accounts, then pulls. *)
Lock(user, amount, validUntil) ==
  LET id == LockIdOf(user, amount, validUntil)
  IN /\ ~paused
     /\ amount # 0
     /\ userNonce[user] < MaxNonce
     /\ id \notin lockerConsumed
     /\ userNonce' = [userNonce EXCEPT ![user] = @ + 1]
     /\ lockerConsumed' = lockerConsumed \cup {id}
     /\ lockedBalance' = [lockedBalance EXCEPT ![user] = @ + amount]
     /\ totalLocked' = totalLocked + amount
     /\ PullUSDY(user, amount)
     /\ UNCHANGED <<lockerAdmin, paused, released, donated>>

(* A mutant: the recipient's balance is not checked. *)
CanUnlockUnchecked(recipient, amount) ==
  /\ ~paused
  /\ amount # 0
  /\ totalLocked >= amount
  /\ escrow >= amount

(* unlock() does not read anything about the lock id: it only logs it.  The *)
(* second subtraction is checked arithmetic, hence its own guard.           *)
CanUnlock(recipient, amount) ==
  /\ ~paused
  /\ amount # 0
  /\ lockedBalance[recipient] >= amount
  /\ totalLocked >= amount
  /\ escrow >= amount

(* A mutant: only the per-user accounting is updated. *)
UnlockKeepsTotal(caller, recipient, amount, id) ==
  /\ caller = lockerAdmin
  /\ CanUnlock(recipient, amount)
  /\ lockedBalance' = [lockedBalance EXCEPT ![recipient] = @ - amount]
  /\ PushUSDY(recipient, amount)
  /\ released' = released \cup {id}
  /\ UNCHANGED <<lockerAdmin, paused, lockerConsumed, userNonce, totalLocked, donated>>

Unlock(caller, recipient, amount, id) ==
  /\ caller = lockerAdmin
  /\ CanUnlock(recipient, amount)
  /\ lockedBalance' = [lockedBalance EXCEPT ![recipient] = @ - amount]
  /\ totalLocked' = totalLocked - amount
  /\ PushUSDY(recipient, amount)
  /\ released' = released \cup {id}
  /\ UNCHANGED <<lockerAdmin, paused, lockerConsumed, userNonce, donated>>

SetAdmin(caller, newAdmin) ==
  /\ caller = lockerAdmin
  /\ lockerAdmin' = newAdmin
  /\ UNCHANGED <<paused, lockerConsumed, lockedBalance, userNonce, totalLocked,
                 released, usdy, escrow, donated>>

Pause(caller) ==
  /\ caller = lockerAdmin
  /\ paused' = TRUE
  /\ UNCHANGED <<lockerAdmin, lockerConsumed, lockedBalance, userNonce,
                 totalLocked, released, usdy, escrow, donated>>

Unpause(caller) ==
  /\ caller = lockerAdmin
  /\ paused' = FALSE
  /\ UNCHANGED <<lockerAdmin, lockerConsumed, lockedBalance, userNonce,
                 totalLocked, released, usdy, escrow, donated>>

(* An ERC-20 holder may send USDY to the contract without calling it. *)
DirectTransfer(user, amount) ==
  /\ amount # 0
  /\ PullUSDY(user, amount)
  /\ donated' = [donated EXCEPT ![user] = @ + amount]
  /\ UNCHANGED <<lockerAdmin, paused, lockerConsumed, lockedBalance, userNonce,
                 totalLocked, released>>

(* The admin may quote any issued id: the contract cannot tell which. *)
LockerNext ==
  \/ \E u \in Users, a \in Amounts, d \in Deadlines : Lock(u, a, d)
  \/ \E c \in Admins, u \in Users, a \in Amounts, id \in lockerConsumed :
        Unlock(c, u, a, id)
  \/ \E c, n \in Admins : SetAdmin(c, n)
  \/ \E c \in Admins : Pause(c) \/ Unpause(c)
  \/ \E u \in Users, a \in Amounts : DirectTransfer(u, a)

LockerSpec == LockerInit /\ [][LockerNext]_lockerVars

-----------------------------------------------------------------------------
(* The id lock() is about to compute was never issued, whatever the caller  *)
(* passes: DuplicateLockId (CollateralLocker.sol:145) never fires, and the  *)
(* destination chain never sees one id for two locks.                       *)
FreshLockIds ==
  \A u \in Users, a \in Amounts, d \in Deadlines :
    LockIdOf(u, a, d) \notin lockerConsumed

(* The two levels of accounting agree and the contract holds at least that  *)
(* much USDY, so neither checked subtraction in unlock() can revert and     *)
(* every user can be paid out in full.  The equality that                   *)
(* CollateralLocker.sol:43 states leaves out tokens sent without lock().    *)
BooksBalance ==
  /\ totalLocked = SumFunction(lockedBalance)
  /\ escrow = totalLocked + SumFunction(donated)

(* No admin action, in any order, moves value between users or out of the   *)
(* system: what a user holds, has locked and has given away is constant.    *)
UserWhole ==
  \A u \in Users : usdy[u] + lockedBalance[u] + donated[u] = InitialUSDY

=============================================================================
