------------------------ MODULE CollateralLockerProofs ------------------------
(***************************************************************************)
(* CollateralLocker for every set of users and admins, every amount,       *)
(* deadline and number of locks: types, the freshness of lock ids, the     *)
(* conservation of every user's USDY and the agreement of the books.       *)
(***************************************************************************)
EXTENDS CollateralLocker, FiniteSums, TLAPS

LEMMA LockerInitType == LockerInit => LockerTypeOK
<1> SUFFICES ASSUME LockerInit PROVE LockerTypeOK
  OBVIOUS
<1>1. 0 \in 0..MaxNonce
  BY LockerAssumption
<1>2. paused \in BOOLEAN
  BY DEF LockerInit
<1>3. userNonce \in [Users -> 0..MaxNonce]
  BY <1>1 DEF LockerInit
<1> QED
  BY <1>2, <1>3, LockerAssumption DEF LockerInit, LockerTypeOK

LEMMA LockType ==
  ASSUME LockerTypeOK, NEW u \in Users, NEW a \in Amounts, NEW d \in Deadlines,
         Lock(u, a, d)
  PROVE  LockerTypeOK'
<1> a \in Nat
  BY LockerAssumption
<1>1. LockIdOf(u, a, d) \in LockIds
  BY DEF LockerTypeOK, LockIdOf, LockIds
<1>2. userNonce' \in [Users -> 0..MaxNonce]
  BY LockerAssumption DEF Lock, LockerTypeOK
<1>3. lockerConsumed' \subseteq LockIds
  BY <1>1 DEF Lock, LockerTypeOK
<1>4. /\ lockedBalance' \in [Users -> Nat]
      /\ usdy' \in [Users -> Nat]
      /\ totalLocked' \in Nat
      /\ escrow' \in Nat
  BY DEF Lock, PullUSDY, LockerTypeOK
<1> QED
  BY <1>2, <1>3, <1>4 DEF Lock, LockerTypeOK

LEMMA UnlockType ==
  ASSUME LockerTypeOK, NEW c, NEW u \in Users, NEW a \in Nat,
         NEW id \in LockIds, Unlock(c, u, a, id)
  PROVE  LockerTypeOK'
<1>1. /\ lockedBalance' \in [Users -> Nat]
      /\ usdy' \in [Users -> Nat]
      /\ totalLocked' \in Nat
      /\ escrow' \in Nat
  BY DEF Unlock, CanUnlock, PushUSDY, LockerTypeOK
<1> QED
  BY <1>1 DEF Unlock, LockerTypeOK

LEMMA LockerStepType == LockerTypeOK /\ [LockerNext]_lockerVars => LockerTypeOK'
<1> SUFFICES ASSUME LockerTypeOK, [LockerNext]_lockerVars
             PROVE  LockerTypeOK'
  OBVIOUS
<1>1. ASSUME NEW u \in Users, NEW a \in Amounts, NEW d \in Deadlines, Lock(u, a, d)
      PROVE  LockerTypeOK'
  BY <1>1, LockType
<1>2. ASSUME NEW c \in Admins, NEW u \in Users, NEW a \in Amounts,
             NEW id \in lockerConsumed, Unlock(c, u, a, id)
      PROVE  LockerTypeOK'
  BY <1>2, UnlockType, LockerAssumption DEF LockerTypeOK
<1>3. ASSUME NEW c \in Admins, NEW n \in Admins, SetAdmin(c, n)
      PROVE  LockerTypeOK'
  BY <1>3 DEF SetAdmin, LockerTypeOK
<1>4. ASSUME NEW c \in Admins, Pause(c) \/ Unpause(c)
      PROVE  LockerTypeOK'
  BY <1>4 DEF Pause, Unpause, LockerTypeOK
<1>5. ASSUME NEW u \in Users, NEW a \in Amounts, DirectTransfer(u, a)
      PROVE  LockerTypeOK'
  <2> a \in Nat
    BY LockerAssumption
  <2> QED
    BY <1>5 DEF DirectTransfer, PullUSDY, LockerTypeOK
<1>6. CASE UNCHANGED lockerVars
  BY <1>6 DEF lockerVars, LockerTypeOK
<1> QED
  BY <1>1, <1>2, <1>3, <1>4, <1>5, <1>6 DEF LockerNext

(* Every state of the escrow contract is well typed, so no checked          *)
(* subtraction ever leaves a negative balance behind.                       *)
THEOREM LockerTypeCorrect == LockerSpec => []LockerTypeOK
BY LockerInitType, LockerStepType, PTL DEF LockerSpec

-----------------------------------------------------------------------------
(* FreshLockIds is not inductive: an id with a later nonce could already be *)
(* issued.  The strengthening bounds the nonces of all issued ids.          *)
NoncesSpent == \A id \in lockerConsumed : id.nonce < userNonce[id.borrower]

LEMMA SpentImpliesFresh == LockerTypeOK /\ NoncesSpent => FreshLockIds
BY DEF LockerTypeOK, NoncesSpent, FreshLockIds, LockIdOf

LEMMA NoncesStep ==
  LockerTypeOK /\ NoncesSpent /\ [LockerNext]_lockerVars => NoncesSpent'
<1> SUFFICES ASSUME LockerTypeOK, NoncesSpent, [LockerNext]_lockerVars
             PROVE  NoncesSpent'
  OBVIOUS
<1>1. ASSUME NEW u \in Users, NEW a \in Amounts, NEW d \in Deadlines, Lock(u, a, d)
      PROVE  NoncesSpent'
  <2> SUFFICES ASSUME NEW id \in lockerConsumed'
               PROVE  id.nonce < userNonce'[id.borrower]
    BY DEF NoncesSpent
  <2>1. userNonce' = [userNonce EXCEPT ![u] = @ + 1]
    BY <1>1 DEF Lock
  <2>2. CASE id = LockIdOf(u, a, d)
    BY <2>1, <2>2, LockerAssumption DEF LockIdOf, LockerTypeOK
  <2>3. CASE id \in lockerConsumed
    <3>1. id \in LockIds /\ id.nonce < userNonce[id.borrower]
      BY <2>3 DEF NoncesSpent, LockerTypeOK
    <3> QED
      BY <2>1, <3>1, LockerAssumption DEF LockIds, LockerTypeOK
  <2> QED
    BY <1>1, <2>2, <2>3 DEF Lock
<1>2. CASE UNCHANGED <<lockerConsumed, userNonce>>
  BY <1>2 DEF NoncesSpent
<1> QED
  BY <1>1, <1>2 DEF LockerNext, lockerVars, Unlock, SetAdmin, Pause, Unpause, DirectTransfer

(* For every caller, amount and deadline, the id lock() would compute next  *)
(* was never issued: DuplicateLockId is unreachable.                        *)
THEOREM LockIdsAreFresh == LockerSpec => []FreshLockIds
<1>1. LockerInit => NoncesSpent
  BY DEF LockerInit, NoncesSpent
<1> QED
  BY <1>1, LockerTypeCorrect, NoncesStep, SpentImpliesFresh, PTL DEF LockerSpec

-----------------------------------------------------------------------------
LEMMA WholeStep ==
  LockerTypeOK /\ UserWhole /\ [LockerNext]_lockerVars => UserWhole'
<1> SUFFICES ASSUME LockerTypeOK, UserWhole, [LockerNext]_lockerVars,
                    NEW v \in Users
             PROVE  usdy'[v] + lockedBalance'[v] + donated'[v] = InitialUSDY
  BY DEF UserWhole
<1> usdy[v] + lockedBalance[v] + donated[v] = InitialUSDY
  BY DEF UserWhole
<1>1. ASSUME NEW u \in Users, NEW a \in Amounts, NEW d \in Deadlines, Lock(u, a, d)
      PROVE  usdy'[v] + lockedBalance'[v] + donated'[v] = InitialUSDY
  BY <1>1, LockerAssumption DEF Lock, PullUSDY, LockerTypeOK
<1>2. ASSUME NEW c \in Admins, NEW u \in Users, NEW a \in Amounts,
             NEW id \in lockerConsumed, Unlock(c, u, a, id)
      PROVE  usdy'[v] + lockedBalance'[v] + donated'[v] = InitialUSDY
  BY <1>2, LockerAssumption DEF Unlock, PushUSDY, LockerTypeOK
<1>3. ASSUME NEW u \in Users, NEW a \in Amounts, DirectTransfer(u, a)
      PROVE  usdy'[v] + lockedBalance'[v] + donated'[v] = InitialUSDY
  BY <1>3, LockerAssumption DEF DirectTransfer, PullUSDY, LockerTypeOK
<1>4. CASE UNCHANGED <<usdy, lockedBalance, donated>>
  BY <1>4
<1> QED
  BY <1>1, <1>2, <1>3, <1>4 DEF LockerNext, lockerVars, SetAdmin, Pause, Unpause

(* No admin, whatever it unlocks, to whom, and in what order, can make any  *)
(* user better or worse off: USDY held, locked and given away add up to     *)
(* what the user started with.                                              *)
THEOREM UsersStayWhole == LockerSpec => []UserWhole
<1>1. LockerInit => UserWhole
  BY LockerAssumption DEF LockerInit, UserWhole
<1> QED
  BY <1>1, LockerTypeCorrect, WholeStep, PTL DEF LockerSpec

-----------------------------------------------------------------------------
LEMMA BooksInit == LockerInit => BooksBalance
<1> SUFFICES ASSUME LockerInit PROVE BooksBalance
  OBVIOUS
<1>1. SumFunction(lockedBalance) = 0 /\ SumFunction(donated) = 0
  BY SumOfZeros, LockerAssumption DEF LockerInit
<1> QED
  BY <1>1 DEF LockerInit, BooksBalance

LEMMA BooksStep == LockerTypeOK /\ BooksBalance /\ [LockerNext]_lockerVars => BooksBalance'
<1> SUFFICES ASSUME LockerTypeOK, BooksBalance, [LockerNext]_lockerVars
             PROVE  BooksBalance'
  OBVIOUS
<1>1. /\ lockedBalance \in [Users -> Nat] /\ donated \in [Users -> Nat]
      /\ totalLocked \in Nat /\ escrow \in Nat
  BY DEF LockerTypeOK
<1>2. SumFunction(lockedBalance) \in Nat /\ SumFunction(donated) \in Nat
  BY <1>1, SumIsNat, LockerAssumption
<1>3. ASSUME NEW u \in Users, NEW a \in Amounts, NEW d \in Deadlines, Lock(u, a, d)
      PROVE  BooksBalance'
  <2>1. a \in Nat /\ lockedBalance[u] + a \in Nat /\ lockedBalance[u] \in Nat
    BY <1>1, LockerAssumption
  <2>2. lockedBalance' = [lockedBalance EXCEPT ![u] = lockedBalance[u] + a]
    BY <1>3 DEF Lock
  <2>3. SumFunction(lockedBalance')
          = SumFunction(lockedBalance) - lockedBalance[u] + (lockedBalance[u] + a)
    BY <1>1, <2>1, <2>2, SumWithAnother, LockerAssumption
  <2>4. totalLocked' = totalLocked + a /\ escrow' = escrow + a /\ donated' = donated
    BY <1>3 DEF Lock, PullUSDY
  <2> QED
    BY <1>1, <1>2, <2>1, <2>3, <2>4 DEF BooksBalance
<1>4. ASSUME NEW c, NEW u \in Users, NEW a \in Amounts, NEW id, Unlock(c, u, a, id)
      PROVE  BooksBalance'
  <2>1. a \in Nat /\ lockedBalance[u] \in Nat /\ lockedBalance[u] - a \in Nat
    BY <1>1, <1>4, LockerAssumption DEF Unlock, CanUnlock
  <2>2. lockedBalance' = [lockedBalance EXCEPT ![u] = lockedBalance[u] - a]
    BY <1>4 DEF Unlock
  <2>3. SumFunction(lockedBalance')
          = SumFunction(lockedBalance) - lockedBalance[u] + (lockedBalance[u] - a)
    BY <1>1, <2>1, <2>2, SumWithAnother, LockerAssumption
  <2>4. totalLocked' = totalLocked - a /\ escrow' = escrow - a /\ donated' = donated
    BY <1>4 DEF Unlock, PushUSDY
  <2> QED
    BY <1>1, <1>2, <2>1, <2>3, <2>4 DEF BooksBalance
<1>5. ASSUME NEW u \in Users, NEW a \in Amounts, DirectTransfer(u, a)
      PROVE  BooksBalance'
  <2>1. a \in Nat /\ donated[u] \in Nat /\ donated[u] + a \in Nat
    BY <1>1, LockerAssumption
  <2>2. donated' = [donated EXCEPT ![u] = donated[u] + a]
    BY <1>5 DEF DirectTransfer
  <2>3. SumFunction(donated') = SumFunction(donated) - donated[u] + (donated[u] + a)
    BY <1>1, <2>1, <2>2, SumWithAnother, LockerAssumption
  <2>4. /\ totalLocked' = totalLocked /\ lockedBalance' = lockedBalance
        /\ escrow' = escrow + a
    BY <1>5 DEF DirectTransfer, PullUSDY
  <2> QED
    BY <1>1, <1>2, <2>1, <2>3, <2>4 DEF BooksBalance
<1>6. CASE UNCHANGED <<totalLocked, lockedBalance, escrow, donated>>
  BY <1>6 DEF BooksBalance
<1> QED
  BY <1>3, <1>4, <1>5, <1>6 DEF LockerNext, lockerVars, SetAdmin, Pause, Unpause

(* Total, balances and token agree through every sequence of locks, partial *)
(* unlocks and transfers past lock(), so that no user's unlock can underflow *)
(* the total or find the escrow short of what the balances promise.         *)
THEOREM BooksAlwaysBalance == LockerSpec => []BooksBalance
BY BooksInit, LockerTypeCorrect, BooksStep, PTL DEF LockerSpec

=============================================================================
