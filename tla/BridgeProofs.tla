----------------------------- MODULE BridgeProofs -----------------------------
(***************************************************************************)
(* The bridge for every set of users, locks and accounts, any number of    *)
(* reconciler runs and a host clock that is ahead by any amount.           *)
(***************************************************************************)
EXTENDS Bridge, CollateralLockerProofs, ReceiptProofs

LEMMA BridgeInitType == BridgeInit => BridgeTypeOK
<1> SUFFICES ASSUME BridgeInit PROVE BridgeTypeOK
  OBVIOUS
<1>1. LockerTypeOK /\ ReceiverTypeOK
  BY LockerInitType, ReceiverInitType DEF BridgeInit
<1>2. runs \in 0..MaxRuns
  BY BridgeAssumption DEF BridgeInit
<1>3. dryRun \in BOOLEAN
  BY DEF BridgeInit
<1> QED
  BY <1>1, <1>2, <1>3 DEF BridgeInit, BridgeTypeOK, Phases

LEMMA LockerStutterType ==
  ASSUME LockerTypeOK, UNCHANGED lockerVars PROVE LockerTypeOK'
BY DEF LockerTypeOK, lockerVars

LEMMA ReceiverStutterType ==
  ASSUME ReceiverTypeOK, UNCHANGED <<receiverVars, tokenVars, clock>>
  PROVE  ReceiverTypeOK'
BY DEF ReceiverTypeOK, TokenTypeOK, receiverVars, tokenVars

LEMMA ChainStutterType ==
  ASSUME LockerTypeOK, ReceiverTypeOK, UNCHANGED chainVars
  PROVE  LockerTypeOK' /\ ReceiverTypeOK'
BY LockerStutterType, ReceiverStutterType DEF chainVars

LEMMA MessageOfType ==
  ASSUME NEW l \in LockIds PROVE MessageOf(l) \in Messages
<1>1. /\ l.borrower \in Users /\ l.amount \in Amounts
      /\ l.validUntil \in Deadlines
  BY DEF LockIds
<1> QED
  BY <1>1, BridgeAssumption DEF MessageOf, Messages

(* What the steps of the chains and the relayer keep. *)
LEMMA EnvironmentType ==
  ASSUME BridgeTypeOK,
         \/ UserLocks \/ PauseSwitch \/ Configure \/ TimePasses
         \/ \E l \in lockerConsumed : RelayMint(l)
         \/ \E t \in inFlight : MineUnlock(t)
  PROVE  BridgeTypeOK'
<1> USE DEF recVars
<1>0. LockerTypeOK /\ ReceiverTypeOK
  BY DEF BridgeTypeOK
<1>1. CASE UserLocks
  <2>1. LockerTypeOK'
    BY <1>0, <1>1, LockType DEF UserLocks
  <2>2. ReceiverTypeOK'
    BY <1>0, <1>1, ReceiverStutterType DEF UserLocks
  <2> QED
    BY <1>1, <2>1, <2>2 DEF UserLocks, BridgeTypeOK
<1>2. CASE PauseSwitch
  <2>1. LockerTypeOK'
    BY <1>0, <1>2 DEF PauseSwitch, Pause, Unpause, LockerTypeOK
  <2>2. ReceiverTypeOK'
    BY <1>0, <1>2, ReceiverStutterType DEF PauseSwitch
  <2> QED
    BY <1>2, <2>1, <2>2 DEF PauseSwitch, BridgeTypeOK
<1>3. CASE Configure
  <2>1. LockerTypeOK'
    BY <1>0, <1>3, LockerStutterType DEF Configure
  <2>2. ReceiverTypeOK'
    BY <1>0, <1>3, SourceListingType, BridgeAssumption DEF Configure
  <2> QED
    BY <1>3, <2>1, <2>2 DEF Configure, BridgeTypeOK
<1>4. CASE TimePasses
  <2>1. LockerTypeOK'
    BY <1>0, <1>4, LockerStutterType DEF TimePasses
  <2>2. ReceiverTypeOK'
    BY <1>0, <1>4, TickType DEF TimePasses
  <2> QED
    BY <1>4, <2>1, <2>2 DEF TimePasses, BridgeTypeOK
<1>5. ASSUME NEW l \in lockerConsumed, RelayMint(l)
      PROVE  BridgeTypeOK'
  <2>1. LockerTypeOK'
    BY <1>0, <1>5, LockerStutterType DEF RelayMint
  <2>2. MessageOf(l) \in Messages
    BY <1>0, MessageOfType DEF LockerTypeOK
  <2>3. ReceiverTypeOK'
    BY <1>0, <1>5, <2>2, AttestedMintType, ReceiverAssumption DEF RelayMint
  <2>4. mintedLate' \in {mintedLate, mintedLate \cup {l}} /\ l \in LockIds
    BY <1>0, <1>5 DEF RelayMint, LockerTypeOK
  <2>5. mintedLate' \subseteq LockIds
    BY <2>4 DEF BridgeTypeOK
  <2> QED
    BY <1>5, <2>1, <2>3, <2>5 DEF RelayMint, BridgeTypeOK
<1>6. ASSUME NEW t \in inFlight, MineUnlock(t)
      PROVE  BridgeTypeOK'
  <2>1. t.lock \in LockIds /\ t.lock.borrower \in Users /\ t.lock.amount \in Nat
    BY LockerAssumption DEF BridgeTypeOK, Transactions, LockIds
  <2>2. LockerTypeOK'
    BY <1>0, <1>6, <2>1, UnlockType, LockerStutterType DEF MineUnlock
  <2>3. ReceiverTypeOK'
    BY <1>0, <1>6, ReceiverStutterType DEF MineUnlock
  <2> QED
    BY <1>6, <2>2, <2>3 DEF MineUnlock, BridgeTypeOK
<1> QED
  BY <1>1, <1>2, <1>3, <1>4, <1>5, <1>6

LEMMA ReconcileType ==
  ASSUME BridgeTypeOK, Reconcile PROVE BridgeTypeOK'
<1>0. LockerTypeOK /\ ReceiverTypeOK
  BY DEF BridgeTypeOK
<1>1. UNCHANGED chainVars
  BY DEF Reconcile, ScanLockedEvents, ReadClock, CheckLock, CheckFails,
         StartUnlocking, SendUnlock, SendFails, UnlockMined, Finish, Interrupt, EndRun
<1>2. LockerTypeOK' /\ ReceiverTypeOK'
  BY <1>0, <1>1, ChainStutterType
<1>3. CASE ScanLockedEvents
  <2>1. runs' \in 0..MaxRuns /\ dryRun' \in BOOLEAN
    BY <1>3, BridgeAssumption DEF ScanLockedEvents, BridgeTypeOK
  <2>2. unchecked' \subseteq LockIds
    BY <1>0, <1>3 DEF ScanLockedEvents, LockerTypeOK
  <2> QED
    BY <1>2, <1>3, <2>1, <2>2 DEF ScanLockedEvents, BridgeTypeOK, Phases
<1>4. CASE ReadClock
  <2>1. now' \in Nat
    BY <1>0, <1>4, BridgeAssumption, ReceiverAssumption DEF ReadClock, ReceiverTypeOK
  <2> QED
    BY <1>2, <1>4, <2>1 DEF ReadClock, BridgeTypeOK, Phases
<1>5. ASSUME NEW l \in unchecked, CheckLock(l) \/ CheckFails(l)
      PROVE  BridgeTypeOK'
  BY <1>2, <1>5 DEF CheckLock, CheckFails, BridgeTypeOK
<1>6. CASE StartUnlocking
  BY <1>2, <1>6 DEF StartUnlocking, BridgeTypeOK, Phases
<1>7. ASSUME NEW l \in orphans, SendUnlock(l)
      PROVE  BridgeTypeOK'
  <2>1. l \in LockIds /\ runs \in 0..MaxRuns
    BY DEF BridgeTypeOK
  <2> QED
    BY <1>2, <1>7, <2>1 DEF SendUnlock, BridgeTypeOK, Transactions
<1>8. ASSUME NEW l \in orphans, SendFails(l)
      PROVE  BridgeTypeOK'
  BY <1>2, <1>8 DEF SendFails, BridgeTypeOK
<1>9. CASE UnlockMined
  BY <1>2, <1>9 DEF UnlockMined, BridgeTypeOK
<1>10. CASE Finish \/ Interrupt
  BY <1>2, <1>10 DEF Finish, Interrupt, EndRun, BridgeTypeOK, Phases
<1> QED
  BY <1>3, <1>4, <1>5, <1>6, <1>7, <1>8, <1>9, <1>10 DEF Reconcile

LEMMA BridgeStepType == BridgeTypeOK /\ [BridgeNext]_bridgeVars => BridgeTypeOK'
<1>1. ASSUME BridgeTypeOK, UNCHANGED bridgeVars
      PROVE  BridgeTypeOK'
  <2>1. LockerTypeOK' /\ ReceiverTypeOK'
    BY <1>1, ChainStutterType DEF BridgeTypeOK, bridgeVars
  <2> QED
    BY <1>1, <2>1 DEF BridgeTypeOK, bridgeVars, recVars
<1> QED
  BY <1>1, EnvironmentType, ReconcileType DEF BridgeNext

(* Every state of the composed bridge is well typed. *)
THEOREM BridgeTypeCorrect == BridgeSpec => []BridgeTypeOK
BY BridgeInitType, BridgeStepType, PTL DEF BridgeSpec

-----------------------------------------------------------------------------
(* A lock whose time to be minted safely is over: within HostLead of its    *)
(* deadline or past it, and not minted unless it was late.  No step ends    *)
(* this, and ReleasedNeverMinted becomes inductive when every lock on its   *)
(* way to being returned is one: the orphans found, the transactions in the *)
(* mempool and the locks already returned.                                  *)
Forfeit(l) ==
  /\ l.validUntil < clock + HostLead
  /\ l \in receiverConsumed => l \in mintedLate

Returning == orphans \cup {t.lock : t \in inFlight} \cup released

ReturnInv ==
  /\ phase \in {"checking", "unlocking"} => now <= clock + HostLead
  /\ \A l \in Returning : Forfeit(l)

LEMMA Times ==
  ASSUME BridgeTypeOK, NEW l \in LockIds
  PROVE  l.validUntil \in Nat /\ now \in Nat /\ clock \in Nat /\ HostLead \in Nat
<1>1. l.validUntil \in Deadlines
  BY DEF LockIds
<1>2. clock \in 0..MaxClock /\ now \in Nat
  BY DEF BridgeTypeOK, ReceiverTypeOK
<1>3. l.validUntil \in Nat
  BY <1>1, LockerAssumption
<1>4. clock \in Nat
  BY <1>2, ReceiverAssumption
<1> QED
  BY <1>2, <1>3, <1>4, BridgeAssumption

LEMMA ForfeitStays ==
  ASSUME BridgeTypeOK, [BridgeNext]_bridgeVars, NEW l \in LockIds, Forfeit(l)
  PROVE  Forfeit(l)'
<1> l.validUntil \in Nat /\ clock \in Nat /\ HostLead \in Nat
  BY Times
<1>1. ASSUME NEW m \in lockerConsumed, RelayMint(m)
      PROVE  Forfeit(l)'
  <2>1. /\ receiverConsumed' = receiverConsumed \cup {m}
        /\ clock' = clock
        /\ mintedLate' = IF clock + HostLead > m.validUntil
                         THEN mintedLate \cup {m}
                         ELSE mintedLate
    BY <1>1 DEF RelayMint, MintWithAttestation, MessageOf
  <2>2. CASE m = l
    BY <2>1, <2>2 DEF Forfeit
  <2>3. CASE m # l
    BY <2>1, <2>3 DEF Forfeit
  <2> QED
    BY <2>2, <2>3
<1>2. CASE TimePasses
  BY <1>2 DEF TimePasses, Tick, receiverVars, Forfeit
<1>3. CASE UNCHANGED <<receiverConsumed, clock, mintedLate>>
  BY <1>3 DEF Forfeit
<1>4. ASSUME NEW t \in inFlight, MineUnlock(t)
      PROVE  UNCHANGED <<receiverConsumed, clock, mintedLate>>
  BY <1>4 DEF MineUnlock, receiverVars
<1>5. CASE Reconcile
  BY <1>3, <1>5
  DEF Reconcile, ScanLockedEvents, ReadClock, CheckLock, CheckFails, StartUnlocking,
      SendUnlock, SendFails, UnlockMined, Finish, Interrupt, EndRun, chainVars, receiverVars
<1>6. CASE UserLocks \/ PauseSwitch \/ Configure \/ UNCHANGED bridgeVars
  BY <1>3, <1>6
  DEF UserLocks, PauseSwitch, Configure, SetLocker, bridgeVars, chainVars, receiverVars
<1> QED
  BY <1>1, <1>2, <1>3, <1>4, <1>5, <1>6 DEF BridgeNext

(* A step adds at most forfeit locks to the ones being returned. *)
LEMMA ReturningForfeit ==
  ASSUME BridgeTypeOK, ReturnInv, [BridgeNext]_bridgeVars,
         NEW l \in Returning'
  PROVE  l \in LockIds /\ Forfeit(l)
<1>0. Returning \subseteq LockIds
  BY DEF Returning, BridgeTypeOK, LockerTypeOK, Transactions
<1>1. CASE l \in Returning
  BY <1>0, <1>1 DEF ReturnInv
<1>2. ASSUME NEW m \in unchecked, CheckLock(m), l \notin Returning
      PROVE  l \in LockIds /\ Forfeit(l)
  <2>1. l = m /\ m \notin receiverConsumed /\ m.validUntil < now
    BY <1>2 DEF CheckLock, chainVars, lockerVars, Returning, IsExpired
  <2>2. m \in LockIds
    BY DEF BridgeTypeOK
  <2>3. now <= clock + HostLead
    BY <1>2 DEF CheckLock, ReturnInv
  <2> QED
    BY <2>1, <2>2, <2>3, Times DEF Forfeit
<1>3. ASSUME NEW t \in inFlight, MineUnlock(t)
      PROVE  Returning' \subseteq Returning
  BY <1>3 DEF MineUnlock, Unlock, lockerVars, recVars, Returning
<1>4. ASSUME NEW m \in orphans, SendUnlock(m)
      PROVE  Returning' \subseteq Returning
  BY <1>4 DEF SendUnlock, chainVars, lockerVars, Returning
<1>5. ASSUME \/ ScanLockedEvents \/ ReadClock \/ StartUnlocking \/ UnlockMined
             \/ Finish \/ Interrupt
             \/ \E m \in unchecked : CheckFails(m)
             \/ \E m \in orphans : SendFails(m)
      PROVE  Returning' \subseteq Returning
  BY <1>5
  DEF ScanLockedEvents, ReadClock, CheckFails, StartUnlocking, SendFails,
      UnlockMined, Finish, Interrupt, EndRun, chainVars, lockerVars, Returning
<1>6. ASSUME \/ UserLocks \/ PauseSwitch \/ Configure \/ TimePasses
             \/ \E m \in lockerConsumed : RelayMint(m)
             \/ UNCHANGED bridgeVars
      PROVE  Returning' \subseteq Returning
  BY <1>6
  DEF UserLocks, Lock, PauseSwitch, Pause, Unpause, Configure, TimePasses, RelayMint,
      bridgeVars, chainVars, lockerVars, recVars, Returning
<1> QED
  BY <1>1, <1>2, <1>3, <1>4, <1>5, <1>6 DEF BridgeNext, Reconcile

LEMMA ClockReadOnce ==
  ASSUME BridgeTypeOK, ReturnInv, [BridgeNext]_bridgeVars,
         phase' \in {"checking", "unlocking"}
  PROVE  now' <= clock' + HostLead
<1> now \in Nat /\ clock \in Nat /\ HostLead \in Nat
  BY ReceiverAssumption, BridgeAssumption DEF BridgeTypeOK, ReceiverTypeOK
<1>1. CASE ReadClock
  BY <1>1 DEF ReadClock, chainVars
<1>2. CASE TimePasses
  BY <1>2 DEF TimePasses, Tick, recVars, ReturnInv
<1>3. CASE UNCHANGED <<now, clock>> /\ phase \in {"checking", "unlocking"}
  BY <1>3 DEF ReturnInv
<1>4. CASE Reconcile
  BY <1>1, <1>3, <1>4
  DEF Reconcile, ScanLockedEvents, CheckLock, CheckFails, StartUnlocking, SendUnlock,
      SendFails, UnlockMined, Finish, Interrupt, EndRun, chainVars
<1>5. ASSUME NEW m \in lockerConsumed, RelayMint(m)
      PROVE  UNCHANGED <<now, clock, phase>>
  BY <1>5 DEF RelayMint, MintWithAttestation, recVars
<1>6. ASSUME NEW t \in inFlight, MineUnlock(t)
      PROVE  UNCHANGED <<now, clock, phase>>
  BY <1>6 DEF MineUnlock, recVars
<1>7. CASE UserLocks \/ PauseSwitch \/ Configure \/ UNCHANGED bridgeVars
  BY <1>3, <1>7
  DEF UserLocks, PauseSwitch, Configure, SetLocker, bridgeVars, chainVars, recVars
<1> QED
  BY <1>2, <1>3, <1>4, <1>5, <1>6, <1>7 DEF BridgeNext

LEMMA ReturnInvStep ==
  ASSUME BridgeTypeOK, ReturnInv, [BridgeNext]_bridgeVars
  PROVE  ReturnInv'
<1>1. \A l \in Returning' : Forfeit(l)'
  BY ReturningForfeit, ForfeitStays
<1> QED
  BY <1>1, ClockReadOnce DEF ReturnInv

LEMMA ReturnInvariant == BridgeSpec => []ReturnInv
<1>1. BridgeInit => ReturnInv
  BY DEF BridgeInit, LockerInit, ReturnInv, Returning
<1>2. BridgeTypeOK /\ ReturnInv /\ [BridgeNext]_bridgeVars => ReturnInv'
  BY ReturnInvStep
<1> QED
  BY <1>1, <1>2, BridgeTypeCorrect, PTL DEF BridgeSpec

(* However far ahead the host's clock is, a lock minted HostLead or more    *)
(* before its deadline is never returned, and one that was returned is only *)
(* ever minted in the last HostLead before it; for any number of users,     *)
(* locks, interrupted runs and delayed transactions.                        *)
THEOREM NeverBoth == BridgeSpec => []ReleasedNeverMinted
<1>1. ReturnInv => ReleasedNeverMinted
  BY DEF ReturnInv, Returning, Forfeit, ReleasedNeverMinted
<1> QED
  BY <1>1, ReturnInvariant, PTL

-----------------------------------------------------------------------------
(* The refinement needs one more fact: what the reconciler handles was      *)
(* issued by the locker.                                                    *)
KnownInv == unchecked \cup Returning \subseteq lockerConsumed

LEMMA KnownStep ==
  ASSUME KnownInv, [BridgeNext]_bridgeVars PROVE KnownInv'
<1>1. CASE UserLocks \/ PauseSwitch \/ Configure \/ TimePasses \/ UNCHANGED bridgeVars
  BY <1>1
  DEF UserLocks, Lock, PauseSwitch, Pause, Unpause, Configure, TimePasses,
      bridgeVars, chainVars, lockerVars, recVars, Returning, KnownInv
<1>2. ASSUME NEW m \in lockerConsumed, RelayMint(m)
      PROVE  KnownInv'
  BY <1>2 DEF RelayMint, lockerVars, recVars, Returning, KnownInv
<1>3. ASSUME NEW t \in inFlight, MineUnlock(t)
      PROVE  KnownInv'
  BY <1>3 DEF MineUnlock, Unlock, lockerVars, recVars, Returning, KnownInv
<1>4. CASE \/ ScanLockedEvents \/ ReadClock \/ StartUnlocking \/ UnlockMined
           \/ Finish \/ Interrupt
           \/ \E m \in unchecked : CheckLock(m) \/ CheckFails(m)
  BY <1>4
  DEF ScanLockedEvents, ReadClock, CheckLock, CheckFails, StartUnlocking, UnlockMined,
      Finish, Interrupt, EndRun, chainVars, lockerVars, Returning, KnownInv
<1>5. ASSUME NEW m \in orphans, SendUnlock(m) \/ SendFails(m)
      PROVE  KnownInv'
  BY <1>5 DEF SendUnlock, SendFails, chainVars, lockerVars, Returning, KnownInv
<1> QED
  BY <1>1, <1>2, <1>3, <1>4, <1>5 DEF BridgeNext, Reconcile

LEMMA LifecycleStep ==
  ASSUME BridgeTypeOK, ReturnInv, KnownInv, [BridgeNext]_bridgeVars
  PROVE  [Lifecycle!Next]_(Lifecycle!lifecycleVars)
<1> USE DEF Lifecycle!Next, Lifecycle!lifecycleVars
<1> DEFINE deadline == [l \in LockIds |-> l.validUntil]
<1>0. \A l \in LockIds : deadline[l] = l.validUntil
  OBVIOUS
<1>1. CASE UserLocks
  <2>1. PICK u \in Users, a \in Amounts, d \in Deadlines : Lock(u, a, d)
    BY <1>1 DEF UserLocks
  <2>2. LockIdOf(u, a, d) \in LockIds
    BY <2>1 DEF BridgeTypeOK, LockerTypeOK, LockIdOf, LockIds
  <2>3. Lifecycle!Issue(LockIdOf(u, a, d))
    BY <1>1, <2>1 DEF Lock, UserLocks, receiverVars, Lifecycle!Issue
  <2> QED
    BY <2>2, <2>3
<1>2. ASSUME NEW m \in lockerConsumed, RelayMint(m)
      PROVE  Lifecycle!Next
  <2>1. /\ receiverConsumed' = receiverConsumed \cup {m}
        /\ m \notin receiverConsumed
        /\ clock <= m.validUntil
        /\ clock' = clock
        /\ mintedLate' = IF clock + HostLead > m.validUntil
                         THEN mintedLate \cup {m}
                         ELSE mintedLate
    BY <1>2 DEF RelayMint, MintWithAttestation, Mintable, MessageOf
  <2>2. m \in LockIds /\ UNCHANGED <<lockerConsumed, released>>
    BY <1>2 DEF BridgeTypeOK, LockerTypeOK, RelayMint, lockerVars
  <2>3. deadline[m] = m.validUntil
    BY <1>0, <2>2
  <2>4. CASE clock + HostLead > m.validUntil
    <3>1. Lifecycle!MintLate(m)
      BY <2>1, <2>2, <2>3, <2>4 DEF Lifecycle!MintLate, Lifecycle!Late
    <3> QED
      BY <2>2, <3>1
  <2>5. CASE ~(clock + HostLead > m.validUntil)
    <3>1. m \notin released
      BY <2>2, <2>5, Times DEF ReturnInv, Returning, Forfeit
    <3>2. Lifecycle!MintOnTime(m)
      BY <2>1, <2>2, <2>3, <2>5, <3>1 DEF Lifecycle!MintOnTime, Lifecycle!Late
    <3> QED
      BY <2>2, <3>2
  <2> QED
    BY <2>4, <2>5
<1>3. ASSUME NEW t \in inFlight, MineUnlock(t)
      PROVE  [Lifecycle!Next]_(Lifecycle!lifecycleVars)
  <2> DEFINE l == t.lock
  <2>1. l \in lockerConsumed /\ l \in LockIds /\ Forfeit(l)
    BY DEF KnownInv, ReturnInv, Returning, BridgeTypeOK, Transactions
  <2>2. UNCHANGED <<lockerConsumed, receiverConsumed, clock, mintedLate>>
    BY <1>3 DEF MineUnlock, Unlock, lockerVars, receiverVars
  <2>3. released' \in {released, released \cup {l}}
    BY <1>3 DEF MineUnlock, Unlock, lockerVars
  <2> HIDE DEF l
  <2>4. CASE l \in released \/ released' = released
    BY <2>2, <2>3, <2>4
  <2>5. CASE l \notin released /\ released' = released \cup {l}
    <3>1. Lifecycle!Late(l)
      BY <1>0, <2>1, Times DEF Forfeit, Lifecycle!Late
    <3>2. Lifecycle!Return(l)
      BY <2>1, <2>2, <2>5, <3>1 DEF Forfeit, Lifecycle!Return
    <3> QED
      BY <2>1, <3>2
  <2> QED
    BY <2>3, <2>4, <2>5
<1>4. CASE PauseSwitch \/ Configure \/ UNCHANGED bridgeVars
  BY <1>4
  DEF PauseSwitch, Pause, Unpause, Configure, SetLocker,
      bridgeVars, chainVars, lockerVars, receiverVars
<1>6. CASE TimePasses
  <2>1. clock \in Nat
    BY ReceiverAssumption DEF BridgeTypeOK, ReceiverTypeOK
  <2>2. Lifecycle!Pass
    BY <1>6, <2>1 DEF TimePasses, Tick, lockerVars, receiverVars, Lifecycle!Pass
  <2> QED
    BY <2>2
<1>5. CASE Reconcile
  BY <1>5
  DEF Reconcile, ScanLockedEvents, ReadClock, CheckLock, CheckFails, StartUnlocking,
      SendUnlock, SendFails, UnlockMined, Finish, Interrupt, EndRun,
      chainVars, lockerVars, receiverVars
<1> QED
  BY <1>1, <1>2, <1>3, <1>4, <1>5, <1>6 DEF BridgeNext

(* The composed bridge implements the life cycle of locks: each one issued  *)
(* once, then minted in time or returned and never both, whatever the lead  *)
(* of the host's clock, which is how much earlier than the deadline a lock  *)
(* has to be minted to be in time.                                          *)
THEOREM BridgeImplementsLifecycle == BridgeSpec => ImplementsLifecycle
<1> SUFFICES BridgeSpec => Lifecycle!Spec
  BY DEF ImplementsLifecycle
<1>1. BridgeInit => KnownInv
  BY DEF BridgeInit, LockerInit, KnownInv, Returning
<1>2. KnownInv /\ [BridgeNext]_bridgeVars => KnownInv'
  BY KnownStep
<1>3. BridgeInit => Lifecycle!Init
  BY DEF BridgeInit, LockerInit, ReceiverInit, Lifecycle!Init
<1>4. BridgeTypeOK /\ ReturnInv /\ KnownInv /\ [BridgeNext]_bridgeVars
        => [Lifecycle!Next]_(Lifecycle!lifecycleVars)
  BY LifecycleStep
<1>5. BridgeSpec => []ReturnInv
  BY ReturnInvariant
<1> QED
  BY <1>1, <1>2, <1>3, <1>4, <1>5, BridgeTypeCorrect, PTL DEF BridgeSpec, Lifecycle!Spec

-----------------------------------------------------------------------------
(* Receipts and their backing, in sums over locks.  What a user has locked  *)
(* is what the user's locks hold that were not returned, what was minted to *)
(* the user is what the minted ones are worth; during the first run no lock *)
(* is in two of the reconciler's hands.                                     *)

Worth(u) == [l \in LockIds |-> IF l.borrower = u THEN l.amount ELSE 0]
Sent == {t.lock : t \in inFlight}

BackingInv ==
  /\ IsFiniteSet(lockerConsumed)
  /\ receiverConsumed \subseteq lockerConsumed
  /\ \A u \in Users : balanceOf[u] = Total(Worth(u), receiverConsumed)
  /\ \A u \in Users : lockedBalance[u] = Total(Worth(u), lockerConsumed \ released)

HandledOnce ==
  /\ runs = 0 => unchecked = {} /\ orphans = {} /\ inFlight = {} /\ released = {}
  /\ \A s, t \in inFlight : s.lock = t.lock => s = t
  /\ Sent \cap released = {}
  /\ orphans \cap (Sent \cup released) = {}
  /\ unchecked \cap (orphans \cup Sent \cup released) = {}

FirstRunInv == runs <= 1 => BackingInv /\ HandledOnce

LEMMA WorthOf ==
  ASSUME NEW u \in Users
  PROVE  /\ \A l \in LockIds : Worth(u)[l] \in Nat
         /\ \A l \in LockIds : Worth(u)[l] = IF l.borrower = u THEN l.amount ELSE 0
<1>1. \A l \in LockIds : l.amount \in Nat
  BY LockerAssumption DEF LockIds
<1>2. \A l \in LockIds : Worth(u)[l] = IF l.borrower = u THEN l.amount ELSE 0
  BY DEF Worth
<1> QED
  BY <1>1, <1>2

(* Steps that move neither receipts nor collateral.                         *)
LEMMA BackingStays ==
  ASSUME BackingInv,
         UNCHANGED <<lockerConsumed, receiverConsumed, balanceOf, lockedBalance, released>>
  PROVE  BackingInv'
BY DEF BackingInv

LEMMA BackingLocks ==
  ASSUME BridgeTypeOK, KnownInv, BackingInv, UserLocks
  PROVE  BackingInv'
<1>1. PICK v \in Users, a \in Amounts, d \in Deadlines : Lock(v, a, d)
  BY DEF UserLocks
<1> DEFINE id == LockIdOf(v, a, d)
<1>2. /\ id \in LockIds /\ id.borrower = v /\ id.amount = a /\ id \notin lockerConsumed
      /\ lockerConsumed' = lockerConsumed \cup {id}
      /\ lockedBalance' = [lockedBalance EXCEPT ![v] = @ + a]
      /\ released' = released /\ UNCHANGED <<receiverConsumed, balanceOf>>
  BY <1>1 DEF UserLocks, Lock, LockIdOf, LockIds, BridgeTypeOK, LockerTypeOK,
              receiverVars, tokenVars
<1> HIDE DEF id
<1>3. lockerConsumed \subseteq LockIds /\ released \subseteq lockerConsumed /\ id \notin released
  BY <1>2 DEF BridgeTypeOK, LockerTypeOK, KnownInv, Returning
<1>4. IsFiniteSet(lockerConsumed) /\ IsFiniteSet(lockerConsumed \ released)
  BY FS_Subset DEF BackingInv
<1>5. IsFiniteSet(lockerConsumed')
  BY <1>2, <1>4, FS_AddElement
<1>6. lockerConsumed' \ released' = (lockerConsumed \ released) \cup {id}
  BY <1>2, <1>3
<1>7. ASSUME NEW u \in Users
      PROVE  lockedBalance'[u] = Total(Worth(u), lockerConsumed' \ released')
  <2>1. \A y \in (lockerConsumed \ released) \cup {id} : Worth(u)[y] \in Nat
    BY <1>2, <1>3, WorthOf
  <2>2. id \notin lockerConsumed \ released
    BY <1>2
  <2>3. Total(Worth(u), (lockerConsumed \ released) \cup {id})
          = Total(Worth(u), lockerConsumed \ released) + Worth(u)[id]
    BY <1>4, <2>1, <2>2, TotalWithOneMore
  <2>4. lockedBalance[u] = Total(Worth(u), lockerConsumed \ released)
    BY DEF BackingInv
  <2>5. Worth(u)[id] = IF u = v THEN a ELSE 0
    BY <1>2, WorthOf
  <2>6. lockedBalance \in [Users -> Nat] /\ a \in Nat
    BY LockerAssumption DEF BridgeTypeOK, LockerTypeOK
  <2>7. lockedBalance'[u] = lockedBalance[u] + Worth(u)[id]
    BY <1>2, <2>5, <2>6
  <2> QED
    BY <1>6, <2>3, <2>4, <2>7
<1> QED
  BY <1>2, <1>5, <1>7 DEF BackingInv

LEMMA BackingMints ==
  ASSUME BridgeTypeOK, BackingInv, NEW m \in lockerConsumed, RelayMint(m)
  PROVE  BackingInv'
<1>1. /\ m \notin receiverConsumed /\ receiverConsumed' = receiverConsumed \cup {m}
      /\ balanceOf' = [balanceOf EXCEPT ![m.borrower] = @ + m.amount]
      /\ UNCHANGED <<lockerConsumed, lockedBalance, released>>
  BY DEF RelayMint, MintWithAttestation, Mintable, MessageOf, Mint, lockerVars
<1>2. m \in LockIds /\ receiverConsumed \subseteq LockIds /\ IsFiniteSet(receiverConsumed)
  BY FS_Subset DEF BridgeTypeOK, LockerTypeOK, BackingInv
<1>3. ASSUME NEW u \in Users
      PROVE  balanceOf'[u] = Total(Worth(u), receiverConsumed')
  <2>1. \A y \in receiverConsumed \cup {m} : Worth(u)[y] \in Nat
    BY <1>2, WorthOf
  <2>2. Total(Worth(u), receiverConsumed \cup {m}) = Total(Worth(u), receiverConsumed) + Worth(u)[m]
    BY <1>1, <1>2, <2>1, TotalWithOneMore
  <2>3. balanceOf[u] = Total(Worth(u), receiverConsumed)
    BY DEF BackingInv
  <2>4. Worth(u)[m] = IF u = m.borrower THEN m.amount ELSE 0
    BY <1>2, WorthOf
  <2>5. u \in DOMAIN balanceOf /\ balanceOf[u] \in Nat /\ m.amount \in Nat
    BY <1>2, BridgeAssumption, LockerAssumption
       DEF BridgeTypeOK, ReceiverTypeOK, TokenTypeOK, LockIds
  <2>6. balanceOf'[u] = balanceOf[u] + Worth(u)[m]
    BY <1>1, <2>4, <2>5
  <2> QED
    BY <1>1, <2>2, <2>3, <2>6
<1> QED
  BY <1>1, <1>3 DEF BackingInv

(* An unlock that is mined returns a lock that was not returned before.     *)
LEMMA BackingReturns ==
  ASSUME BridgeTypeOK, KnownInv, BackingInv, NEW t \in inFlight, t.lock \notin released,
         MineUnlock(t)
  PROVE  BackingInv'
<1> DEFINE l == t.lock
<1>1. l \in lockerConsumed /\ l \in LockIds
  BY DEF KnownInv, Returning, BridgeTypeOK, LockerTypeOK
<1>2. UNCHANGED <<lockerConsumed, receiverConsumed, balanceOf>>
  BY DEF MineUnlock, Unlock, lockerVars, receiverVars, tokenVars
<1>3. CASE UNCHANGED lockerVars
  BY <1>2, <1>3, BackingStays DEF lockerVars
<1>4. CASE Unlock(lockerAdmin, l.borrower, l.amount, l)
  <2>1. /\ lockedBalance' = [lockedBalance EXCEPT ![l.borrower] = @ - l.amount]
        /\ released' = released \cup {l}
    BY <1>4 DEF Unlock
  <2>2. /\ lockerConsumed \subseteq LockIds /\ IsFiniteSet(lockerConsumed \ released)
        /\ l \in lockerConsumed \ released
    BY <1>1, FS_Subset DEF BridgeTypeOK, LockerTypeOK, BackingInv
  <2>3. lockerConsumed' \ released' = (lockerConsumed \ released) \ {l}
    BY <1>2, <2>1
  <2> HIDE DEF l
  <2>4. ASSUME NEW u \in Users
        PROVE  lockedBalance'[u] = Total(Worth(u), lockerConsumed' \ released')
    <3>1. \A y \in lockerConsumed \ released : Worth(u)[y] \in Nat
      BY <2>2, WorthOf
    <3>2. Total(Worth(u), lockerConsumed \ released)
            = Worth(u)[l] + Total(Worth(u), (lockerConsumed \ released) \ {l})
      BY <2>2, <3>1, TotalTakesAny
    <3>3. Total(Worth(u), (lockerConsumed \ released) \ {l}) \in Nat
      <4>1. IsFiniteSet((lockerConsumed \ released) \ {l})
        BY <2>2, FS_Subset
      <4> QED
        BY <3>1, <4>1, TotalIsNat
    <3>4. lockedBalance[u] = Total(Worth(u), lockerConsumed \ released)
      BY DEF BackingInv
    <3>5. Worth(u)[l] = (IF u = l.borrower THEN l.amount ELSE 0) /\ Worth(u)[l] \in Nat
      BY <1>1, WorthOf
    <3>6. lockedBalance \in [Users -> Nat] /\ l.amount \in Nat
      BY <1>1, LockerAssumption DEF BridgeTypeOK, LockerTypeOK, LockIds
    <3>7. lockedBalance'[u] = lockedBalance[u] - Worth(u)[l]
      BY <2>1, <3>5, <3>6
    <3>8. lockedBalance[u] = Worth(u)[l] + Total(Worth(u), (lockerConsumed \ released) \ {l})
      BY <3>2, <3>4
    <3>9. lockedBalance'[u] = Total(Worth(u), (lockerConsumed \ released) \ {l})
      <4> DEFINE kept == Total(Worth(u), (lockerConsumed \ released) \ {l})
                 share == Worth(u)[l]
      <4>1. kept \in Nat /\ share \in Nat /\ lockedBalance'[u] = (share + kept) - share
        BY <3>3, <3>5, <3>7, <3>8
      <4> HIDE DEF kept, share
      <4>2. lockedBalance'[u] = kept
        BY <4>1
      <4> QED
        BY <4>2 DEF kept
    <3> QED
      BY <2>3, <3>9
  <2> QED
    BY <1>2, <2>4 DEF BackingInv
<1> QED
  BY <1>3, <1>4 DEF MineUnlock

(* The reconciler hands a lock on from step to step and never keeps a copy. *)
LEMMA HandledOnceStays ==
  ASSUME BridgeTypeOK, KnownInv, HandledOnce, [BridgeNext]_bridgeVars, runs' <= 1
  PROVE  HandledOnce'
<1>0. runs \in Nat
  BY BridgeAssumption DEF BridgeTypeOK
<1>1. CASE UserLocks \/ PauseSwitch \/ Configure \/ TimePasses \/ UNCHANGED bridgeVars
  <2>1. UNCHANGED <<unchecked, orphans, inFlight, released, runs>>
    BY <1>1 DEF UserLocks, Lock, PauseSwitch, Pause, Unpause, Configure, TimePasses,
                bridgeVars, chainVars, lockerVars, recVars
  <2> QED
    BY <2>1 DEF HandledOnce, Sent
<1>2. ASSUME NEW m \in lockerConsumed, RelayMint(m)
      PROVE  HandledOnce'
  <2>1. UNCHANGED <<unchecked, orphans, inFlight, released, runs>>
    BY <1>2 DEF RelayMint, lockerVars, recVars
  <2> QED
    BY <2>1 DEF HandledOnce, Sent
<1>3. ASSUME NEW t \in inFlight, MineUnlock(t)
      PROVE  HandledOnce'
  <2>1. /\ UNCHANGED <<unchecked, orphans, runs>> /\ inFlight' = inFlight \ {t}
        /\ released' \in {released, released \cup {t.lock}} /\ runs # 0
    BY <1>3 DEF MineUnlock, Unlock, lockerVars, recVars, HandledOnce
  <2>2. Sent' \subseteq Sent /\ t.lock \in Sent /\ t.lock \notin Sent'
    BY <2>1 DEF HandledOnce, Sent
  <2> QED
    BY <2>1, <2>2 DEF HandledOnce
<1>4. CASE ScanLockedEvents
  <2>1. /\ runs = 0 /\ runs' = 1 /\ UNCHANGED <<orphans, inFlight, released>>
    BY <1>0, <1>4 DEF ScanLockedEvents, chainVars, lockerVars
  <2> QED
    BY <2>1 DEF HandledOnce, Sent
<1>5. CASE ReadClock \/ StartUnlocking \/ UnlockMined
  <2>1. UNCHANGED <<unchecked, orphans, inFlight, released, runs>>
    BY <1>5 DEF ReadClock, StartUnlocking, UnlockMined, chainVars, lockerVars
  <2> QED
    BY <2>1 DEF HandledOnce, Sent
<1>6. ASSUME NEW m \in unchecked, CheckLock(m) \/ CheckFails(m)
      PROVE  HandledOnce'
  <2>1. /\ unchecked' = unchecked \ {m} /\ orphans' \in {orphans, orphans \cup {m}}
        /\ UNCHANGED <<inFlight, released, runs>> /\ runs # 0
    BY <1>6 DEF CheckLock, CheckFails, chainVars, lockerVars, HandledOnce
  <2> QED
    BY <2>1 DEF HandledOnce, Sent
<1>7. ASSUME NEW m \in orphans, SendUnlock(m)
      PROVE  HandledOnce'
  <2> DEFINE t == [lock |-> m, run |-> runs]
  <2>1. /\ orphans' = orphans \ {m} /\ inFlight' = inFlight \cup {t}
        /\ UNCHANGED <<unchecked, released, runs>> /\ runs # 0
    BY <1>7 DEF SendUnlock, chainVars, lockerVars, HandledOnce
  <2>2. t.lock = m
    OBVIOUS
  <2> HIDE DEF t
  <2>3. Sent' = Sent \cup {m} /\ m \notin Sent
    BY <2>1, <2>2 DEF Sent, HandledOnce
  <2>4. \A r, s \in inFlight' : r.lock = s.lock => r = s
    BY <2>1, <2>2, <2>3 DEF Sent, HandledOnce
  <2> QED
    BY <2>1, <2>3, <2>4 DEF HandledOnce
<1>8. ASSUME NEW m \in orphans, SendFails(m)
      PROVE  HandledOnce'
  <2>1. orphans' = orphans \ {m} /\ UNCHANGED <<unchecked, inFlight, released, runs>>
    BY <1>8 DEF SendFails, chainVars, lockerVars
  <2> QED
    BY <2>1 DEF HandledOnce, Sent
<1>9. CASE Finish \/ Interrupt
  <2>1. unchecked' = {} /\ orphans' = {} /\ UNCHANGED <<inFlight, released, runs>>
    BY <1>9 DEF Finish, Interrupt, EndRun, chainVars, lockerVars
  <2> QED
    BY <2>1 DEF HandledOnce, Sent
<1> QED
  BY <1>1, <1>2, <1>3, <1>4, <1>5, <1>6, <1>7, <1>8, <1>9 DEF BridgeNext, Reconcile

LEMMA FirstRunStep ==
  ASSUME BridgeTypeOK, KnownInv, FirstRunInv, [BridgeNext]_bridgeVars
  PROVE  FirstRunInv'
<1> SUFFICES ASSUME runs' <= 1 PROVE BackingInv' /\ HandledOnce'
  BY DEF FirstRunInv
<1>1. runs <= 1
  <2>1. runs \in Nat
    BY BridgeAssumption DEF BridgeTypeOK
  <2>2. runs' \in {runs, runs + 1}
    BY DEF BridgeNext, UserLocks, PauseSwitch, Configure, RelayMint, TimePasses, MineUnlock,
           Reconcile, ScanLockedEvents, ReadClock, CheckLock, CheckFails, StartUnlocking,
           SendUnlock, SendFails, UnlockMined, Finish, Interrupt, EndRun, bridgeVars, recVars
  <2> QED
    BY <2>1, <2>2
<1>2. BackingInv /\ HandledOnce
  BY <1>1 DEF FirstRunInv
<1>3. HandledOnce'
  BY <1>2, HandledOnceStays
<1>4. BackingInv'
  <2>1. CASE UserLocks
    BY <1>2, <2>1, BackingLocks
  <2>2. ASSUME NEW m \in lockerConsumed, RelayMint(m)
        PROVE  BackingInv'
    BY <1>2, <2>2, BackingMints
  <2>3. ASSUME NEW t \in inFlight, MineUnlock(t)
        PROVE  BackingInv'
    <3>1. t.lock \notin released
      BY <1>2 DEF HandledOnce, Sent
    <3> QED
      BY <1>2, <2>3, <3>1, BackingReturns
  <2>4. CASE PauseSwitch \/ Configure \/ TimePasses \/ Reconcile \/ UNCHANGED bridgeVars
    <3>1. UNCHANGED <<lockerConsumed, receiverConsumed, balanceOf, lockedBalance, released>>
      BY <2>4
      DEF PauseSwitch, Pause, Unpause, Configure, SetLocker, TimePasses, Tick, Reconcile,
          ScanLockedEvents, ReadClock, CheckLock, CheckFails, StartUnlocking, SendUnlock,
          SendFails, UnlockMined, Finish, Interrupt, EndRun, bridgeVars, chainVars,
          lockerVars, receiverVars, tokenVars
    <3> QED
      BY <1>2, <3>1, BackingStays
  <2> QED
    BY <2>1, <2>2, <2>3, <2>4 DEF BridgeNext
<1> QED
  BY <1>3, <1>4

LEMMA FirstRunInit == BridgeInit => FirstRunInv
<1> SUFFICES ASSUME BridgeInit PROVE BackingInv /\ HandledOnce
  BY DEF FirstRunInv
<1>1. /\ lockerConsumed = {} /\ receiverConsumed = {} /\ released = {} /\ inFlight = {}
      /\ unchecked = {} /\ orphans = {}
      /\ lockedBalance = [u \in Users |-> 0] /\ balanceOf = [a \in Accounts |-> 0]
  BY DEF BridgeInit, LockerInit, ReceiverInit, TokenInit
<1>2. HandledOnce
  BY <1>1 DEF HandledOnce, Sent
<1>3. ASSUME NEW u \in Users
      PROVE  balanceOf[u] = 0 /\ lockedBalance[u] = 0 /\ Total(Worth(u), {}) = 0
  BY <1>1, BridgeAssumption, TotalOfNone
<1>4. BackingInv
  BY <1>1, <1>3, FS_EmptySet DEF BackingInv
<1> QED
  BY <1>2, <1>4

(* A lock of the user that was minted, and not late, was not returned, so   *)
(* its share of the locked balance is still there.                          *)
LEMMA BackingCovers ==
  ASSUME BridgeTypeOK, ReturnInv, FirstRunInv
  PROVE  OneRunKeepsReceipts
<1> SUFFICES ASSUME BackingInv, NEW u \in Users, \A l \in mintedLate : l.borrower # u
             PROVE  balanceOf[u] <= lockedBalance[u]
  BY DEF OneRunKeepsReceipts, FirstRunInv
<1> DEFINE kept == lockerConsumed \ released
           mine == receiverConsumed \ mintedLate
           late == receiverConsumed \cap mintedLate
<1>1. mine \subseteq kept
  BY DEF BackingInv, ReturnInv, Returning, Forfeit
<1>2. IsFiniteSet(kept) /\ IsFiniteSet(receiverConsumed)
  BY FS_Subset DEF BackingInv
<1>3. kept \subseteq LockIds /\ receiverConsumed \subseteq LockIds
  BY DEF BackingInv, BridgeTypeOK, LockerTypeOK
<1>4. \A l \in kept : Worth(u)[l] \in Nat
  BY <1>3, WorthOf
<1>5. Total(Worth(u), mine) <= Total(Worth(u), kept)
  BY <1>1, <1>2, <1>4, TotalOfPart
<1>6. Total(Worth(u), receiverConsumed) = Total(Worth(u), mine)
  <2>1. \A l \in receiverConsumed : Worth(u)[l] \in Nat
    BY <1>3, WorthOf
  <2>2. \A l \in receiverConsumed \ mine : Worth(u)[l] = 0
    BY <1>3, WorthOf
  <2> QED
    BY <1>2, <2>1, <2>2, TotalOfTheRest
<1> QED
  BY <1>5, <1>6 DEF BackingInv

(* One run of the reconciler, however it is interrupted, however late its   *)
(* transactions are mined and however far ahead its clock is, leaves the    *)
(* receipts of every user backed whose locks were minted in time.           *)
THEOREM OneRunLeavesReceiptsBacked == BridgeSpec => []OneRunKeepsReceipts
<1>1. BridgeInit => KnownInv
  BY DEF BridgeInit, LockerInit, KnownInv, Returning
<1>2. KnownInv /\ [BridgeNext]_bridgeVars => KnownInv'
  BY KnownStep
<1>3. BridgeSpec => []ReturnInv
  BY ReturnInvariant
<1>4. BridgeTypeOK /\ KnownInv /\ FirstRunInv /\ [BridgeNext]_bridgeVars => FirstRunInv'
  BY FirstRunStep
<1>5. BridgeTypeOK /\ ReturnInv /\ FirstRunInv => OneRunKeepsReceipts
  BY BackingCovers
<1> QED
  BY <1>1, <1>2, <1>3, <1>4, <1>5, FirstRunInit, BridgeTypeCorrect, PTL DEF BridgeSpec

=============================================================================
