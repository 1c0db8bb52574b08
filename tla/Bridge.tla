-------------------------------- MODULE Bridge --------------------------------
(***************************************************************************)
(* The two contracts together with what moves a lock between them: the DVN *)
(* that attests locks, the mempool of Mantle, and the reconciler           *)
(* (relayer/pkg/reconcile), an admin process that returns the USDY of      *)
(* locks that expired without having been minted.                          *)
(*                                                                         *)
(* The DVN signs every Locked event and nothing else, and anyone may then  *)
(* submit the signed message at any later time, so RelayMint needs no      *)
(* attestation state.  Clock time is one for both chains; the host of the  *)
(* reconciler has a clock of its own, which may be any amount behind and   *)
(* up to HostLead ahead.                                                   *)
(***************************************************************************)
EXTENDS CollateralLocker, XRWAReceiver

CONSTANTS
  Source,    \* the (chain id, locker address) pair of this locker
  MaxRuns,   \* bound on the number of times the reconciler is started
  HostLead   \* how far the clock of its host may run ahead of Ethereum's

VARIABLES
  phase,     \* where Run() is
  now,       \* Run()'s `now'
  dryRun,    \* cfg.Options.DryRun of this run
  unchecked, \* scanned locks whose consumed flag is still to be read
  orphans,   \* expired orphans still to be unlocked
  awaiting,  \* the transaction executeUnlock() waits for, as a set
  inFlight,  \* unlock transactions sent and not yet mined
  runs,      \* number of runs started
  mintedLate \* history: locks minted less than HostLead before their deadline

recVars == <<phase, now, dryRun, unchecked, orphans, awaiting, runs>>
chainVars == <<lockerVars, receiverVars, tokenVars, clock>>
bridgeVars == <<chainVars, recVars, inFlight, mintedLate>>

(* The message the DVN signs for a Locked event. *)
MessageOf(l) ==
  [borrower |-> l.borrower, lockId |-> l, amount |-> l.amount,
   source |-> Source, validUntil |-> l.validUntil]

ASSUME BridgeAssumption ==
  /\ Users \subseteq Accounts
  /\ LockIds = MessageIds
  /\ Amounts \subseteq TokenAmounts
  /\ Deadlines \subseteq MessageTimes
  /\ Source \in Sources
  /\ MaxRuns \in Nat
  /\ HostLead \in Nat

(* Unlock transactions: the run number tells two transactions for one lock apart. *)
Transactions == [lock: LockIds, run: 0..MaxRuns]
Phases == {"idle", "scanned", "checking", "unlocking"}

BridgeTypeOK ==
  /\ LockerTypeOK
  /\ ReceiverTypeOK
  /\ phase \in Phases
  /\ now \in Nat
  /\ dryRun \in BOOLEAN
  /\ unchecked \subseteq LockIds
  /\ orphans \subseteq LockIds
  /\ awaiting \subseteq Transactions
  /\ inFlight \subseteq Transactions
  /\ runs \in 0..MaxRuns
  /\ mintedLate \subseteq LockIds

BridgeInit ==
  /\ LockerInit
  /\ ReceiverInit
  /\ phase = "idle"
  /\ now = 0
  /\ dryRun = TRUE
  /\ unchecked = {}
  /\ orphans = {}
  /\ awaiting = {}
  /\ inFlight = {}
  /\ runs = 0
  /\ mintedLate = {}

-----------------------------------------------------------------------------
(* The chains and the relayer.                                             *)

UserLocks ==
  /\ \E u \in Users, a \in Amounts, d \in Deadlines : Lock(u, a, d)
  /\ UNCHANGED <<receiverVars, tokenVars, clock, recVars, inFlight, mintedLate>>

PauseSwitch ==
  /\ Pause(lockerAdmin) \/ Unpause(lockerAdmin)
  /\ UNCHANGED <<receiverVars, tokenVars, clock, recVars, inFlight, mintedLate>>

(* script/ConfigureXRWA allows the locker; until then no lock can be minted. *)
Configure ==
  /\ SetLocker(receiverAdmin, Source, TRUE)
  /\ UNCHANGED <<lockerVars, recVars, inFlight, mintedLate>>

RelayMint(l) ==
  /\ l \in lockerConsumed
  /\ MintWithAttestation(MessageOf(l), FirstDVN)
  /\ mintedLate' = IF clock + HostLead > l.validUntil
                   THEN mintedLate \cup {l}
                   ELSE mintedLate
  /\ UNCHANGED <<lockerVars, recVars, inFlight>>

TimePasses == Tick /\ UNCHANGED <<lockerVars, recVars, inFlight, mintedLate>>

(* A mined unlock executes, or reverts because the locker changed since its *)
(* gas was estimated.                                                       *)
MineUnlock(t) ==
  /\ t \in inFlight
  /\ inFlight' = inFlight \ {t}
  /\ \/ Unlock(lockerAdmin, t.lock.borrower, t.lock.amount, t.lock)
     \/ ~CanUnlock(t.lock.borrower, t.lock.amount) /\ UNCHANGED lockerVars
  /\ UNCHANGED <<receiverVars, tokenVars, clock, recVars, mintedLate>>

-----------------------------------------------------------------------------
(* Run() of the reconciler.                                                *)

(* BlockNumber and FilterLogs: every Locked event up to the current block. *)
(* An RPC error ends the run: Interrupt.                                   *)
ScanLockedEvents ==
  /\ phase = "idle"
  /\ runs < MaxRuns
  /\ runs' = runs + 1
  /\ dryRun' \in BOOLEAN
  /\ unchecked' = lockerConsumed
  /\ phase' = "scanned"
  /\ UNCHANGED <<chainVars, mintedLate, now, orphans, awaiting, inFlight>>

(* time.Now() is read once, before the first consumed flag.  Nothing keeps  *)
(* it in step with the timestamps of Ethereum's blocks.                     *)
ReadClock ==
  /\ phase = "scanned"
  /\ now' \in 0..(clock + HostLead)
  /\ phase' = "checking"
  /\ UNCHANGED <<chainVars, mintedLate, dryRun, unchecked, orphans, awaiting, inFlight, runs>>

(* A mutant: expired one second too early. *)
IsExpiredAtDeadline(l) == l.validUntil <= now

IsExpired(l) == l.validUntil < now

(* A mutant: the consumed flag is not looked at. *)
CheckExpiryOnly(l) ==
  /\ phase = "checking"
  /\ l \in unchecked
  /\ unchecked' = unchecked \ {l}
  /\ orphans' = IF IsExpired(l) THEN orphans \cup {l} ELSE orphans
  /\ UNCHANGED <<chainVars, mintedLate, phase, now, dryRun, awaiting, inFlight, runs>>

(* isConsumed() answers; a lock that is neither consumed nor expired is     *)
(* only reported.                                                           *)
CheckLock(l) ==
  /\ phase = "checking"
  /\ l \in unchecked
  /\ unchecked' = unchecked \ {l}
  /\ orphans' = IF l \notin receiverConsumed /\ IsExpired(l)
                THEN orphans \cup {l}
                ELSE orphans
  /\ UNCHANGED <<chainVars, mintedLate, phase, now, dryRun, awaiting, inFlight, runs>>

(* isConsumed() fails: the lock is left out of this run. *)
CheckFails(l) ==
  /\ phase = "checking"
  /\ l \in unchecked
  /\ unchecked' = unchecked \ {l}
  /\ UNCHANGED <<chainVars, mintedLate, phase, now, dryRun, orphans, awaiting, inFlight, runs>>

StartUnlocking ==
  /\ phase = "checking"
  /\ unchecked = {}
  /\ ~dryRun
  /\ phase' = "unlocking"
  /\ UNCHANGED <<chainVars, mintedLate, now, dryRun, unchecked, orphans, awaiting, inFlight, runs>>

(* A mutant: the orphan stays on the list. *)
SendUnlockAgain(l) ==
  /\ phase = "unlocking"
  /\ awaiting = {}
  /\ l \in orphans
  /\ CanUnlock(l.borrower, l.amount)
  /\ awaiting' = {[lock |-> l, run |-> runs]}
  /\ inFlight' = inFlight \cup awaiting'
  /\ UNCHANGED <<chainVars, mintedLate, phase, now, dryRun, unchecked, orphans, runs>>

(* EstimateGas passes only if the call would succeed now; then the          *)
(* transaction is sent and WaitMined blocks.                                *)
SendUnlock(l) ==
  /\ phase = "unlocking"
  /\ awaiting = {}
  /\ l \in orphans
  /\ CanUnlock(l.borrower, l.amount)
  /\ orphans' = orphans \ {l}
  /\ awaiting' = {[lock |-> l, run |-> runs]}
  /\ inFlight' = inFlight \cup awaiting'
  /\ UNCHANGED <<chainVars, mintedLate, phase, now, dryRun, unchecked, runs>>

(* Any call before the transaction is out fails: the orphan is skipped. *)
SendFails(l) ==
  /\ phase = "unlocking"
  /\ awaiting = {}
  /\ l \in orphans
  /\ orphans' = orphans \ {l}
  /\ UNCHANGED <<chainVars, mintedLate, phase, now, dryRun, unchecked, awaiting, inFlight, runs>>

(* WaitMined returns; success and revert both lead to the next orphan. *)
UnlockMined ==
  /\ phase = "unlocking"
  /\ awaiting # {}
  /\ awaiting \cap inFlight = {}
  /\ awaiting' = {}
  /\ UNCHANGED <<chainVars, mintedLate, phase, now, dryRun, unchecked, orphans, inFlight, runs>>

EndRun ==
  /\ phase' = "idle"
  /\ unchecked' = {}
  /\ orphans' = {}
  /\ awaiting' = {}
  /\ UNCHANGED <<chainVars, mintedLate, now, dryRun, inFlight, runs>>

Finish ==
  /\ \/ phase = "checking" /\ unchecked = {} /\ dryRun
     \/ phase = "unlocking" /\ orphans = {} /\ awaiting = {}
  /\ EndRun

(* SIGINT or SIGTERM cancels the context, an RPC error ends the scan, or    *)
(* the process dies; transactions already sent stay in the mempool.         *)
Interrupt == phase # "idle" /\ EndRun

Reconcile ==
  \/ ScanLockedEvents
  \/ ReadClock
  \/ \E l \in unchecked : CheckLock(l) \/ CheckFails(l)
  \/ StartUnlocking
  \/ \E l \in orphans : SendUnlock(l) \/ SendFails(l)
  \/ UnlockMined
  \/ Finish
  \/ Interrupt

BridgeNext ==
  \/ UserLocks
  \/ PauseSwitch
  \/ Configure
  \/ \E l \in lockerConsumed : RelayMint(l)
  \/ TimePasses
  \/ \E t \in inFlight : MineUnlock(t)
  \/ Reconcile

BridgeSpec == BridgeInit /\ [][BridgeNext]_bridgeVars

-----------------------------------------------------------------------------
(* However far ahead the reconciler's clock is: a lock that was minted      *)
(* HostLead or more before its deadline is never returned, and a lock that  *)
(* was returned is never minted but in the last HostLead before its         *)
(* deadline.  Between clocks that agree no lock is ever both.  Reading the  *)
(* clock before the consumed flags, the strict comparison with validUntil   *)
(* and the receiver's non-strict one leave no gap beyond the clocks', what- *)
(* ever mints, interrupts and slow transactions come in between.            *)
ReleasedNeverMinted == released \cap receiverConsumed \subseteq mintedLate

(* AcUSDY is a 1:1 receipt (README.md:94, TvlPegDisplay.tsx:13): what was   *)
(* minted to a user is covered by what the locker still holds for that user.*)
ReceiptBacked == \A u \in Users : balanceOf[u] <= lockedBalance[u]

(* A single run of the reconciler, interrupted or not, keeps the receipts   *)
(* of every user backed none of whose locks was minted that late: within    *)
(* it no orphan is unlocked twice, and what it unlocks is nobody's backing. *)
OneRunKeepsReceipts ==
  runs <= 1 =>
    \A u \in Users : (\A l \in mintedLate : l.borrower # u)
                       => balanceOf[u] <= lockedBalance[u]

(* The bridge implements the life cycle of locks. *)
Lifecycle == INSTANCE LockLifecycle WITH
  LockId <- LockIds, Deadline <- [l \in LockIds |-> l.validUntil],
  Margin <- HostLead, time <- clock, issued <- lockerConsumed,
  minted <- receiverConsumed, returned <- released
ImplementsLifecycle == Lifecycle!Spec

=============================================================================
