----------------------------- MODULE XRWAReceiver -----------------------------
(***************************************************************************)
(* The minting contract on Ethereum (contracts/ethereum/XRWAReceiver.sol)  *)
(* on top of the token it mints.  A lock message is a record; its EIP-712  *)
(* signature is taken to be unforgeable, so calldata is a message with the *)
(* key that signed it, and ecrecover returns that key.  Any account may    *)
(* submit any signed message any number of times and in any order.         *)
(***************************************************************************)
EXTENDS AcUSDY, Sequences

CONSTANTS
  ReceiverAdmins, \* accounts that may hold the admin role
  Keys,           \* signing keys: DVNs and others
  FirstDVN,       \* the DVN the constructor allows
  Sources,        \* (chain id, locker address) pairs
  MessageIds,     \* lock ids a message may carry
  MessageTimes,   \* values of validUntil a message may carry
  MaxClock        \* bound on block.timestamp

ASSUME ReceiverAssumption ==
  /\ FirstDVN \in Keys
  /\ MessageTimes \subseteq Nat
  /\ MaxClock \in Nat

VARIABLES
  receiverAdmin,    \* admin
  dvnAllowed,       \* keys whose signature is accepted
  lockerAllowed,    \* sources whose locks are accepted
  receiverConsumed, \* lock ids that have been processed
  mintLog,          \* the AcUSDYMinted events, in order
  clock             \* block.timestamp

receiverVars == <<receiverAdmin, dvnAllowed, lockerAllowed, receiverConsumed, mintLog>>

Messages == [borrower: Accounts, lockId: MessageIds, amount: TokenAmounts,
             source: Sources, validUntil: MessageTimes]

ReceiverTypeOK ==
  /\ TokenTypeOK
  /\ receiverAdmin \in ReceiverAdmins
  /\ dvnAllowed \in [Keys -> BOOLEAN]
  /\ lockerAllowed \in [Sources -> BOOLEAN]
  /\ receiverConsumed \subseteq MessageIds
  /\ mintLog \in Seq(Messages)
  /\ clock \in 0..MaxClock

ReceiverInit ==
  /\ TokenInit
  /\ receiverAdmin \in ReceiverAdmins
  /\ dvnAllowed = [k \in Keys |-> k = FirstDVN]
  /\ lockerAllowed = [s \in Sources |-> FALSE]
  /\ receiverConsumed = {}
  /\ mintLog = <<>>
  /\ clock = 0

(* A mutant: the consumed flag is written and never read. *)
MintableAgain(m, signer) ==
  /\ m.amount # 0
  /\ clock <= m.validUntil
  /\ lockerAllowed[m.source]
  /\ dvnAllowed[signer]

(* All checks of mintWithAttestation(), the recovered signer's included. *)
Mintable(m, signer) ==
  /\ m.amount # 0
  /\ clock <= m.validUntil
  /\ m.lockId \notin receiverConsumed
  /\ lockerAllowed[m.source]
  /\ dvnAllowed[signer]

(* Mutants: a check that fails returns instead of reverting; the wrong      *)
(* field of the message is consumed.                                        *)
MintReturnsEarly(m, signer) ==
  /\ m.amount # 0
  /\ clock <= m.validUntil
  /\ m.lockId \notin receiverConsumed
  /\ receiverConsumed' = receiverConsumed \cup {m.lockId}
  /\ IF Mintable(m, signer)
     THEN Mint(Receiver, m.borrower, m.amount) /\ mintLog' = Append(mintLog, m)
     ELSE UNCHANGED <<tokenVars, mintLog>>
  /\ UNCHANGED <<receiverAdmin, dvnAllowed, lockerAllowed, clock>>

MintConsumesBorrower(m, signer) ==
  /\ Mintable(m, signer)
  /\ receiverConsumed' = receiverConsumed \cup {m.borrower}
  /\ Mint(Receiver, m.borrower, m.amount)
  /\ mintLog' = Append(mintLog, m)
  /\ UNCHANGED <<receiverAdmin, dvnAllowed, lockerAllowed, clock>>

(* consumed[lockId] is set before the locker and the signer are checked; a  *)
(* revert undoes it, so it changes together with the mint or not at all.    *)
MintWithAttestation(m, signer) ==
  /\ Mintable(m, signer)
  /\ receiverConsumed' = receiverConsumed \cup {m.lockId}
  /\ Mint(Receiver, m.borrower, m.amount)
  /\ mintLog' = Append(mintLog, m)
  /\ UNCHANGED <<receiverAdmin, dvnAllowed, lockerAllowed, clock>>

SetDVN(caller, key, allowed) ==
  /\ caller = receiverAdmin
  /\ dvnAllowed' = [dvnAllowed EXCEPT ![key] = allowed]
  /\ UNCHANGED <<receiverAdmin, lockerAllowed, receiverConsumed, mintLog, clock, tokenVars>>

SetLocker(caller, source, allowed) ==
  /\ caller = receiverAdmin
  /\ lockerAllowed' = [lockerAllowed EXCEPT ![source] = allowed]
  /\ UNCHANGED <<receiverAdmin, dvnAllowed, receiverConsumed, mintLog, clock, tokenVars>>

SetReceiverAdmin(caller, newAdmin) ==
  /\ caller = receiverAdmin
  /\ receiverAdmin' = newAdmin
  /\ UNCHANGED <<dvnAllowed, lockerAllowed, receiverConsumed, mintLog, clock, tokenVars>>

SetAcUSDYTransferAllowed(caller, addr, allowed) ==
  /\ caller = receiverAdmin
  /\ SetTransferAllowed(Receiver, addr, allowed)
  /\ UNCHANGED <<receiverVars, clock>>

(* Ethereum produces a later block. *)
Tick ==
  /\ clock < MaxClock
  /\ clock' = clock + 1
  /\ UNCHANGED <<receiverVars, tokenVars>>

ReceiverNext ==
  \/ \E m \in Messages, k \in Keys : MintWithAttestation(m, k)
  \/ \E c \in ReceiverAdmins, k \in Keys, b \in BOOLEAN : SetDVN(c, k, b)
  \/ \E c \in ReceiverAdmins, s \in Sources, b \in BOOLEAN : SetLocker(c, s, b)
  \/ \E c, n \in ReceiverAdmins : SetReceiverAdmin(c, n)
  \/ \E c \in ReceiverAdmins, a \in Accounts, b \in BOOLEAN :
        SetAcUSDYTransferAllowed(c, a, b)
  \/ HolderNext /\ UNCHANGED <<receiverVars, clock>>
  \/ Tick

ReceiverSpec == ReceiverInit /\ [][ReceiverNext]_<<receiverVars, tokenVars, clock>>

-----------------------------------------------------------------------------
(* One mint per lock id, for ever: a second message for the same lock with  *)
(* another amount, borrower or signer, or a DVN or locker that was removed  *)
(* and allowed again in between, never mints a second time.                 *)
OneMintPerLock ==
  \A i, j \in DOMAIN mintLog : mintLog[i].lockId = mintLog[j].lockId => i = j

(* A lock id is consumed exactly when it has minted: no failed attempt uses *)
(* up a lock and strands its borrower.                                      *)
ConsumedIffMinted ==
  receiverConsumed = {mintLog[i].lockId : i \in DOMAIN mintLog}

(* Nothing but attested mints changes the supply, in either direction: no   *)
(* call of the receiver burns, and no holder operation creates tokens.      *)
SupplyIsMinted ==
  totalSupply = SumFunction([i \in DOMAIN mintLog |-> mintLog[i].amount])

=============================================================================
