------------------------------- MODULE Relayer -------------------------------
(***************************************************************************)
(* The DVN relayer (relayer/pkg/dvn/relayer.go) with its persistence store *)
(* (pkg/persistence) between the two chains it connects.                   *)
(*                                                                         *)
(* Two goroutines handle Locked events: "main" runs monitorEvents(), that  *)
(* is backfill, catch-up and polling, and "consumer" drains the            *)
(* subscription.  Both run processLockedEvent(), which is a check, a       *)
(* submission and a mark; the other goroutine, the chains and a shutdown   *)
(* come in between.                                                        *)
(*                                                                         *)
(* Locks are numbered in the order of their events.  The lock messages,    *)
(* the metrics and the health flags are left out, and Mantle does not      *)
(* reorganise.  Persistence is enabled, as it is by default.               *)
(***************************************************************************)
EXTENDS Integers, Sequences

CONSTANTS
  MaxBlock,      \* bound on the height of Mantle
  MaxLocks,      \* bound on the number of locks
  MaxStarts,     \* bound on the number of starts of the process
  StartBlock,    \* RELAYER_START_BLOCK, 0 when it is not set
  Websocket,     \* the endpoint may accept a subscription
  ChannelCloses, \* Unsubscribe() or a subscription error closes `logs'
  RpcFaults,     \* calls of either endpoint may fail
  DiskFaults,    \* save() may fail and load() may find an unreadable file
  MayExpire,     \* validUntil of a lock may pass before it is minted
  MayDrop        \* Ethereum may drop a transaction it accepted

ASSUME RelayerAssumption ==
  /\ {MaxBlock, MaxLocks, MaxStarts, StartBlock} \subseteq Nat
  /\ {Websocket, ChannelCloses, RpcFaults, DiskFaults, MayExpire, MayDrop}
       \subseteq BOOLEAN

VARIABLES
  head,      \* height of Mantle
  lockBlock, \* the block of each lock, in the order of the events
  sent,      \* locks of which a transaction was accepted by Ethereum's node
  mempool,   \* locks that have a transaction which is not mined yet
  minted,    \* XRWAReceiver.consumed
  expired,   \* locks whose validUntil has passed
  mode,      \* where the main goroutine is
  after,     \* where it goes when the consumer has drained the channel
  gapStart,  \* runSubscription()'s gapStartBlock
  fromBlock, \* pollEvents()'s fromBlock
  scanning,  \* a queried range of logs is being processed
  upTo,      \* the last block of that range
  todo,      \* its logs still to be processed
  live,      \* the subscription delivers
  queue,     \* the `logs' channel
  job,       \* the lock each goroutine is processing, 0 for none
  step,      \* and how far it is
  processed, \* the relayer's processedLocks map
  store,     \* the store's memory: cursor and locks
  disk,      \* the store's file
  starts,    \* number of starts
  origin,    \* history: the first block scanned when the cursor left 0
  ignored    \* history: events whose error the consumer dropped

mantleVars == <<head, lockBlock>>
ethereumVars == <<sent, mempool, minted, expired>>
scanVars == <<scanning, upTo, todo>>
loopVars == <<mode, after, gapStart, fromBlock>>
subVars == <<live, queue>>
workVars == <<job, step>>
storeVars == <<store, disk>>
historyVars == <<starts, origin, ignored>>
relayerVars == <<mantleVars, ethereumVars, scanVars, loopVars, subVars, workVars,
                 processed, storeVars, historyVars>>

Workers == {"main", "consumer"}
Locks == 1..MaxLocks
Issued == DOMAIN lockBlock
Stores == [cursor: 0..MaxBlock, locks: SUBSET Locks]
Fresh == [cursor |-> 0, locks |-> {}]
LogsIn(from, to) == {i \in Issued : lockBlock[i] \in from..to}
IsFirst(i, S) == i \in S /\ \A j \in S : i <= j

RelayerTypeOK ==
  /\ head \in 0..MaxBlock
  /\ lockBlock \in Seq(1..MaxBlock)
  /\ Issued \subseteq Locks
  /\ {sent, mempool, minted, expired, todo, processed, ignored} \subseteq SUBSET Issued
  /\ mode \in {"off", "starting", "backfill", "subscribing", "catchup",
               "subscribed", "draining", "polling"}
  /\ after \in {"starting", "polling"}
  /\ gapStart \in 0..MaxBlock
  /\ fromBlock \in Nat
  /\ scanning \in BOOLEAN
  /\ upTo \in 0..MaxBlock
  /\ live \in BOOLEAN
  /\ queue \in Seq(Issued)
  /\ job \in [Workers -> Issued \cup {0}]
  /\ step \in [Workers -> {"send", "mark"}]
  /\ store \in Stores
  /\ disk \in Stores
  /\ starts \in 0..MaxStarts
  /\ origin \in Nat

RelayerInit ==
  /\ head = 0
  /\ lockBlock = <<>>
  /\ sent = {} /\ mempool = {} /\ minted = {} /\ expired = {}
  /\ mode = "off"
  /\ after = "starting"
  /\ gapStart = 0
  /\ fromBlock = 0
  /\ scanning = FALSE /\ upTo = 0 /\ todo = {}
  /\ live = FALSE /\ queue = <<>>
  /\ job = [w \in Workers |-> 0]
  /\ step = [w \in Workers |-> "send"]
  /\ processed = {}
  /\ store = Fresh /\ disk = Fresh
  /\ starts = 0 /\ origin = 0 /\ ignored = {}

-----------------------------------------------------------------------------
(* The chains.                                                             *)

(* A block with n locks; a live subscription delivers their events. *)
MineBlock(n) ==
  LET new == [k \in 1..n |-> Len(lockBlock) + k]
  IN /\ head < MaxBlock
     /\ Len(lockBlock) + n <= MaxLocks
     /\ head' = head + 1
     /\ lockBlock' = lockBlock \o [k \in 1..n |-> head + 1]
     /\ queue' = IF live THEN queue \o new ELSE queue
     /\ UNCHANGED <<ethereumVars, scanVars, loopVars, live, workVars, processed,
                    storeVars, historyVars>>

(* A transaction is mined: it mints, or reverts. *)
MineMint(i) ==
  /\ i \in mempool
  /\ mempool' = mempool \ {i}
  /\ minted' = IF i \in expired THEN minted ELSE minted \cup {i}
  /\ UNCHANGED <<mantleVars, sent, expired, scanVars, loopVars, subVars, workVars,
                 processed, storeVars, historyVars>>

DropTransaction(i) ==
  /\ MayDrop
  /\ i \in mempool
  /\ mempool' = mempool \ {i}
  /\ UNCHANGED <<mantleVars, sent, minted, expired, scanVars, loopVars, subVars,
                 workVars, processed, storeVars, historyVars>>

Expire(i) ==
  /\ MayExpire
  /\ i \in Issued \ expired
  /\ expired' = expired \cup {i}
  /\ UNCHANGED <<mantleVars, sent, mempool, minted, scanVars, loopVars, subVars,
                 workVars, processed, storeVars, historyVars>>

Chains ==
  \/ \E n \in 0..2 : MineBlock(n)
  \/ \E i \in mempool : MineMint(i) \/ DropTransaction(i)
  \/ \E i \in Issued : Expire(i)

-----------------------------------------------------------------------------
(* The store.  Both writers hold its mutex while they save.                *)

Save(s) == disk' = s \/ (DiskFaults /\ disk' = disk)

SetLastProcessedBlock(block, from) ==
  /\ store' = [store EXCEPT !.cursor = block]
  /\ Save(store')
  /\ origin' = IF store.cursor = 0 /\ block > 0 THEN from ELSE origin

(* Memory first, then the store; an error of save() is only logged. *)
MarkProcessed(i) ==
  /\ processed' = processed \cup {i}
  /\ store' = [store EXCEPT !.locks = @ \cup {i}]
  /\ Save(store')

-----------------------------------------------------------------------------
(* Start and stop.                                                         *)

(* NewStore(), NewRelayer() and Start().  A file that cannot be parsed      *)
(* counts as an empty one, now and until a save replaces it.                *)
Start ==
  /\ mode = "off"
  /\ starts < MaxStarts
  /\ starts' = starts + 1
  /\ disk' = disk \/ (DiskFaults /\ disk' = Fresh)
  /\ store' = disk'
  /\ processed' = store'.locks
  /\ mode' = "starting"
  /\ UNCHANGED <<mantleVars, ethereumVars, scanVars, after, gapStart, fromBlock,
                 subVars, workVars, origin, ignored>>

(* A signal, with a last Flush(), or a crash without it: what was in memory *)
(* is gone.  The last start the bound allows is not stopped.                *)
Stop ==
  /\ mode # "off"
  /\ starts < MaxStarts
  /\ mode' = "off"
  /\ disk' \in {disk, store}
  /\ store' = Fresh
  /\ processed' = {}
  /\ after' = "starting" /\ gapStart' = 0 /\ fromBlock' = 0
  /\ scanning' = FALSE /\ upTo' = 0 /\ todo' = {}
  /\ live' = FALSE /\ queue' = <<>>
  /\ job' = [w \in Workers |-> 0]
  /\ step' = [w \in Workers |-> "send"]
  /\ UNCHANGED <<mantleVars, ethereumVars, historyVars>>

-----------------------------------------------------------------------------
(* runSubscription() and pollEvents().                                     *)

(* getInitialFromBlock(): the first run starts at the current block, or at  *)
(* 0 when even that cannot be read.                                         *)
InitialFromBlock(cursor) ==
  IF StartBlock > 0 THEN {StartBlock}
  ELSE IF cursor > 0 THEN {cursor + 1}
  ELSE {head} \cup (IF RpcFaults THEN {0} ELSE {})

Poll(cursor) ==
  /\ mode' = "polling"
  /\ fromBlock' \in InitialFromBlock(cursor)
  /\ UNCHANGED <<after, gapStart>>

GoTo(m) == mode' = m /\ UNCHANGED <<after, gapStart, fromBlock>>

(* A mutant: ToBlock is one too high. *)
ScanPastEnd(from, to) ==
  /\ scanning' = TRUE
  /\ upTo' = to + 1
  /\ todo' = LogsIn(from, to)

Scan(from, to) ==
  /\ scanning' = TRUE
  /\ upTo' = to
  /\ todo' = LogsIn(from, to)

(* 1. The snapshot for the catch-up, taken before the backfill. *)
TakeSnapshot ==
  /\ mode = "starting"
  /\ gapStart' = head \/ (RpcFaults /\ gapStart' = 0)
  /\ mode' = "backfill"
  /\ UNCHANGED <<mantleVars, ethereumVars, scanVars, after, fromBlock, subVars,
                 workVars, processed, storeVars, historyVars>>

(* 2. backfillFromCursor(): nothing to do, or query cursor+1..head-1, or an *)
(* RPC error and on to polling.                                             *)
NothingToBackfill == store.cursor = 0 \/ head <= store.cursor + 1

Backfill ==
  /\ mode = "backfill"
  /\ ~scanning
  /\ \/ NothingToBackfill /\ GoTo("subscribing") /\ UNCHANGED scanVars
     \/ /\ ~NothingToBackfill
        /\ Scan(store.cursor + 1, head - 1)
        /\ UNCHANGED loopVars
     \/ /\ RpcFaults
        /\ store.cursor > 0
        /\ Poll(store.cursor)
        /\ UNCHANGED scanVars
  /\ UNCHANGED <<mantleVars, ethereumVars, subVars, workVars, processed, storeVars,
                 historyVars>>

(* 3. SubscribeFilterLogs() and the consumer, or polling. *)
Subscribe ==
  /\ mode = "subscribing"
  /\ \/ Websocket /\ live' = TRUE /\ GoTo("catchup")
     \/ (RpcFaults \/ ~Websocket) /\ live' = live /\ Poll(store.cursor)
  /\ UNCHANGED <<mantleVars, ethereumVars, scanVars, queue, workVars, processed,
                 storeVars, historyVars>>

Unsubscribe(next) ==
  /\ live' = FALSE
  /\ mode' = "draining"
  /\ after' = next
  /\ UNCHANGED <<queue, gapStart, fromBlock>>

(* A mutant: the block of the snapshot is left out. *)
CatchUpAfterSnapshot ==
  /\ mode = "catchup"
  /\ ~scanning
  /\ \/ gapStart = 0 /\ GoTo("subscribed") /\ UNCHANGED <<scanVars, subVars>>
     \/ gapStart > 0 /\ Scan(gapStart + 1, head) /\ UNCHANGED <<loopVars, subVars>>
     \/ RpcFaults /\ gapStart > 0 /\ Unsubscribe("polling") /\ UNCHANGED scanVars
  /\ UNCHANGED <<mantleVars, ethereumVars, workVars, processed, storeVars, historyVars>>

(* 6. catchUpFromBlock(): skipped without a snapshot. *)
CatchUp ==
  /\ mode = "catchup"
  /\ ~scanning
  /\ \/ gapStart = 0 /\ GoTo("subscribed") /\ UNCHANGED <<scanVars, subVars>>
     \/ gapStart > 0 /\ Scan(gapStart, head) /\ UNCHANGED <<loopVars, subVars>>
     \/ RpcFaults /\ gapStart > 0 /\ Unsubscribe("polling") /\ UNCHANGED scanVars
  /\ UNCHANGED <<mantleVars, ethereumVars, workVars, processed, storeVars, historyVars>>

(* 7. sub.Err() delivers. *)
SubscriptionError ==
  /\ RpcFaults
  /\ mode = "subscribed"
  /\ Unsubscribe("starting")
  /\ UNCHANGED <<mantleVars, ethereumVars, scanVars, workVars, processed, storeVars,
                 historyVars>>

(* <-logsDone: the consumer has seen the channel closed. *)
Drained ==
  /\ ChannelCloses
  /\ mode = "draining"
  /\ queue = <<>>
  /\ job["consumer"] = 0
  /\ IF after = "polling" THEN Poll(store.cursor) ELSE GoTo("starting")
  /\ UNCHANGED <<mantleVars, ethereumVars, scanVars, subVars, workVars, processed,
                 storeVars, historyVars>>

(* waitForNewBlock() and FilterLogs(). *)
PollQuery ==
  /\ mode = "polling"
  /\ ~scanning
  /\ head >= fromBlock
  /\ Scan(fromBlock, head)
  /\ UNCHANGED <<mantleVars, ethereumVars, loopVars, subVars, workVars, processed,
                 storeVars, historyVars>>

(* Every log of the range succeeded. *)
ScanDone ==
  /\ scanning
  /\ todo = {}
  /\ job["main"] = 0
  /\ scanning' = FALSE
  /\ \/ /\ mode = "backfill"
        /\ SetLastProcessedBlock(upTo, store.cursor + 1)
        /\ GoTo("subscribing")
     \/ /\ mode = "polling"
        /\ SetLastProcessedBlock(upTo, fromBlock)
        /\ fromBlock' = upTo + 1
        /\ UNCHANGED <<mode, after, gapStart>>
     \/ /\ mode = "catchup"
        /\ GoTo("subscribed")
        /\ UNCHANGED <<storeVars, origin>>
  /\ UNCHANGED <<mantleVars, ethereumVars, upTo, todo, subVars, workVars, processed,
                 starts, ignored>>

-----------------------------------------------------------------------------
(* processLockedEvent().                                                   *)

Take(w, i) ==
  \/ /\ w = "main" /\ scanning /\ IsFirst(i, todo)
     /\ todo' = todo \ {i}
     /\ UNCHANGED <<scanning, upTo, subVars>>
  \/ /\ w = "consumer" /\ queue # <<>> /\ i = Head(queue)
     /\ queue' = Tail(queue)
     /\ UNCHANGED <<scanVars, live>>

IsDuplicate(i) == i \in processed \/ i \in store.locks

(* A duplicate, or consumed on Ethereum: remembered in memory only. *)
SkipEvent(w, i) ==
  /\ job[w] = 0
  /\ Take(w, i)
  /\ IsDuplicate(i) \/ i \in minted
  /\ processed' = processed \cup {i}
  /\ UNCHANGED <<mantleVars, ethereumVars, loopVars, workVars, storeVars, historyVars>>

(* A mutant: remembered as processed before it is submitted. *)
AcceptMarksEarly(w, i) ==
  /\ job[w] = 0
  /\ Take(w, i)
  /\ ~IsDuplicate(i)
  /\ i \notin minted \/ RpcFaults
  /\ job' = [job EXCEPT ![w] = i]
  /\ step' = [step EXCEPT ![w] = "send"]
  /\ processed' = processed \cup {i}
  /\ UNCHANGED <<mantleVars, ethereumVars, loopVars, storeVars, historyVars>>

(* Neither, or the consumed flag cannot be read. *)
AcceptEvent(w, i) ==
  /\ job[w] = 0
  /\ Take(w, i)
  /\ ~IsDuplicate(i)
  /\ i \notin minted \/ RpcFaults
  /\ job' = [job EXCEPT ![w] = i]
  /\ step' = [step EXCEPT ![w] = "send"]
  /\ UNCHANGED <<mantleVars, ethereumVars, loopVars, processed, storeVars, historyVars>>

(* EstimateGas() passes only if the mint would succeed now. *)
SubmitTransaction(i) ==
  /\ i \notin minted \cup expired
  /\ mempool' = mempool \cup {i}
  /\ sent' = sent \cup {i}

Submit(w) ==
  /\ job[w] # 0
  /\ step[w] = "send"
  /\ SubmitTransaction(job[w])
  /\ step' = [step EXCEPT ![w] = "mark"]
  /\ UNCHANGED <<mantleVars, minted, expired, scanVars, loopVars, subVars, job,
                 processed, storeVars, historyVars>>

(* An attempt whose answer is lost: RetryWithBackoff() submits again. *)
SubmitAnswerLost(w) ==
  /\ RpcFaults
  /\ job[w] # 0
  /\ step[w] = "send"
  /\ SubmitTransaction(job[w])
  /\ UNCHANGED <<mantleVars, minted, expired, scanVars, loopVars, subVars, workVars,
                 processed, storeVars, historyVars>>

(* Where a failed lock leaves the cursor and the polling; mutants: one      *)
(* block too far.                                                           *)
CursorAt(i) == lockBlock[i]
CursorBefore(i) == lockBlock[i] - 1
RetryAfter(i) == lockBlock[i] + 1
RetryFrom(i) == lockBlock[i]

(* The retries are used up: the whole failed block is tried again, the      *)
(* catch-up gives way to polling, the consumer drops the error.             *)
SubmitFails(w) ==
  LET i == job[w]
  IN /\ i # 0
     /\ step[w] = "send"
     /\ RpcFaults \/ i \in minted \cup expired
     /\ job' = [job EXCEPT ![w] = 0]
     /\ \/ /\ w = "main" /\ mode = "backfill"
           /\ SetLastProcessedBlock(CursorBefore(i), store.cursor + 1)
           /\ Poll(CursorBefore(i))
           /\ UNCHANGED <<subVars, ignored>>
        \/ /\ w = "main" /\ mode = "polling"
           /\ SetLastProcessedBlock(CursorBefore(i), fromBlock)
           /\ fromBlock' = RetryFrom(i)
           /\ UNCHANGED <<mode, after, gapStart, subVars, ignored>>
        \/ /\ w = "main" /\ mode = "catchup"
           /\ Unsubscribe("polling")
           /\ UNCHANGED <<storeVars, origin, ignored>>
        \/ /\ w = "consumer"
           /\ ignored' = ignored \cup {i}
           /\ UNCHANGED <<storeVars, origin, loopVars, subVars>>
     /\ IF w = "main" THEN scanning' = FALSE /\ todo' = {} /\ upTo' = upTo
                      ELSE UNCHANGED scanVars
     /\ UNCHANGED <<mantleVars, ethereumVars, step, processed, starts>>

Mark(w) ==
  /\ job[w] # 0
  /\ step[w] = "mark"
  /\ MarkProcessed(job[w])
  /\ job' = [job EXCEPT ![w] = 0]
  /\ UNCHANGED <<mantleVars, ethereumVars, scanVars, loopVars, subVars, step,
                 historyVars>>

MainLoop ==
  \/ TakeSnapshot
  \/ Backfill
  \/ Subscribe
  \/ CatchUp
  \/ SubscriptionError
  \/ Drained
  \/ PollQuery
  \/ ScanDone

HandleEvent(w) ==
  \/ \E i \in Issued : SkipEvent(w, i) \/ AcceptEvent(w, i)
  \/ Submit(w)
  \/ SubmitAnswerLost(w)
  \/ SubmitFails(w)
  \/ Mark(w)

RelayerNext ==
  \/ Chains
  \/ Start
  \/ Stop
  \/ MainLoop
  \/ \E w \in Workers : HandleEvent(w)

RelayerSpec == RelayerInit /\ [][RelayerNext]_relayerVars

(***************************************************************************)
(* Fairness: goroutines are scheduled, Ethereum mines what its node        *)
(* accepted, the retries of one submission are finite, and a call that is  *)
(* repeated for ever does not fail for ever.                               *)
(* Stopping, restarting and the user's locks are not forced.               *)
(***************************************************************************)
Advance(w) ==
  \/ w = "main" /\ (TakeSnapshot \/ Backfill \/ Subscribe \/ CatchUp \/ Drained
                      \/ PollQuery \/ ScanDone)
  \/ \E i \in Issued : SkipEvent(w, i) \/ AcceptEvent(w, i)
  \/ Submit(w)
  \/ SubmitFails(w)
  \/ Mark(w)

Fairness ==
  /\ \A w \in Workers : WF_relayerVars(Advance(w))
  /\ \A i \in Locks :
       /\ SF_relayerVars(i \in Issued /\ SkipEvent("main", i))
       /\ SF_relayerVars(job["main"] = i /\ Submit("main"))
       /\ WF_relayerVars(MineMint(i))

FairRelayerSpec == RelayerSpec /\ Fairness

(* The operator restarts the process whenever it is down. *)
RestartedRelayerSpec == FairRelayerSpec /\ WF_relayerVars(Start)

-----------------------------------------------------------------------------
HandedOver == sent \cup minted

(* The cursor, in memory or in the file, never passes a lock that was not   *)
(* handed to Ethereum: a restart that resumes behind it misses nothing from *)
(* the first scanned block on, whatever failed or crashed before.           *)
CursorCovers ==
  LogsIn(origin, store.cursor) \cup LogsIn(origin, disk.cursor) \subseteq HandedOver

(* Only a lock that was handed over is ever treated as a duplicate: the     *)
(* three layers of deduplication never swallow a lock, not even across a    *)
(* crash between submission and mark.                                       *)
DuplicatesHandedOver ==
  processed \cup store.locks \cup disk.locks \subseteq HandedOver

(* While the subscription is being set up and served, every event since the *)
(* snapshot is queued, being processed, still to be caught up, handed over, *)
(* or failed: backfill, catch-up and subscription leave no gap.             *)
InHand == {job[w] : w \in Workers} \cup todo \cup {queue[k] : k \in DOMAIN queue}
NoGap ==
  mode = "subscribed" /\ live /\ gapStart > 0 =>
    LogsIn(gapStart, head) \subseteq HandedOver \cup InHand \cup ignored

(* In polling mode a lock from the first scanned block on is minted in the  *)
(* end, unless it or one before it expired first: the loop retries a failed *)
(* block for ever, and an expired lock holds up all that follow.            *)
OnlyExpiryBlocks ==
  \A i \in Locks :
    i \in Issued /\ store.cursor > 0 /\ lockBlock[i] >= origin
      ~> \/ i \in minted
         \/ \E j \in 1..i : j \in expired \ minted

=============================================================================
