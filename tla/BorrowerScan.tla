----------------------------- MODULE BorrowerScan -----------------------------
(***************************************************************************)
(* How the web application finds the borrowers: the release queue          *)
(* (useReleaseQueue) and the liquidation radar (useLiquidationRadar) scan  *)
(* the Locked events of Mantle in chunks of blocks and keep what they      *)
(* found in localStorage, with the last block they scanned and a time.     *)
(*                                                                         *)
(* Both are the same procedure with other rules; a behaviour follows one   *)
(* of them.  Fetches run side by side (two tabs share the storage, and a   *)
(* rescan starts a fetch while an old one is running), blocks arrive while *)
(* they scan, a node may be behind, and any call may fail.                 *)
(***************************************************************************)
EXTENDS Integers, Sequences, FiniteSets, FiniteSetsExt, SequencesExt

CONSTANTS
  Borrowers,  \* who may lock
  Fetches,    \* fetches that may run at the same time
  Lookback,   \* LOG_LOOKBACK_BLOCKS
  Chunk,      \* LOG_CHUNK_SIZE
  Lag,        \* how far behind a node may be
  MaxHeight,  \* bound on the height of the chain
  MaxLocks    \* bound on the number of locks

ASSUME ScanAssumption ==
  /\ IsFiniteSet(Borrowers)
  /\ Lookback \in Nat /\ Lag \in Nat /\ Chunk \in Nat \ {0}
  /\ MaxHeight \in Nat /\ MaxLocks \in Nat

VARIABLES
  rules,   \* "queue" or "radar"
  height,  \* the current block of Mantle
  locks,   \* every Locked event, in order: borrower and block
  store,   \* localStorage: entries, last block, and whether it is older than a day
  fetch,   \* per fetch, where it is and its local variables
  listed   \* the borrowers the page knows of (SWR's data)

scanVars == <<rules, height, locks, store, fetch, listed>>

(* entries maps a borrower to the lock id of its last known event, which is *)
(* the event's place in locks; the radar keeps no ids.                      *)
NoEntries == [b \in {} |-> 0]
NoBlock == -1
Empty == [entries |-> NoEntries, last |-> NoBlock, stale |-> TRUE]
Idle == [scanning |-> FALSE, cached |-> NoEntries, found |-> NoEntries, next |-> 0, current |-> 0]

Known(entries) == DOMAIN entries

ScanTypeOK ==
  /\ rules \in {"queue", "radar"}
  /\ height \in 0..MaxHeight
  /\ \A i \in DOMAIN locks : locks[i] \in [who: Borrowers, block: 1..height]
  /\ store.last \in -1..height /\ store.stale \in BOOLEAN
  /\ Known(store.entries) \subseteq Borrowers
  /\ \A f \in Fetches : fetch[f].scanning => fetch[f].next <= fetch[f].current + Lag + 1
  /\ listed \subseteq Borrowers

ScanInit ==
  /\ rules \in {"queue", "radar"}
  /\ height = 0
  /\ locks = <<>>
  /\ store = Empty
  /\ fetch = [f \in Fetches |-> Idle]
  /\ listed = {}

NewBlock(who) ==
  /\ height < MaxHeight
  /\ Len(locks) + Cardinality(who) <= MaxLocks
  /\ height' = height + 1
  /\ locks' = locks \o SetToSeq({[who |-> b, block |-> height + 1] : b \in who})
  /\ UNCHANGED <<rules, store, fetch, listed>>

(* A day passes. *)
StoreExpires ==
  /\ ~store.stale
  /\ store' = [store EXCEPT !.stale = TRUE]
  /\ UNCHANGED <<rules, height, locks, fetch, listed>>

-----------------------------------------------------------------------------
(* Where a scan begins that finds the chain at block current.  The queue    *)
(* goes on after the last block only while the store is fresh, the radar    *)
(* (which does not scan at all then) also after that.                       *)
DefaultFrom(current) == IF current > Lookback THEN current - Lookback ELSE 0

(* A mutant: one block is left out after the last one. *)
FromSkips(current) ==
  IF rules = "queue"
  THEN IF store.stale \/ store.last = NoBlock THEN DefaultFrom(current) ELSE store.last + 2
  ELSE IF store.last + 1 > DefaultFrom(current) THEN store.last + 1 ELSE DefaultFrom(current)

From(current) ==
  IF rules = "queue"
  THEN IF store.stale \/ store.last = NoBlock THEN DefaultFrom(current) ELSE store.last + 1
  ELSE IF store.last + 1 > DefaultFrom(current) THEN store.last + 1 ELSE DefaultFrom(current)

(* A mutant: the radar's list never gets too old. *)
UsesStoreForEver == rules = "radar" /\ store.entries # NoEntries

(* A fresh list that is not empty is the radar's answer, without a call. *)
UsesStore == rules = "radar" /\ ~store.stale /\ store.entries # NoEntries

AnswerFromStore(f) ==
  /\ ~fetch[f].scanning
  /\ UsesStore
  /\ listed' = Known(store.entries)
  /\ UNCHANGED <<rules, height, locks, store, fetch>>

(* The store is read once; getBlockNumber() answers.  With nothing left to  *)
(* scan the fetch is about to end.                                          *)
BeginScan(f) ==
  /\ ~fetch[f].scanning
  /\ ~UsesStore
  /\ \E current \in (height - Lag)..height :
       /\ current >= 0
       /\ fetch' = [fetch EXCEPT ![f] =
            [scanning |-> TRUE, found |-> store.entries,
             cached |-> IF rules = "radar" THEN store.entries ELSE NoEntries,
             next |-> From(current), current |-> current]]
  /\ UNCHANGED <<rules, height, locks, store, listed>>

(* getLogs() of one chunk; a later event of a borrower replaces an earlier. *)
ScanChunk(f) ==
  LET s == fetch[f]
      to == IF s.next + Chunk - 1 > s.current THEN s.current ELSE s.next + Chunk - 1
      ids == {i \in DOMAIN locks : locks[i].block \in s.next..to}
      seen == {locks[i].who : i \in ids}
  IN /\ s.scanning
     /\ s.next <= s.current
     /\ fetch' = [fetch EXCEPT
          ![f].next = to + 1,
          ![f].found = [b \in Known(s.found) \cup seen |->
                          IF b \in seen THEN Max({i \in ids : locks[i].who = b})
                                        ELSE s.found[b]]]
     /\ UNCHANGED <<rules, height, locks, store, listed>>

(* A call fails: the queue shows what it has so far, the radar what was     *)
(* stored before; nothing is stored.                                        *)
ScanFails(f) ==
  /\ fetch[f].scanning
  /\ listed' = Known(IF rules = "queue" THEN fetch[f].found ELSE fetch[f].cached)
  /\ fetch' = [fetch EXCEPT ![f] = Idle]
  /\ UNCHANGED <<rules, height, locks, store>>

(* The scan is complete; the storage may refuse (quota, private browsing).  *)
(* The queue that was already ahead of its node keeps its last block, and   *)
(* block 0 counts as none.                                                  *)
ScanEnds(f) ==
  LET s == fetch[f]
      last == IF rules = "queue" /\ s.next > s.current THEN s.next - 1 ELSE s.current
  IN /\ s.scanning
     /\ s.next > s.current
     /\ store' \in {store, [entries |-> s.found,
                            last |-> IF last = 0 THEN NoBlock ELSE last,
                            stale |-> FALSE]}
     /\ listed' = Known(s.found)
     /\ fetch' = [fetch EXCEPT ![f] = Idle]
     /\ UNCHANGED <<rules, height, locks>>

(* rescanBorrowers(): the store is cleared before the new fetch begins. *)
ClearStore ==
  /\ rules = "radar"
  /\ store' = Empty
  /\ UNCHANGED <<rules, height, locks, fetch, listed>>

FetchStep(f) == AnswerFromStore(f) \/ BeginScan(f) \/ ScanChunk(f) \/ ScanEnds(f)

ScanNext ==
  \/ \E who \in SUBSET Borrowers : NewBlock(who)
  \/ StoreExpires
  \/ ClearStore
  \/ \E f \in Fetches : FetchStep(f) \/ ScanFails(f)

ScanSpec == ScanInit /\ [][ScanNext]_scanVars

(***************************************************************************)
(* Fairness: the page keeps fetching (on its interval, or when it is       *)
(* opened), its calls return, in the end they stop failing, and days pass. *)
(***************************************************************************)
FairScan ==
  /\ ScanSpec
  /\ SF_scanVars(StoreExpires)
  /\ \A f \in Fetches : WF_scanVars(FetchStep(f))
  /\ <>[][\A f \in Fetches : ~ScanFails(f)]_scanVars

-----------------------------------------------------------------------------
(* No lock is skipped: whatever the chunks, failures, restarts and fetches  *)
(* that overtook each other, the stored list holds every borrower who       *)
(* locked in the Lookback blocks (less a node's lag) up to the stored last  *)
(* block, and the queue's lock id is that borrower's latest.                *)
StoredIsComplete ==
  \A i \in DOMAIN locks :
    store.last - Lookback + Lag <= locks[i].block /\ locks[i].block <= store.last =>
      /\ locks[i].who \in Known(store.entries)
      /\ rules = "queue" => store.entries[locks[i].who] >= i

(* A lock that every node shows and the lookback still reaches is found in  *)
(* the end, also by the radar, which looks at the chain once a day at most. *)
Reached(i) == locks[i].block \in (MaxHeight - Lookback)..(height - Lag)

LocksAreFound ==
  \A b \in Borrowers :
    (\E i \in DOMAIN locks : locks[i].who = b /\ Reached(i)) ~> (b \in listed)

=============================================================================
